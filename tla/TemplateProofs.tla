---------------------------- MODULE TemplateProofs ----------------------------
(* For every template, every depth of the stack and every application: the    *)
(* scanner stays in the template, copies a length of -1 only for a tag inside   *)
(* a tag, keeps its symbols in order, and renders what the conditions say.      *)
(* First the map of symbols, then the walk, then what a template means, and     *)
(* that the walk outputs it.                                                   *)
EXTENDS Template, RecursionLemmas, SequenceTheorems

Place == 0..(Capacity - 1)

Symbol == [key : Known, value : 1..5]

(* The pairs of bucket b, no name twice. *)
SymbolBucket(bucket, b) ==
    /\ bucket \in Seq(Symbol)
    /\ \A i, j \in DOMAIN bucket :
         /\ Hash(bucket[i].key) = b
         /\ bucket[i].key = bucket[j].key => i = j

MapOk(m) ==
    /\ m \in [Place -> Seq(Symbol)]
    /\ \A b \in Place : SymbolBucket(m[b], b)

(* What intmap_put does to a bucket. *)
SymbolReplaced(new, bucket, j, value) == new = [bucket EXCEPT ![j].value = value]

SymbolAdded(new, bucket, k, value) == new = Append(bucket, [key |-> k, value |-> value])

SymbolIn(bucket, k) ==
    LET j == intmap_get_pair(bucket, k) IN IF j = 0 THEN 0 ELSE bucket[j].value

LEMMA SymbolPairIs ==
  ASSUME NEW bucket, NEW b, SymbolBucket(bucket, b), NEW k
  PROVE  /\ \A j \in DOMAIN bucket : bucket[j].key = k => intmap_get_pair(bucket, k) = j
         /\ intmap_get_pair(bucket, k) # 0 =>
              /\ intmap_get_pair(bucket, k) \in DOMAIN bucket
              /\ bucket[intmap_get_pair(bucket, k)].key = k
<1> DEFINE hits == {j \in DOMAIN bucket : bucket[j].key = k}
<1>1. DOMAIN bucket = 1..Len(bucket) /\ Len(bucket) \in Nat
  BY DEF SymbolBucket
<1>2. ASSUME NEW j \in hits PROVE intmap_get_pair(bucket, k) = j
  <2>1. hits = {j}
    BY <1>2 DEF SymbolBucket
  <2>2. j <= j
    BY <1>1, <1>2
  <2> QED
    BY <2>1, <2>2 DEF intmap_get_pair
<1>3. hits = {} => intmap_get_pair(bucket, k) = 0
  BY DEF intmap_get_pair
<1> QED
  BY <1>1, <1>2, <1>3

(* What a bucket holds for a name, without the pair; 0 if nothing. *)
LEMMA SymbolIs ==
  ASSUME NEW bucket, NEW b, SymbolBucket(bucket, b), NEW k
  PROVE  /\ \A j \in DOMAIN bucket :
              bucket[j].key = k => SymbolIn(bucket, k) = bucket[j].value /\ SymbolIn(bucket, k) # 0
         /\ (\A j \in DOMAIN bucket : bucket[j].key # k) => SymbolIn(bucket, k) = 0
         /\ intmap_get_pair(bucket, k) # 0 <=> SymbolIn(bucket, k) # 0
         /\ SymbolIn(bucket, k) \in 0..5
<1>1. /\ DOMAIN bucket = 1..Len(bucket) /\ Len(bucket) \in Nat
      /\ \A j \in DOMAIN bucket : bucket[j] \in Symbol /\ j # 0
  BY DEF SymbolBucket
<1>2. \A j \in DOMAIN bucket : bucket[j].value \in 1..5
  BY <1>1 DEF Symbol
<1>3. \A j \in DOMAIN bucket :
         bucket[j].key = k => SymbolIn(bucket, k) = bucket[j].value /\ SymbolIn(bucket, k) \in 1..5
  BY <1>1, <1>2, SymbolPairIs DEF SymbolIn
<1>4. intmap_get_pair(bucket, k) # 0 => SymbolIn(bucket, k) \in 1..5
  BY <1>3, SymbolPairIs
<1>5. intmap_get_pair(bucket, k) = 0 => SymbolIn(bucket, k) = 0
  BY DEF SymbolIn
<1>6. (\A j \in DOMAIN bucket : bucket[j].key # k) => intmap_get_pair(bucket, k) = 0
  BY SymbolPairIs
<1> QED
  BY <1>3, <1>4, <1>5, <1>6

(* Two buckets that hold the same pairs for all names but one. *)
SamePairsBut(new, bucket, k) ==
    /\ DOMAIN bucket \subseteq DOMAIN new
    /\ \A i \in DOMAIN bucket : bucket[i].key # k => new[i] = bucket[i]
    /\ \A i \in DOMAIN new : new[i].key # k => i \in DOMAIN bucket /\ bucket[i].key = new[i].key

SameSymbolsBut(new, bucket, k) == \A d : d # k => SymbolIn(new, d) = SymbolIn(bucket, d)

LEMMA OtherSymbols ==
  ASSUME NEW bucket, NEW new, NEW b, SymbolBucket(bucket, b), SymbolBucket(new, b), NEW k,
         SamePairsBut(new, bucket, k)
  PROVE  SameSymbolsBut(new, bucket, k)
<1> SUFFICES ASSUME NEW d, d # k PROVE SymbolIn(new, d) = SymbolIn(bucket, d)
  BY DEF SameSymbolsBut
<1> USE DEF SamePairsBut
<1>1. CASE \E i \in DOMAIN bucket : bucket[i].key = d
  <2>1. PICK i \in DOMAIN bucket : bucket[i].key = d
    BY <1>1
  <2>2. i \in DOMAIN new /\ new[i] = bucket[i]
    BY <2>1
  <2>3. SymbolIn(bucket, d) = bucket[i].value
    BY <2>1, SymbolIs
  <2>4. SymbolIn(new, d) = new[i].value
    BY <2>1, <2>2, SymbolIs
  <2> QED
    BY <2>2, <2>3, <2>4
<1>2. CASE \A i \in DOMAIN bucket : bucket[i].key # d
  <2>1. \A i \in DOMAIN new : new[i].key # d
    BY <1>2
  <2>2. SymbolIn(bucket, d) = 0
    BY <1>2, SymbolIs
  <2>3. SymbolIn(new, d) = 0
    BY <2>1, SymbolIs
  <2> QED
    BY <2>2, <2>3
<1> QED
  BY <1>1, <1>2

LEMMA SymbolReplacedIs ==
  ASSUME NEW bucket, NEW b, SymbolBucket(bucket, b), NEW k \in Known, NEW value \in 1..5,
         NEW j, j = intmap_get_pair(bucket, k), j # 0,
         NEW new, SymbolReplaced(new, bucket, j, value)
  PROVE  /\ SymbolBucket(new, b) /\ SymbolIn(new, k) = value
         /\ SameSymbolsBut(new, bucket, k)
<1>1. j \in DOMAIN bucket /\ bucket[j].key = k
  BY SymbolPairIs
<1>2. /\ DOMAIN bucket = 1..Len(bucket) /\ Len(bucket) \in Nat /\ bucket \in Seq(Symbol)
      /\ \A i \in DOMAIN bucket : bucket[i] \in Symbol
  BY DEF SymbolBucket
<1> DEFINE p == [bucket[j] EXCEPT !.value = value]
<1>3. p \in Symbol /\ p.key = k /\ p.value = value
  BY <1>1, <1>2 DEF Symbol
<1>4. new = [bucket EXCEPT ![j] = p]
  BY DEF SymbolReplaced
<1> HIDE DEF p
<1>5. /\ new \in Seq(Symbol) /\ Len(new) = Len(bucket) /\ DOMAIN new = DOMAIN bucket
      /\ new[j] = p /\ \A i \in DOMAIN bucket : i # j => new[i] = bucket[i]
  BY <1>1, <1>2, <1>3, <1>4
<1>6. \A i \in DOMAIN new : new[i].key = bucket[i].key
  BY <1>1, <1>3, <1>5
<1>7. SymbolBucket(new, b)
  BY <1>5, <1>6 DEF SymbolBucket
<1>8. SymbolIn(new, k) = value
  <2>1. j \in DOMAIN new /\ new[j].key = k /\ new[j].value = value
    BY <1>1, <1>3, <1>5
  <2> QED
    BY <1>7, <2>1, SymbolIs
<1>9. \A i \in DOMAIN bucket : bucket[i].key # k => new[i] = bucket[i]
  BY <1>1, <1>5
<1>10. SamePairsBut(new, bucket, k)
  BY <1>5, <1>6, <1>9 DEF SamePairsBut
<1>11. SameSymbolsBut(new, bucket, k)
  BY <1>7, <1>10, OtherSymbols
<1> QED
  BY <1>7, <1>8, <1>11

LEMMA SymbolAddedIs ==
  ASSUME NEW bucket, NEW b, SymbolBucket(bucket, b), NEW k \in Known, NEW value \in 1..5,
         Hash(k) = b, intmap_get_pair(bucket, k) = 0,
         NEW new, SymbolAdded(new, bucket, k, value)
  PROVE  /\ SymbolBucket(new, b) /\ SymbolIn(new, k) = value
         /\ SameSymbolsBut(new, bucket, k)
<1> DEFINE p == [key |-> k, value |-> value]
<1>1. p \in Symbol /\ p.key = k /\ p.value = value
  BY DEF Symbol
<1>2. DOMAIN bucket = 1..Len(bucket) /\ Len(bucket) \in Nat /\ bucket \in Seq(Symbol)
  BY DEF SymbolBucket
<1>3. \A i \in DOMAIN bucket : bucket[i].key # k
  <2> SUFFICES ASSUME NEW i \in DOMAIN bucket, bucket[i].key = k PROVE FALSE
    OBVIOUS
  <2>1. intmap_get_pair(bucket, k) = i
    BY SymbolPairIs
  <2> QED
    BY <1>2, <2>1
<1>4. new = Append(bucket, p)
  BY DEF SymbolAdded
<1> HIDE DEF p
<1>5. /\ new \in Seq(Symbol) /\ DOMAIN new = 1..(Len(bucket) + 1)
      /\ new[Len(bucket) + 1] = p /\ \A i \in DOMAIN bucket : new[i] = bucket[i]
  BY <1>1, <1>2, <1>4
<1>6. SymbolBucket(new, b)
  BY <1>1, <1>2, <1>3, <1>5 DEF SymbolBucket
<1>7. SymbolIn(new, k) = value
  <2>1. Len(bucket) + 1 \in DOMAIN new /\ new[Len(bucket) + 1].key = k
    BY <1>1, <1>2, <1>5
  <2>2. new[Len(bucket) + 1].value = value
    BY <1>1, <1>2, <1>5
  <2> QED
    BY <1>6, <2>1, <2>2, SymbolIs
<1>8. DOMAIN bucket \subseteq DOMAIN new
  BY <1>2, <1>5
<1>9. \A i \in DOMAIN new : new[i].key # k => i \in DOMAIN bucket /\ bucket[i].key = new[i].key
  BY <1>1, <1>2, <1>5
<1>10. SamePairsBut(new, bucket, k)
  BY <1>5, <1>8, <1>9 DEF SamePairsBut
<1>11. SameSymbolsBut(new, bucket, k)
  BY <1>6, <1>10, OtherSymbols
<1> QED
  BY <1>6, <1>7, <1>11

-----------------------------------------------------------------------------
(* The operators of IntMap, on a map in order. *)

LEMMA KnownHash == \A k \in Known : Hash(k) \in Place
  BY HashAssumption DEF Place

LEMMA GetIs ==
  ASSUME NEW m, MapOk(m), NEW k \in Known
  PROVE  /\ intmap_get_value(m, k) = SymbolIn(m[Hash(k)], k)
         /\ intmap_get_value(m, k) \in 0..5
         /\ intmap_exists(m, k) <=> intmap_get_value(m, k) # 0
<1>1. SymbolBucket(m[Hash(k)], Hash(k))
  BY KnownHash DEF MapOk
<1>2. intmap_get_value(m, k) = SymbolIn(m[Hash(k)], k)
  BY DEF intmap_get_value, intmap_exists, SymbolIn
<1>3. intmap_exists(m, k) <=> SymbolIn(m[Hash(k)], k) # 0
  BY <1>1, SymbolIs DEF intmap_exists
<1>4. SymbolIn(m[Hash(k)], k) \in 0..5
  BY <1>1, SymbolIs
<1> QED
  BY <1>2, <1>3, <1>4

MapChanges(new_map, m, h, new) == new_map = [m EXCEPT ![h] = new]

(* One bucket changes, for one name. *)
LEMMA MapChangesIs ==
  ASSUME NEW m, MapOk(m), NEW k \in Known, NEW new, SymbolBucket(new, Hash(k)),
         SameSymbolsBut(new, m[Hash(k)], k),
         NEW new_map, MapChanges(new_map, m, Hash(k), new)
  PROVE  /\ MapOk(new_map)
         /\ intmap_get_value(new_map, k) = SymbolIn(new, k)
         /\ \A d \in Known : d # k => intmap_get_value(new_map, d) = intmap_get_value(m, d)
<1>1. PICK h \in Place : h = Hash(k)
  BY KnownHash
<1>2. new \in Seq(Symbol)
  BY DEF SymbolBucket
<1>3. /\ new_map \in [Place -> Seq(Symbol)] /\ new_map[h] = new
      /\ \A b \in Place : b # h => new_map[b] = m[b]
  BY <1>1, <1>2 DEF MapChanges, MapOk
<1>4. MapOk(new_map)
  BY <1>1, <1>3 DEF MapOk
<1>5. intmap_get_value(new_map, k) = SymbolIn(new, k)
  BY <1>1, <1>3, <1>4, GetIs
<1>6. ASSUME NEW d \in Known, d # k PROVE intmap_get_value(new_map, d) = intmap_get_value(m, d)
  <2>1. Hash(d) \in Place
    BY KnownHash
  <2>2. SymbolIn(new_map[Hash(d)], d) = SymbolIn(m[Hash(d)], d)
    BY <1>1, <1>3, <1>6, <2>1 DEF SameSymbolsBut
  <2> QED
    BY <1>4, <2>2, GetIs
<1> QED
  BY <1>4, <1>5, <1>6

LEMMA PutIs ==
  ASSUME NEW m, MapOk(m), NEW k \in Known, NEW value \in 1..5, NEW room \in BOOLEAN,
         NEW new_map, new_map = intmap_put(m, k, value, room)
  PROVE  /\ MapOk(new_map)
         /\ intmap_get_value(new_map, k) = IF intmap_exists(m, k) \/ room THEN value ELSE 0
         /\ \A d \in Known : d # k => intmap_get_value(new_map, d) = intmap_get_value(m, d)
<1>1. PICK bucket : bucket = m[Hash(k)] /\ SymbolBucket(bucket, Hash(k))
  BY KnownHash DEF MapOk
<1>2. PICK j : j = intmap_get_pair(bucket, k) /\ (intmap_exists(m, k) <=> j # 0)
  BY <1>1 DEF intmap_exists
<1>3. CASE j # 0
  <2>1. PICK new : new = [bucket EXCEPT ![j].value = value] /\ SymbolReplaced(new, bucket, j, value)
    BY DEF SymbolReplaced
  <2>2. /\ SymbolBucket(new, Hash(k)) /\ SymbolIn(new, k) = value
        /\ SameSymbolsBut(new, bucket, k)
    BY <1>1, <1>2, <1>3, <2>1, SymbolReplacedIs
  <2>3. MapChanges(new_map, m, Hash(k), new)
    BY <1>1, <1>2, <1>3, <2>1 DEF intmap_put, MapChanges
  <2> QED
    BY <1>1, <1>2, <1>3, <2>2, <2>3, MapChangesIs
<1>4. CASE j = 0 /\ room
  <2>1. PICK new : /\ new = Append(bucket, [key |-> k, value |-> value])
                   /\ SymbolAdded(new, bucket, k, value)
    BY DEF SymbolAdded
  <2>2. /\ SymbolBucket(new, Hash(k)) /\ SymbolIn(new, k) = value
        /\ SameSymbolsBut(new, bucket, k)
    <3>1. intmap_get_pair(bucket, k) = 0 /\ SymbolBucket(bucket, Hash(k))
      BY <1>1, <1>2, <1>4
    <3>2. SymbolAdded(new, bucket, k, value)
      BY <2>1
    <3> QED
      BY <3>1, <3>2, SymbolAddedIs
  <2>3. MapChanges(new_map, m, Hash(k), new)
    BY <1>1, <1>2, <1>4, <2>1 DEF intmap_put, MapChanges
  <2>4. /\ MapOk(new_map) /\ intmap_get_value(new_map, k) = SymbolIn(new, k)
        /\ \A d \in Known : d # k => intmap_get_value(new_map, d) = intmap_get_value(m, d)
    <3>1. SymbolBucket(new, Hash(k)) /\ SameSymbolsBut(new, m[Hash(k)], k)
      BY <1>1, <2>2
    <3> QED
      BY <2>3, <3>1, MapChangesIs
  <2> QED
    BY <1>4, <2>2, <2>4
<1>5. CASE j = 0 /\ ~ room
  <2>1. new_map = m /\ ~ intmap_exists(m, k)
    BY <1>2, <1>5 DEF intmap_put
  <2> QED
    BY <1>5, <2>1, GetIs
<1> QED
  BY <1>3, <1>4, <1>5

(* w holds every pair of the buckets from n on, and each once. *)
SymbolWalk(w, m, n) ==
    /\ w \in Seq(Symbol)
    /\ \A i \in DOMAIN w : Hash(w[i].key) >= n /\ intmap_get_value(m, w[i].key) # 0
    /\ \A i, j \in DOMAIN w : w[i].key = w[j].key => i = j
    /\ \A k \in Known :
         Hash(k) >= n /\ intmap_get_value(m, k) # 0 => \E i \in DOMAIN w : w[i].key = k

(* The pairs of one bucket more. *)
LEMMA SymbolWalkGrows ==
  ASSUME NEW m, MapOk(m), NEW n \in Place, NEW w, SymbolWalk(w, m, n + 1),
         NEW a, a = m[n], NEW u, u = a \o w
  PROVE  SymbolWalk(u, m, n)
<1>1. SymbolBucket(a, n) /\ n \in Int /\ \A k \in Known : Hash(k) \in Int
  BY KnownHash DEF MapOk, Place
<1>2. /\ a \in Seq(Symbol) /\ w \in Seq(Symbol) /\ Len(a) \in Nat /\ Len(w) \in Nat
      /\ DOMAIN a = 1..Len(a) /\ DOMAIN w = 1..Len(w)
  <2>1. a \in Seq(Symbol) /\ w \in Seq(Symbol)
    BY <1>1 DEF SymbolBucket, SymbolWalk
  <2> QED
    BY <2>1
<1>3. /\ u \in Seq(Symbol) /\ DOMAIN u = 1..(Len(a) + Len(w))
      /\ \A i \in 1..Len(a) : u[i] = a[i]
      /\ \A i \in 1..Len(w) : u[Len(a) + i] = w[i]
  BY <1>2
<1>4. /\ \A i \in DOMAIN a : a[i].key \in Known /\ Hash(a[i].key) = n
      /\ \A i, j \in DOMAIN a : a[i].key = a[j].key => i = j
  <2>1. \A i \in DOMAIN a : a[i] \in Symbol
    BY <1>2
  <2>2. \A i \in DOMAIN a : a[i].key \in Known
    BY <2>1 DEF Symbol
  <2> QED
    BY <1>1, <2>2 DEF SymbolBucket
<1>5. /\ \A i \in DOMAIN a : intmap_get_value(m, a[i].key) # 0
      /\ \A k \in Known : Hash(k) = n /\ intmap_get_value(m, k) # 0 => \E i \in DOMAIN a : a[i].key = k
  <2>1. \A i \in DOMAIN a : SymbolIn(a, a[i].key) # 0
    BY <1>1, SymbolIs
  <2>2. \A k : SymbolIn(a, k) # 0 => \E i \in DOMAIN a : a[i].key = k
    BY <1>1, SymbolIs
  <2>3. \A k \in Known : Hash(k) = n => intmap_get_value(m, k) = SymbolIn(a, k)
    BY GetIs
  <2> QED
    BY <1>4, <2>1, <2>2, <2>3
<1>6. /\ \A i \in DOMAIN w : w[i].key \in Known /\ Hash(w[i].key) >= n + 1
      /\ \A i \in DOMAIN w : intmap_get_value(m, w[i].key) # 0
      /\ \A i, j \in DOMAIN w : w[i].key = w[j].key => i = j
      /\ \A k \in Known : Hash(k) >= n + 1 /\ intmap_get_value(m, k) # 0 =>
                            \E i \in DOMAIN w : w[i].key = k
  <2>1. \A i \in DOMAIN w : w[i] \in Symbol
    BY <1>2
  <2> QED
    BY <2>1 DEF SymbolWalk, Symbol
<1>7. \A i \in DOMAIN u :
         \/ (i \in DOMAIN a /\ u[i] = a[i])
         \/ (i - Len(a) \in DOMAIN w /\ u[i] = w[i - Len(a)] /\ i \notin DOMAIN a)
  <2> SUFFICES ASSUME NEW i \in DOMAIN u, i \notin DOMAIN a
               PROVE  i - Len(a) \in DOMAIN w /\ u[i] = w[i - Len(a)]
    BY <1>2, <1>3
  <2>1. i - Len(a) \in 1..Len(w) /\ Len(a) + (i - Len(a)) = i
    BY <1>2, <1>3
  <2> QED
    BY <1>2, <1>3, <2>1
<1>8. \A i \in DOMAIN w : Hash(w[i].key) \in Int /\ Hash(w[i].key) >= n /\ Hash(w[i].key) # n
  BY <1>1, <1>6
<1>9. \A i \in DOMAIN u : Hash(u[i].key) >= n /\ intmap_get_value(m, u[i].key) # 0
  BY <1>1, <1>4, <1>5, <1>6, <1>7, <1>8
<1>10. ASSUME NEW i \in DOMAIN u, NEW j \in DOMAIN u, u[i].key = u[j].key PROVE i = j
  <2>1. CASE i \in DOMAIN a /\ j \in DOMAIN a
    BY <1>4, <1>7, <1>10, <2>1
  <2>2. CASE i \notin DOMAIN a /\ j \notin DOMAIN a
    <3>1. i - Len(a) = j - Len(a)
      BY <1>6, <1>7, <1>10, <2>2
    <3> QED
      BY <1>2, <1>3, <3>1
  <2>3. CASE i \in DOMAIN a /\ j \notin DOMAIN a
    BY <1>4, <1>7, <1>8, <1>10, <2>3
  <2>4. CASE i \notin DOMAIN a /\ j \in DOMAIN a
    BY <1>4, <1>7, <1>8, <1>10, <2>4
  <2> QED
    BY <2>1, <2>2, <2>3, <2>4
<1>11. ASSUME NEW k \in Known, Hash(k) >= n, intmap_get_value(m, k) # 0
       PROVE  \E i \in DOMAIN u : u[i].key = k
  <2>1. CASE Hash(k) = n
    <3>1. PICK i \in DOMAIN a : a[i].key = k
      BY <1>5, <1>11, <2>1
    <3> QED
      BY <1>2, <1>3, <3>1
  <2>2. CASE Hash(k) # n
    <3>1. Hash(k) >= n + 1
      BY <1>1, <1>11, <2>2
    <3>2. PICK i \in DOMAIN w : w[i].key = k
      BY <1>6, <1>11, <3>1
    <3>3. Len(a) + i \in DOMAIN u /\ u[Len(a) + i] = w[i]
      BY <1>2, <1>3, <3>2
    <3> QED
      BY <3>2, <3>3
  <2> QED
    BY <2>1, <2>2
<1> QED
  BY <1>3, <1>9, <1>10, <1>11 DEF SymbolWalk

(* intmap_enum hands over every name stored, once. *)
LEMMA EnumIs ==
  ASSUME NEW m, MapOk(m)
  PROVE  /\ intmap_enum(m) \in Seq(Symbol)
         /\ \A i, j \in DOMAIN intmap_enum(m) : intmap_enum(m)[i].key = intmap_enum(m)[j].key => i = j
         /\ {intmap_enum(m)[i].key : i \in DOMAIN intmap_enum(m)}
               = {k \in Known : intmap_get_value(m, k) # 0}
<1> DEFINE Eq(g) == g = [b \in 0..Capacity |-> IF b = Capacity THEN <<>> ELSE m[b] \o g[b + 1]]
           step == [i \in 0..(Capacity - 1) |-> [x \in Seq(Symbol) |-> m[i] \o x]]
<1>1. Capacity \in Nat /\ \A i \in 0..(Capacity - 1) : m[i] \in Seq(Symbol) /\ i \in Place
  BY HashAssumption DEF MapOk, Place
<1>2. step \in [0..(Capacity - 1) -> [Seq(Symbol) -> Seq(Symbol)]]
  BY <1>1, ConcatProperties
<1>3. \A i \in 0..(Capacity - 1), x \in Seq(Symbol) : step[i][x] = m[i] \o x
  OBVIOUS
<1> HIDE DEF step
<1>4. PICK f \in [0..Capacity -> Seq(Symbol)] : Descends(f, Capacity, <<>>, step)
  <2>1. <<>> \in Seq(Symbol)
    OBVIOUS
  <2> QED
    BY <1>1, <1>2, <2>1, DownwardRecursion
<1>5. ASSUME NEW b \in 0..Capacity
      PROVE  f[b] = IF b = Capacity THEN <<>> ELSE m[b] \o f[b + 1]
  <2>1. b # Capacity => b \in 0..(Capacity - 1) /\ f[b + 1] \in Seq(Symbol)
    BY <1>1
  <2> QED
    BY <1>3, <1>4, <2>1 DEF Descends
<1>6. Eq(f)
  BY <1>5
<1>7. PICK From : From = (CHOOSE g : Eq(g)) /\ intmap_enum(m) = From[0]
  BY DEF intmap_enum
<1>8. Eq(From)
  BY <1>6, <1>7
<1>9. \A b \in 0..Capacity : From[b] = IF b = Capacity THEN <<>> ELSE m[b] \o From[b + 1]
  BY <1>8
<1> HIDE DEF Eq
<1> DEFINE S == {b \in 0..Capacity : SymbolWalk(From[b], m, b)}
<1>10. Capacity \in S
  <2>1. From[Capacity] = <<>>
    BY <1>1, <1>9
  <2>2. \A k \in Known : Hash(k) \in Int /\ Hash(k) < Capacity
    BY <1>1, KnownHash DEF Place
  <2>3. SymbolWalk(<<>>, m, Capacity)
    BY <1>1, <2>2 DEF SymbolWalk
  <2> QED
    BY <1>1, <2>1, <2>3
<1>11. ASSUME NEW n \in 0..(Capacity - 1), n + 1 \in S PROVE n \in S
  <2>1. n \in Place /\ n \in 0..Capacity /\ n # Capacity
    BY <1>1
  <2>2. From[n] = m[n] \o From[n + 1] /\ SymbolWalk(From[n + 1], m, n + 1)
    BY <1>9, <1>11, <2>1
  <2>3. SymbolWalk(From[n], m, n)
    BY <2>1, <2>2, SymbolWalkGrows
  <2> QED
    BY <2>1, <2>3
<1> HIDE DEF S
<1>12. \A n \in 0..Capacity : n \in S
  BY <1>1, <1>10, <1>11, DownToZero
<1>13. SymbolWalk(From[0], m, 0)
  BY <1>1, <1>12 DEF S
<1>14. PICK w : w = intmap_enum(m) /\ SymbolWalk(w, m, 0)
  BY <1>7, <1>13
<1>15. \A i \in DOMAIN w : w[i] \in Symbol
  BY <1>14 DEF SymbolWalk
<1>16. {w[i].key : i \in DOMAIN w} = {k \in Known : intmap_get_value(m, k) # 0}
  <2>1. \A i \in DOMAIN w : w[i].key \in Known /\ intmap_get_value(m, w[i].key) # 0
    BY <1>14, <1>15 DEF SymbolWalk, Symbol
  <2>2. \A k \in Known : Hash(k) >= 0
    BY KnownHash DEF Place
  <2>3. \A k \in Known : intmap_get_value(m, k) # 0 => \E i \in DOMAIN w : w[i].key = k
    BY <1>14, <2>2 DEF SymbolWalk
  <2> QED
    BY <2>1, <2>3
<1>17. w \in Seq(Symbol) /\ \A i, j \in DOMAIN w : w[i].key = w[j].key => i = j
  BY <1>14 DEF SymbolWalk
<1> QED
  BY <1>14, <1>16, <1>17

(* A sequence without repeated keys has as many keys as pairs. *)
LEMMA CountIs ==
  ASSUME NEW T, NEW w \in Seq(T), \A i, j \in DOMAIN w : w[i].key = w[j].key => i = j
  PROVE  /\ IsFiniteSet({w[i].key : i \in DOMAIN w})
         /\ Cardinality({w[i].key : i \in DOMAIN w}) = Len(w)
<1> DEFINE at == [i \in 1..Len(w) |-> w[i].key]
           G == {w[i].key : i \in DOMAIN w}
<1>1. Len(w) \in Nat /\ DOMAIN w = 1..Len(w)
  OBVIOUS
<1>2. /\ at \in [1..Len(w) -> G]
      /\ \A i, j \in 1..Len(w) : at[i] = at[j] => i = j
      /\ \A k \in G : \E i \in 1..Len(w) : at[i] = k
  BY <1>1
<1> HIDE DEF at, G
<1>3. at \in Bijection(1..Len(w), G)
  BY <1>2 DEF Bijection, Injection, Surjection, IsInjective
<1>4. Cardinality(G) = Len(w)
  BY <1>1, <1>3, FS_CountingElements DEF ExistsBijection
<1>5. IsFiniteSet(1..Len(w))
  BY <1>1, FS_Interval
<1>6. IsFiniteSet(G)
  BY <1>3, <1>5, FS_Bijection DEF ExistsBijection
<1> QED
  BY <1>4, <1>6 DEF G

-----------------------------------------------------------------------------
(* The template as it is scanned. *)

IsSeq(s) == \E S : s \in Seq(S)

(* F[k] is what the first k sequences come to. *)
FoldedPrefixes(F, s) ==
    /\ F[0] = <<>>
    /\ \A k \in 1..Len(s) : F[k] = F[k - 1] \o s[k]
    /\ FlattenSeq(s) = F[Len(s)]

(* Sequences put one behind the other. *)
LEMMA PrefixesExist ==
  ASSUME NEW T, NEW s \in Seq(Seq(T))
  PROVE  \E F \in [0..Len(s) -> Seq(T)] : FoldedPrefixes(F, s)
<1> DEFINE L == Len(s)
           Eq(g) == g = [i \in 1..Len(s) |-> IF i = 1 THEN s[i] ELSE g[i - 1] \o s[i]]
           step == [n \in 1..L |-> [x \in Seq(T) |-> x \o s[n]]]
<1>1. L \in Nat /\ \A n \in 1..L : s[n] \in Seq(T)
  OBVIOUS
<1>2. step \in [1..L -> [Seq(T) -> Seq(T)]]
  BY <1>1, ConcatProperties
<1>3. \A n \in 1..L, x \in Seq(T) : step[n][x] = x \o s[n]
  OBVIOUS
<1> HIDE DEF step
<1>4. PICK F \in [0..L -> Seq(T)] : Ascends(F, L, <<>>, step)
  <2>1. <<>> \in Seq(T)
    OBVIOUS
  <2> QED
    BY <1>1, <1>2, <2>1, UpwardRecursion
<1>5. F[0] = <<>>
  BY <1>1, <1>4 DEF Ascends
<1>6. ASSUME NEW k \in 1..L PROVE F[k] = F[k - 1] \o s[k]
  <2>1. k \in 0..L /\ k # 0 /\ k - 1 \in 0..L
    BY <1>1
  <2>2. F[k - 1] \in Seq(T)
    BY <1>4, <2>1
  <2> HIDE DEF L
  <2>3. F[k] = step[k][F[k - 1]]
    BY <1>4, <2>1 DEF Ascends
  <2> QED
    BY <1>3, <2>2, <2>3
<1>7. FlattenSeq(s) = F[L]
  <2>1. CASE L = 0
    BY <1>5, <2>1 DEF FlattenSeq
  <2>2. CASE L # 0
    <3> DEFINE h == [i \in 1..L |-> F[i]]
    <3>1. ASSUME NEW i \in 1..L PROVE F[i] = IF i = 1 THEN s[i] ELSE h[i - 1] \o s[i]
      <4>1. CASE i = 1
        <5>1. F[i] = F[i - 1] \o s[i] /\ s[i] \in Seq(T)
          BY <1>1, <1>6
        <5>2. i - 1 = 0
          BY <4>1
        <5>3. F[i] = <<>> \o s[i]
          BY <1>5, <5>1, <5>2
        <5> QED
          BY <4>1, <5>1, <5>3, ConcatEmptySeq
      <4>2. CASE i # 1
        <5>1. i - 1 \in 1..L
          BY <1>1, <4>2
        <5> QED
          BY <1>6, <4>2, <5>1
      <4> QED
        BY <4>1, <4>2
    <3>2. Eq(h)
      BY <3>1
    <3> HIDE DEF h
    <3>3. PICK flatten : flatten = (CHOOSE g : Eq(g)) /\ FlattenSeq(s) = flatten[L]
      BY <2>2 DEF FlattenSeq
    <3>4. Eq(flatten)
      BY <3>2, <3>3
    <3>5. \A i \in 1..L : flatten[i] = IF i = 1 THEN s[i] ELSE flatten[i - 1] \o s[i]
      BY <3>4
    <3> HIDE DEF Eq
    <3> DEFINE S == {n \in 0..L : n # 0 => flatten[n] = F[n]}
    <3>6. 0 \in S
      BY <1>1
    <3>7. ASSUME NEW n \in 1..L, n - 1 \in S PROVE n \in S
      <4>1. n \in 0..L
        BY <1>1
      <4>2. CASE n = 1
        <5>1. n - 1 = 0
          BY <4>2
        <5>2. F[n] = F[n - 1] \o s[n] /\ s[n] \in Seq(T) /\ n - 1 = 0
          BY <1>1, <1>6, <5>1, Zenon
        <5>3. F[n] = <<>> \o s[n]
          BY <1>5, <5>2
        <5>4. flatten[n] = s[n]
          BY <3>5, <4>2
        <5>5. F[n] = s[n]
          BY <5>2, <5>3, ConcatEmptySeq
        <5> QED
          BY <4>1, <5>4, <5>5
      <4>3. CASE n # 1
        <5>1. flatten[n - 1] = F[n - 1]
          BY <1>1, <3>7, <4>3
        <5>2. flatten[n] = F[n]
          BY <1>6, <3>5, <4>3, <5>1
        <5> QED
          BY <4>1, <5>2
      <4> QED
        BY <4>2, <4>3
    <3> HIDE DEF S
    <3>8. \A n \in 0..L : n \in S
      BY <1>1, <3>6, <3>7, UpFromZero
    <3>9. flatten[L] = F[L]
      BY <1>1, <2>2, <3>8 DEF S
    <3> QED
      BY <3>3, <3>9
  <2> QED
    BY <2>1, <2>2
<1> QED
  BY <1>4, <1>5, <1>6, <1>7 DEF FoldedPrefixes

LEMMA FlattenIs ==
  ASSUME NEW T, NEW s \in Seq(Seq(T))
  PROVE  FlattenSeq(s) \in Seq(T)
<1>1. PICK F \in [0..Len(s) -> Seq(T)] : FoldedPrefixes(F, s)
  BY PrefixesExist
<1>2. Len(s) \in 0..Len(s)
  OBVIOUS
<1> QED
  BY <1>1, <1>2 DEF FoldedPrefixes

(* One more of the sequences, behind those that were not empty. *)
LEMMA FlattenMore ==
  ASSUME NEW T, NEW s \in Seq(Seq(T)), NEW t \in Seq(Seq(T)), Len(t) = Len(s),
         NEW m \in 1..Len(s),
         \A k \in 1..Len(s) : k >= m => s[k] = <<>>,
         \A k \in 1..Len(s) : k # m => t[k] = s[k]
  PROVE  FlattenSeq(t) = FlattenSeq(s) \o t[m]
<1>1. PICK L \in Nat : L = Len(s)
  OBVIOUS
<1>2. PICK F \in [0..L -> Seq(T)] : FoldedPrefixes(F, s)
  BY <1>1, PrefixesExist
<1>3. PICK G \in [0..L -> Seq(T)] : FoldedPrefixes(G, t)
  BY <1>1, PrefixesExist
<1>4. t[m] \in Seq(T) /\ m \in 1..L
  BY <1>1
<1>5. PICK a \in Seq(T) : a = t[m]
  BY <1>4
<1> DEFINE S == {k \in 0..L : G[k] = IF k < m THEN F[k] ELSE F[k] \o a}
<1>6. 0 \in S
  BY <1>1, <1>2, <1>3, <1>4 DEF FoldedPrefixes
<1>7. ASSUME NEW k \in 1..L, k - 1 \in S PROVE k \in S
  <2>1. k \in 0..L /\ k - 1 \in 0..L
    OBVIOUS
  <2>2. k \in 0..L /\ F[k - 1] \in Seq(T) /\ F[k] \in Seq(T)
    BY <1>2, <2>1
  <2>3. F[k] = F[k - 1] \o s[k] /\ G[k] = G[k - 1] \o t[k]
    BY <1>1, <1>2, <1>3 DEF FoldedPrefixes
  <2>4. k >= m => F[k] = F[k - 1]
    <3>1. k >= m => s[k] = <<>>
      BY <1>1
    <3> QED
      BY <2>2, <2>3, <3>1, ConcatEmptySeq
  <2>5. CASE k < m
    <3>1. k # m /\ k - 1 < m
      BY <1>4, <2>5
    <3>2. t[k] = s[k] /\ G[k - 1] = F[k - 1]
      BY <1>1, <1>7, <3>1
    <3> QED
      BY <2>2, <2>3, <2>5, <3>2
  <2>6. CASE k = m
    <3>1. k - 1 < m /\ ~ (k < m)
      BY <1>4, <2>6
    <3>2. G[k - 1] = F[k - 1] /\ t[k] = a /\ F[k] = F[k - 1]
      BY <1>5, <1>7, <2>4, <2>6, <3>1
    <3>3. G[k] = F[k] \o a
      BY <2>3, <3>2
    <3> QED
      BY <2>2, <3>1, <3>3
  <2>7. CASE k > m
    <3>1. ~ (k - 1 < m) /\ ~ (k < m) /\ k # m
      BY <1>4, <2>7
    <3>2. G[k - 1] = F[k - 1] \o a
      BY <1>7, <3>1
    <3>3. k >= m
      BY <1>4, <2>7
    <3>4. t[k] = <<>> /\ F[k] = F[k - 1]
      BY <1>1, <2>4, <3>1, <3>3, Zenon
    <3>5. F[k - 1] \o a \in Seq(T)
      BY <2>2, <1>5, ConcatProperties
    <3>6. G[k] = F[k] \o a
      BY <2>3, <3>2, <3>5, <3>4, ConcatEmptySeq
    <3> QED
      BY <2>2, <3>1, <3>6
  <2> QED
    BY <1>4, <2>5, <2>6, <2>7
<1> HIDE DEF S
<1>8. \A k \in 0..L : k \in S
  BY <1>6, <1>7, UpFromZero
<1>9. G[L] = F[L] \o a
  <2>1. L \in 0..L /\ ~ (L < m)
    BY <1>4
  <2>2. L \in S
    BY <1>8, <2>1
  <2> QED
    BY <2>1, <2>2 DEF S
<1> QED
  BY <1>1, <1>2, <1>3, <1>5, <1>9 DEF FoldedPrefixes

(* Sequences that are all empty come to nothing. *)
LEMMA FlattenNone ==
  ASSUME NEW T, NEW s \in Seq(Seq(T)), \A k \in 1..Len(s) : s[k] = <<>>
  PROVE  FlattenSeq(s) = <<>>
<1>1. PICK L \in Nat : L = Len(s)
  OBVIOUS
<1>2. PICK F \in [0..L -> Seq(T)] : FoldedPrefixes(F, s)
  BY <1>1, PrefixesExist
<1> DEFINE S == {k \in 0..L : F[k] = <<>>}
<1>3. 0 \in S
  BY <1>2 DEF FoldedPrefixes
<1>4. ASSUME NEW k \in 1..L, k - 1 \in S PROVE k \in S
  <2>1. F[k] = F[k - 1] \o s[k] /\ s[k] = <<>>
    BY <1>1, <1>2, Zenon DEF FoldedPrefixes
  <2>2. F[k] = <<>> \o <<>> /\ k \in 0..L
    BY <1>4, <2>1
  <2>3. <<>> \in Seq(T)
    OBVIOUS
  <2> QED
    BY <2>2, <2>3, ConcatEmptySeq
<1> HIDE DEF S
<1>5. \A k \in 0..L : k \in S
  BY <1>3, <1>4, UpFromZero
<1>6. F[L] = <<>>
  BY <1>5 DEF S
<1> QED
  BY <1>1, <1>2, <1>6 DEF FoldedPrefixes

(* at[k] is where the k-th of the sequences begins, when they are put one     *)
(* behind the other; at[n + 1] is the end.                                     *)
Begins(at, s) ==
    /\ at \in [1..(Len(s) + 1) -> Nat \ {0}]
    /\ at[1] = 1
    /\ \A k \in 1..Len(s) : at[k + 1] = at[k] + Len(s[k])
    /\ at[Len(s) + 1] = Len(FlattenSeq(s)) + 1
    /\ \A k \in 1..Len(s) : \A j \in 1..Len(s[k]) : FlattenSeq(s)[at[k] + j - 1] = s[k][j]

(* Each of the sequences begins somewhere. *)
LEMMA BeginsExist ==
  ASSUME NEW T, NEW s \in Seq(Seq(T))
  PROVE  \E at : Begins(at, s)
<1>1. PICK L \in Nat : L = Len(s)
  OBVIOUS
<1>2. PICK F \in [0..L -> Seq(T)] : FoldedPrefixes(F, s)
  BY <1>1, PrefixesExist
<1>3. PICK all \in Seq(T) : all = FlattenSeq(s) /\ all = F[L]
  BY <1>1, <1>2 DEF FoldedPrefixes
<1> DEFINE at == [k \in 1..(L + 1) |-> Len(F[k - 1]) + 1]
           S == {k \in 0..L : /\ Len(F[k]) <= Len(all)
                              /\ \A i \in 1..Len(F[k]) : all[i] = F[k][i]}
<1>4. ASSUME NEW k \in 1..L
      PROVE  /\ F[k] = F[k - 1] \o s[k] /\ F[k - 1] \in Seq(T) /\ s[k] \in Seq(T)
             /\ F[k] \in Seq(T)
             /\ Len(F[k]) = Len(F[k - 1]) + Len(s[k])
             /\ Len(F[k - 1]) \in Nat /\ Len(s[k]) \in Nat
             /\ \A i \in 1..Len(F[k - 1]) : F[k][i] = F[k - 1][i]
             /\ \A j \in 1..Len(s[k]) : F[k][Len(F[k - 1]) + j] = s[k][j]
  <2>1. F[k] = F[k - 1] \o s[k] /\ k - 1 \in 0..L /\ k \in 0..L
    BY <1>1, <1>2 DEF FoldedPrefixes
  <2>2. PICK a \in Seq(T), b \in Seq(T) : a = F[k - 1] /\ b = s[k]
    <3>1. F[k - 1] \in Seq(T)
      BY <1>2, <2>1
    <3>2. s[k] \in Seq(T)
      BY <1>1, ElementOfSeq
    <3> QED
      BY <3>1, <3>2
  <2>3. F[k] = a \o b
    BY <2>1, <2>2
  <2>4. /\ Len(a \o b) = Len(a) + Len(b) /\ Len(a) \in Nat /\ Len(b) \in Nat /\ a \o b \in Seq(T)
        /\ \A i \in 1..Len(a) : (a \o b)[i] = a[i]
        /\ \A j \in 1..Len(b) : (a \o b)[Len(a) + j] = b[j]
    OBVIOUS
  <2> QED
    BY <2>2, <2>3, <2>4
<1>5. L \in S
  BY <1>3
<1>6. ASSUME NEW k \in 0..(L - 1), k + 1 \in S PROVE k \in S
  <2>1. k + 1 \in 1..L /\ (k + 1) - 1 = k /\ k \in 0..L
    BY <1>1
  <2>2. PICK n \in 1..L : n = k + 1 /\ n - 1 = k
    BY <2>1
  <2>3. /\ Len(F[n]) = Len(F[n - 1]) + Len(s[n]) /\ Len(F[n - 1]) \in Nat /\ Len(s[n]) \in Nat
        /\ \A i \in 1..Len(F[n - 1]) : F[n][i] = F[n - 1][i]
    BY <1>4
  <2>4. F[n] = F[k + 1] /\ F[n - 1] = F[k] /\ s[n] = s[k + 1]
    BY <2>2
  <2>5. /\ Len(F[k + 1]) = Len(F[k]) + Len(s[k + 1]) /\ Len(F[k]) \in Nat /\ Len(s[k + 1]) \in Nat
        /\ \A i \in 1..Len(F[k]) : F[k + 1][i] = F[k][i]
    BY <2>3, <2>4, Zenon
  <2>6. Len(F[k + 1]) <= Len(all) /\ \A i \in 1..Len(F[k + 1]) : all[i] = F[k + 1][i]
    BY <1>6
  <2>7. Len(F[k]) <= Len(all) /\ \A i \in 1..Len(F[k]) : i \in 1..Len(F[k + 1])
    <3>1. PICK x, y, z : x = Len(F[k]) /\ y = Len(F[k + 1]) /\ z = Len(s[k + 1])
      OBVIOUS
    <3>2. y = x + z /\ x \in Nat /\ z \in Nat /\ y <= Len(all)
      BY <2>5, <2>6, <3>1, Zenon
    <3>3. Len(all) \in Nat
      OBVIOUS
    <3>4. x <= Len(all) /\ \A i \in 1..x : i \in 1..y
      BY <3>2, <3>3
    <3> QED
      BY <3>1, <3>4
  <2>8. \A i \in 1..Len(F[k]) : all[i] = F[k][i]
    BY <2>5, <2>6, <2>7
  <2> QED
    BY <2>1, <2>7, <2>8
<1> HIDE DEF S
<1>7. \A k \in 0..L : k \in S
  BY <1>5, <1>6, DownToZero
<1>8. /\ at \in [1..(L + 1) -> Nat \ {0}] /\ at[1] = 1 /\ at[L + 1] = Len(all) + 1
      /\ \A k \in 1..L : at[k] = Len(F[k - 1]) + 1 /\ at[k + 1] = Len(F[k]) + 1
  <2>1. \A k \in 1..(L + 1) : k - 1 \in 0..L
    OBVIOUS
  <2>2. \A k \in 1..(L + 1) : Len(F[k - 1]) + 1 \in Nat \ {0}
    BY <2>1
  <2>3. at \in [1..(L + 1) -> Nat \ {0}]
    BY <2>2
  <2>4. at[1] = Len(F[0]) + 1 /\ F[0] = <<>>
    BY <1>2 DEF FoldedPrefixes
  <2>5. L + 1 \in 1..(L + 1) /\ (L + 1) - 1 = L
    OBVIOUS
  <2>6. at[L + 1] = Len(all) + 1
    BY <1>3, <2>5
  <2>7. \A k \in 1..L : k \in 1..(L + 1) /\ k + 1 \in 1..(L + 1) /\ (k + 1) - 1 = k
    OBVIOUS
  <2>8. \A k \in 1..L : at[k] = Len(F[k - 1]) + 1 /\ at[k + 1] = Len(F[k]) + 1
    BY <2>7
  <2> HIDE DEF at
  <2>9. at[1] = 1
    BY <2>4
  <2> QED
    BY <2>3, <2>6, <2>8, <2>9
<1> HIDE DEF at
<1>9. ASSUME NEW k \in 1..L PROVE at[k + 1] = at[k] + Len(s[k])
  <2>1. at[k] = Len(F[k - 1]) + 1 /\ at[k + 1] = Len(F[k]) + 1
    BY <1>8
  <2>2. Len(F[k]) = Len(F[k - 1]) + Len(s[k]) /\ Len(F[k - 1]) \in Nat /\ Len(s[k]) \in Nat
    BY <1>4
  <2>3. PICK x, y, z : x = Len(F[k - 1]) /\ y = Len(F[k]) /\ z = Len(s[k])
    OBVIOUS
  <2>4. y = x + z /\ x \in Nat /\ z \in Nat /\ at[k] = x + 1 /\ at[k + 1] = y + 1
    BY <2>1, <2>2, <2>3
  <2>5. at[k + 1] = at[k] + z
    BY <2>4
  <2> QED
    BY <2>3, <2>5
<1>10. ASSUME NEW k \in 1..L, NEW j \in 1..Len(s[k]) PROVE all[at[k] + j - 1] = s[k][j]
  <2>1. PICK x, y, z : x = Len(F[k - 1]) /\ y = Len(F[k]) /\ z = Len(s[k])
    OBVIOUS
  <2>2. y = x + z /\ x \in Nat /\ z \in Nat /\ F[k][x + j] = s[k][j]
    BY <1>4, <2>1
  <2>3. \A i \in 1..y : all[i] = F[k][i]
    <3>1. k \in S
      BY <1>7
    <3> QED
      BY <2>1, <3>1 DEF S
  <2>4. at[k] = x + 1
    BY <1>8, <2>1
  <2>5. j \in 1..z
    BY <2>1
  <2>6. at[k] + j - 1 = x + j /\ x + j \in 1..y
    BY <2>2, <2>4, <2>5
  <2>7. all[x + j] = s[k][j]
    BY <2>2, <2>3, <2>6
  <2> QED
    BY <2>6, <2>7
<1>11. Begins(at, s)
  BY <1>1, <1>3, <1>8, <1>9, <1>10 DEF Begins
<1> QED
  BY <1>11

LEMMA JoinIsSeq ==
  ASSUME NEW a, IsSeq(a), NEW b, IsSeq(b)
  PROVE  IsSeq(a \o b)
<1>1. PICK S : a \in Seq(S)
  BY DEF IsSeq
<1>2. PICK T : b \in Seq(T)
  BY DEF IsSeq
<1>3. a \in Seq(S \cup T) /\ b \in Seq(S \cup T)
  BY <1>1, <1>2
<1>4. a \o b \in Seq(S \cup T)
  BY <1>3, ConcatProperties
<1> QED
  BY <1>4 DEF IsSeq

LEMMA TupleIsSeq ==
  /\ \A x : IsSeq(<<x>>)
  /\ \A x, y : IsSeq(<<x, y>>)
  /\ \A x, y, z : IsSeq(<<x, y, z>>)
<1>1. ASSUME NEW x PROVE IsSeq(<<x>>)
  <2>1. <<x>> \in Seq({x})
    OBVIOUS
  <2> QED
    BY <2>1 DEF IsSeq
<1>2. ASSUME NEW x, NEW y PROVE IsSeq(<<x, y>>)
  <2>1. <<x, y>> \in Seq({x, y})
    OBVIOUS
  <2> QED
    BY <2>1 DEF IsSeq
<1>3. ASSUME NEW x, NEW y, NEW z PROVE IsSeq(<<x, y, z>>)
  <2>1. <<x, y, z>> \in Seq({x, y, z})
    OBVIOUS
  <2> QED
    BY <2>1 DEF IsSeq
<1> QED
  BY <1>1, <1>2, <1>3

LEMMA TagIsSeq ==
  ASSUME NEW atoms, IsSeq(atoms) PROVE IsSeq(Tag(atoms))
  BY TupleIsSeq, JoinIsSeq DEF Tag

(* A template that can be written: what CallsAssumption says of its pieces. *)
IsTemplate ==
    /\ pieces \in Seq(Range(pieces))
    /\ \A i \in DOMAIN pieces :
         /\ Word[i] \notin Punctuation
         /\ pieces[i].kind \in {"text", "if", "else", "endif", "show", "bare", "scrap"}
         /\ pieces[i].kind = "scrap" => pieces[i].atoms \in Seq(Range(pieces[i].atoms))
         /\ pieces[i].kind \in WithName =>
              /\ pieces[i].name \notin Syntax
              /\ <<pieces[i].name>> \in Known \ OperatorNames
              /\ pieces[i].rest \in Seq(Range(pieces[i].rest)) /\ "%" \notin Range(pieces[i].rest)
              /\ pieces[i].rest # <<>> => pieces[i].name \in Marks

(* The templates that are called with are such. *)
LEMMA TemplateIs == Init => IsTemplate
<1> SUFFICES ASSUME Init PROVE IsTemplate
  OBVIOUS
<1>1. PICK call \in Calls : pieces = call.pieces
  BY DEF Init
<1>2. pieces \in Seq(Range(pieces))
  BY <1>1, CallsAssumption
<1>3. ASSUME NEW i \in DOMAIN pieces
      PROVE  /\ Word[i] \notin Punctuation
             /\ pieces[i].kind \in {"text", "if", "else", "endif", "show", "bare", "scrap"}
             /\ pieces[i].kind = "scrap" => pieces[i].atoms \in Seq(Range(pieces[i].atoms))
             /\ pieces[i].kind \in WithName =>
                  /\ pieces[i].name \notin Syntax
                  /\ <<pieces[i].name>> \in Known \ OperatorNames
                  /\ pieces[i].rest \in Seq(Range(pieces[i].rest)) /\ "%" \notin Range(pieces[i].rest)
                  /\ pieces[i].rest # <<>> => pieces[i].name \in Marks
  <2>1. PICK p : p = pieces[i] /\ p \in Range(pieces)
    BY DEF Range
  <2>2. /\ p.kind \in {"text", "if", "else", "endif", "show", "bare", "scrap"}
        /\ p.kind = "scrap" => p.atoms \in Seq(Range(p.atoms))
        /\ p.kind \in WithName =>
             /\ p.name \notin Syntax /\ <<p.name>> \notin OperatorNames
             /\ p.rest \in Seq(Range(p.rest)) /\ "%" \notin Range(p.rest)
             /\ p.rest # <<>> => p.name \in Marks
    BY <1>1, <2>1, CallsAssumption
  <2>3. p.kind \in WithName => <<p.name>> \in Known
    BY <1>1, <2>1 DEF Known, NamesWritten
  <2>4. Word[i] \notin Punctuation
    BY <1>1, CallsAssumption
  <2> QED
    BY <2>1, <2>2, <2>3, <2>4
<1> QED
  BY <1>2, <1>3 DEF IsTemplate

LEMMA PiecesAre ==
  ASSUME IsTemplate
  PROVE  Len(pieces) \in Nat /\ DOMAIN pieces = 1..Len(pieces)
  BY DEF IsTemplate

(* Blanks are neither marks of tags nor operators. *)
LEMMA BlankIs ==
  Blank # "%" /\ Blank # "If" /\ Blank # "Else" /\ Blank # "EndIf" /\ Blank # "=" /\ Blank # "<" /\ Blank # ">"
  BY Zenon DEF Blank

(* What stands between the "<%" and the "%>" of a tag. *)
Inner(i) ==
    LET p == pieces[i]
    IN  CASE p.kind = "if"    -> <<"If", Blank, p.name>> \o p.rest
          [] p.kind = "else"  -> <<"Else">>
          [] p.kind = "endif" -> <<"EndIf">>
          [] p.kind = "show"  -> <<"=", p.name>> \o p.rest
          [] p.kind = "bare"  -> <<p.name>> \o p.rest

IsTag(i) == pieces[i].kind \in {"if", "else", "endif", "show", "bare"}

(* Atoms with no '%'. *)
Whole(s) == IsSeq(s) /\ Len(s) \in Nat \ {0} /\ \A j \in 1..Len(s) : s[j] # "%"

RestOfName(r) == r \in Seq(Range(r)) /\ "%" \notin Range(r)

Begun(s, a, r) ==
    /\ Len(s) = Len(a) + Len(r) /\ Len(r) \in Nat
    /\ \A j \in 1..Len(a) : s[j] = a[j]
    /\ Len(r) = 0 => r = <<>>

(* A name's atoms with the rest of the name behind them. *)
LEMMA WithRest ==
  ASSUME NEW a, Whole(a), NEW r, RestOfName(r)
  PROVE  Whole(a \o r) /\ Begun(a \o r, a, r)
<1> USE DEF Whole, RestOfName
<1>1. PICK S : a \in Seq(S)
  BY DEF IsSeq
<1>2. PICK T : r \in Seq(T) /\ T = Range(r)
  OBVIOUS
<1>3. /\ a \in Seq(S \cup T) /\ r \in Seq(S \cup T) /\ Len(r) \in Nat
      /\ Len(r) = 0 => r = <<>>
  BY <1>1, <1>2
<1>0. PICK s : s = a \o r
  OBVIOUS
<1>4. /\ s \in Seq(S \cup T) /\ Len(s) = Len(a) + Len(r)
      /\ \A j \in 1..(Len(a) + Len(r)) : s[j] = IF j <= Len(a) THEN a[j] ELSE r[j - Len(a)]
  BY <1>0, <1>3, ConcatProperties
<1>5. \A j \in 1..Len(r) : r[j] # "%"
  BY <1>2, <1>3, ElementOfSeq
<1>6. \A j \in 1..Len(s) : s[j] # "%"
  BY <1>3, <1>4, <1>5
<1>7. \A j \in 1..Len(a) : s[j] = a[j]
  BY <1>3, <1>4
<1> QED
  BY <1>0, <1>3, <1>4, <1>6, <1>7 DEF IsSeq, Begun

(* The atoms of a tag. *)
LEMMA InnerIs ==
  ASSUME IsTemplate, NEW i \in DOMAIN pieces, IsTag(i)
  PROVE  /\ IsSeq(Inner(i)) /\ Len(Inner(i)) \in Nat \ {0}
         /\ \A j \in 1..Len(Inner(i)) : Inner(i)[j] # "%"
         /\ Atoms(i) = Tag(Inner(i))
<1>1. PICK p : p = pieces[i]
  OBVIOUS
<1>2. p.kind \in WithName => p.name # "%" /\ RestOfName(p.rest)
  BY <1>1 DEF IsTemplate, Syntax, RestOfName
<1>3. CASE p.kind = "if"
  <2>1. PICK a : a = <<"If", Blank, p.name>>
    OBVIOUS
  <2>2. Inner(i) = a \o p.rest /\ Atoms(i) = Tag(a \o p.rest)
    BY <1>1, <1>3, <2>1 DEF Inner, Atoms
  <2>3. p.name # "%" /\ RestOfName(p.rest)
    BY <1>2, <1>3 DEF WithName
  <2>4. Whole(a)
    <3>1. Len(a) = 3 /\ (\A j \in 1..3 : a[j] # "%") /\ IsSeq(a)
      BY <2>1, <2>3, BlankIs, TupleIsSeq
    <3> QED
      BY <3>1 DEF Whole
  <2>5. Whole(a \o p.rest)
    BY <2>3, <2>4, WithRest
  <2> QED
    BY <2>2, <2>5 DEF Whole
<1>4. CASE p.kind = "else"
  <2>1. Inner(i) = <<"Else">> /\ Atoms(i) = Tag(<<"Else">>)
    BY <1>1, <1>4 DEF Inner, Atoms
  <2>2. Len(<<"Else">>) = 1 /\ \A j \in 1..1 : <<"Else">>[j] # "%"
    OBVIOUS
  <2> QED
    BY <2>1, <2>2, TupleIsSeq
<1>5. CASE p.kind = "endif"
  <2>1. Inner(i) = <<"EndIf">> /\ Atoms(i) = Tag(<<"EndIf">>)
    BY <1>1, <1>5 DEF Inner, Atoms
  <2>2. Len(<<"EndIf">>) = 1 /\ \A j \in 1..1 : <<"EndIf">>[j] # "%"
    OBVIOUS
  <2> QED
    BY <2>1, <2>2, TupleIsSeq
<1>6. CASE p.kind = "show"
  <2>1. PICK a : a = <<"=", p.name>>
    OBVIOUS
  <2>2. Inner(i) = a \o p.rest /\ Atoms(i) = Tag(a \o p.rest)
    BY <1>1, <1>6, <2>1 DEF Inner, Atoms
  <2>3. p.name # "%" /\ RestOfName(p.rest)
    BY <1>2, <1>6 DEF WithName
  <2>4. Whole(a)
    <3>1. Len(a) = 2 /\ (\A j \in 1..2 : a[j] # "%") /\ IsSeq(a)
      BY <2>1, <2>3, TupleIsSeq
    <3> QED
      BY <3>1 DEF Whole
  <2>5. Whole(a \o p.rest)
    BY <2>3, <2>4, WithRest
  <2> QED
    BY <2>2, <2>5 DEF Whole
<1>7. CASE p.kind = "bare"
  <2>1. PICK a : a = <<p.name>>
    OBVIOUS
  <2>2. Inner(i) = a \o p.rest /\ Atoms(i) = Tag(a \o p.rest)
    BY <1>1, <1>7, <2>1 DEF Inner, Atoms
  <2>3. p.name # "%" /\ RestOfName(p.rest)
    BY <1>2, <1>7 DEF WithName
  <2>4. Whole(a)
    <3>1. Len(a) = 1 /\ (\A j \in 1..1 : a[j] # "%") /\ IsSeq(a)
      BY <2>1, <2>3, TupleIsSeq
    <3> QED
      BY <3>1 DEF Whole
  <2>5. Whole(a \o p.rest)
    BY <2>3, <2>4, WithRest
  <2> QED
    BY <2>2, <2>5 DEF Whole
<1> QED
  BY <1>1, <1>3, <1>4, <1>5, <1>6, <1>7 DEF IsTag

(* A tag is what stands in it between "<%" and "%>". *)
LEMMA TagAtoms ==
  ASSUME NEW S, NEW s \in Seq(S)
  PROVE  /\ Len(Tag(s)) = Len(s) + 4
         /\ Tag(s)[1] = "<" /\ Tag(s)[2] = "%"
         /\ \A j \in 1..Len(s) : Tag(s)[j + 2] = s[j]
         /\ Tag(s)[Len(s) + 3] = "%" /\ Tag(s)[Len(s) + 4] = ">"
<1> DEFINE T == S \cup {"<", "%", ">"}
<1>1. PICK a \in Seq(T) : a = <<"<", "%">> /\ Len(a) = 2 /\ a[1] = "<" /\ a[2] = "%"
  <2>1. <<"<", "%">> \in Seq(T)
    OBVIOUS
  <2>2. Len(<<"<", "%">>) = 2 /\ <<"<", "%">>[1] = "<" /\ <<"<", "%">>[2] = "%"
    OBVIOUS
  <2> QED
    BY <2>1, <2>2
<1>2. PICK z \in Seq(T) : z = <<"%", ">">> /\ Len(z) = 2 /\ z[1] = "%" /\ z[2] = ">"
  <2>1. <<"%", ">">> \in Seq(T)
    OBVIOUS
  <2>2. Len(<<"%", ">">>) = 2 /\ <<"%", ">">>[1] = "%" /\ <<"%", ">">>[2] = ">"
    OBVIOUS
  <2> QED
    BY <2>1, <2>2
<1>3. s \in Seq(T) /\ Len(s) \in Nat
  <2>1. S \subseteq T
    OBVIOUS
  <2> QED
    BY <2>1, SeqMonotonic
<1> HIDE DEF T
<1>4. PICK u \in Seq(T) :
         /\ u = a \o s /\ Len(u) = Len(s) + 2
         /\ u[1] = "<" /\ u[2] = "%"
         /\ \A j \in 1..Len(s) : u[j + 2] = s[j]
  <2>1. /\ a \o s \in Seq(T) /\ Len(a \o s) = Len(s) + 2
        /\ \A i \in 1..(Len(s) + 2) : (a \o s)[i] = IF i <= 2 THEN a[i] ELSE s[i - 2]
    BY <1>1, <1>3, ConcatProperties
  <2>2. (a \o s)[1] = "<" /\ (a \o s)[2] = "%"
    BY <1>1, <1>3, <2>1
  <2>3. \A j \in 1..Len(s) : (a \o s)[j + 2] = s[j]
    BY <1>3, <2>1
  <2> QED
    BY <2>1, <2>2, <2>3
<1>5. /\ Len(u \o z) = Len(s) + 4
      /\ \A i \in 1..(Len(s) + 4) : (u \o z)[i] = IF i <= Len(s) + 2 THEN u[i] ELSE z[i - (Len(s) + 2)]
  BY <1>2, <1>3, <1>4, ConcatProperties
<1>6. (u \o z)[1] = "<" /\ (u \o z)[2] = "%"
  BY <1>3, <1>4, <1>5
<1>7. \A j \in 1..Len(s) : (u \o z)[j + 2] = s[j]
  BY <1>3, <1>4, <1>5
<1>8. (u \o z)[Len(s) + 3] = "%" /\ (u \o z)[Len(s) + 4] = ">"
  BY <1>2, <1>3, <1>5
<1>9. Tag(s) = u \o z
  BY <1>1, <1>2, <1>4 DEF Tag
<1> QED
  BY <1>5, <1>6, <1>7, <1>8, <1>9

-----------------------------------------------------------------------------
(* Where the pieces lie in the input. *)

AllAtoms == [i \in DOMAIN pieces |-> Atoms(i)]

Laid(at) ==
    /\ at \in [1..(Len(pieces) + 1) -> Nat \ {0}]
    /\ at[1] = 1
    /\ \A k \in DOMAIN pieces : at[k + 1] = at[k] + Len(Atoms(k))
    /\ at[Len(pieces) + 1] = Len(input) + 1
    /\ \A k \in DOMAIN pieces : \A j \in 1..Len(Atoms(k)) : input[at[k] + j - 1] = Atoms(k)[j]

(* Sequences, each of something, are sequences of one thing. *)
LEMMA SeqsAreSeqs ==
  ASSUME NEW n \in Nat, NEW s, DOMAIN s = 1..n, s = [i \in 1..n |-> s[i]],
         \A i \in 1..n : IsSeq(s[i])
  PROVE  \E T : s \in Seq(Seq(T))
<1> DEFINE T == UNION {Range(s[i]) : i \in 1..n}
<1>1. ASSUME NEW i \in 1..n PROVE s[i] \in Seq(T)
  <2>1. PICK S : s[i] \in Seq(S)
    BY DEF IsSeq
  <2>2. PICK u : u = s[i]
    OBVIOUS
  <2>3. \A j \in DOMAIN u : u[j] \in T
    BY <2>2 DEF Range
  <2> HIDE DEF T
  <2>4. u \in Seq(S) /\ \A j \in DOMAIN u : u[j] \in T
    BY <2>1, <2>2, <2>3
  <2>5. u \in Seq(T)
    BY <2>4
  <2> QED
    BY <2>2, <2>5
<1> HIDE DEF T
<1>2. s \in [1..n -> Seq(T)]
  BY <1>1
<1>3. s \in Seq(Seq(T))
  BY <1>2, SeqDef
<1> QED
  BY <1>3

(* All atoms of a template are atoms of one set. *)
LEMMA AtomsAreSeqs ==
  ASSUME IsTemplate
  PROVE  \E T : AllAtoms \in Seq(Seq(T))
<1>1. ASSUME NEW i \in DOMAIN pieces PROVE IsSeq(Atoms(i))
  <2>1. CASE IsTag(i)
    BY <2>1, InnerIs, TagIsSeq
  <2>2. CASE pieces[i].kind = "text"
    BY <2>2, TupleIsSeq DEF Atoms
  <2>3. CASE pieces[i].kind = "scrap"
    BY <2>3 DEF Atoms, IsSeq, IsTemplate
  <2> QED
    BY <2>1, <2>2, <2>3 DEF IsTemplate, IsTag
<1>2. PICK n \in Nat : DOMAIN pieces = 1..n
  BY PiecesAre
<1>3. PICK s : s = AllAtoms
  OBVIOUS
<1>4. DOMAIN s = 1..n /\ s = [i \in 1..n |-> s[i]] /\ \A i \in 1..n : IsSeq(s[i])
  BY <1>1, <1>2, <1>3 DEF AllAtoms
<1> QED
  BY <1>3, <1>4, SeqsAreSeqs

(* A template is scanned as a sequence of atoms. *)
LEMMA InputIsSeq == Init => IsSeq(input)
<1> SUFFICES ASSUME Init PROVE IsSeq(input)
  OBVIOUS
<1>1. PICK T : AllAtoms \in Seq(Seq(T))
  BY TemplateIs, AtomsAreSeqs
<1>2. input = FlattenSeq(AllAtoms)
  BY DEF Init, AllAtoms
<1>3. input \in Seq(T)
  BY <1>1, <1>2, FlattenIs
<1> QED
  BY <1>3 DEF IsSeq

(* The first '%' from a place on. *)
LEMMA FirstIs ==
  ASSUME IsSeq(input), NEW i \in Nat \ {0}, NEW p, p = FirstOf(i, {"%"})
  PROVE  /\ Len(input) \in Nat
         /\ p \in 1..(Len(input) + 1)
         /\ i <= Len(input) => i <= p
         /\ p <= Len(input) => Char(p) = "%" /\ i <= p
         /\ p > Len(input) => Char(p) = NUL
<1>1. Len(input) \in Nat /\ DOMAIN input = 1..Len(input)
  BY DEF IsSeq
<1> DEFINE S == {j \in i..Len(input) : input[j] \in {"%"}} \cup {Len(input) + 1}
<1>2. S \in SUBSET Nat /\ S # {}
  BY <1>1
<1>3. p = Min(S)
  BY DEF FirstOf
<1>4. \A j \in S : j = Len(input) + 1 \/ (j \in i..Len(input) /\ input[j] = "%")
  OBVIOUS
<1> HIDE DEF S
<1>5. \E k \in S : \A n \in S : k <= n
  BY <1>2, LeastOf
<1>6. p \in S
  BY <1>3, <1>5 DEF Min
<1>7. p = Len(input) + 1 \/ (p \in i..Len(input) /\ input[p] = "%")
  BY <1>4, <1>6
<1> QED
  BY <1>1, <1>7 DEF Char

-----------------------------------------------------------------------------
(* The symbols of a scan. *)

(* The operators there was room for have the values they were created with,  *)
(* all other names none or that of a variable.                                 *)
OperatorsIn(m) ==
    /\ <<"If">> \in operators => intmap_get_value(m, <<"If">>) = operator_type_If
    /\ <<"Else">> \in operators => intmap_get_value(m, <<"Else">>) = operator_type_Else
    /\ <<"EndIf">> \in operators => intmap_get_value(m, <<"EndIf">>) = operator_type_EndIf
    /\ <<"=">> \in operators => intmap_get_value(m, <<"=">>) = operator_type_output
    /\ \A k \in Known \ operators :
         intmap_get_value(m, k) \in {operator_type_invalid, operator_type_variable}

LEMMA OperatorTypes ==
  /\ operator_type_invalid = 0 /\ operator_type_variable = 1 /\ operator_type_If = 2
  /\ operator_type_Else = 3 /\ operator_type_EndIf = 4 /\ operator_type_output = 5
  BY DEF operator_type_invalid, operator_type_variable, operator_type_If,
         operator_type_Else, operator_type_EndIf, operator_type_output

LEMMA FourOperators ==
  /\ OperatorNames \subseteq Known
  /\ <<"If">> # <<"Else">> /\ <<"If">> # <<"EndIf">> /\ <<"If">> # <<"=">>
  /\ <<"Else">> # <<"EndIf">> /\ <<"Else">> # <<"=">> /\ <<"EndIf">> # <<"=">>
<1>1. ASSUME NEW x, NEW y, x # y PROVE <<x>> # <<y>>
  <2>1. <<x>>[1] = x /\ <<y>>[1] = y
    OBVIOUS
  <2> QED
    BY <1>1, <2>1
<1> QED
  BY <1>1 DEF Known

(* An empty map. *)
LEMMA NewMapIs ==
  /\ MapOk(intmap_new)
  /\ \A k \in Known : intmap_get_value(intmap_new, k) = 0
<1>1. /\ intmap_new \in [Place -> Seq(Symbol)]
      /\ \A b \in Place : intmap_new[b] = <<>>
  <2>1. <<>> \in Seq(Symbol)
    OBVIOUS
  <2> QED
    BY <2>1 DEF intmap_new, Place
<1>2. \A b \in Place : SymbolBucket(<<>>, b)
  BY DEF SymbolBucket
<1>3. MapOk(intmap_new)
  BY <1>1, <1>2 DEF MapOk
<1>4. ASSUME NEW k \in Known PROVE intmap_get_value(intmap_new, k) = 0
  <2>1. Hash(k) \in Place /\ intmap_new[Hash(k)] = <<>>
    BY <1>1, KnownHash
  <2>2. SymbolBucket(<<>>, Hash(k)) /\ \A j \in DOMAIN <<>> : <<>>[j].key # k
    BY <1>2, <2>1
  <2>3. SymbolIn(<<>>, k) = 0
    <3>1. PICK none : none = <<>> /\ SymbolBucket(none, Hash(k)) /\ \A j \in DOMAIN none : none[j].key # k
      BY <2>2
    <3>2. SymbolIn(none, k) = 0
      BY <3>1, SymbolIs
    <3> QED
      BY <3>1, <3>2
  <2> QED
    BY <1>3, <2>1, <2>3, GetIs
<1> QED
  BY <1>3, <1>4

(* What a put leaves in a map without the name. *)
Stored(new_map, m, k, value) ==
    /\ MapOk(new_map) /\ intmap_get_value(new_map, k) = IF k \in operators THEN value ELSE 0
    /\ \A d \in Known : d # k => intmap_get_value(new_map, d) = intmap_get_value(m, d)

LEMMA StoredIs ==
  ASSUME NEW m, MapOk(m), NEW k \in Known, intmap_get_value(m, k) = 0, NEW value \in 1..5
  PROVE  Stored(intmap_put(m, k, value, k \in operators), m, k, value)
<1>1. PICK room \in BOOLEAN : room <=> k \in operators
  OBVIOUS
<1>2. PICK new_map : new_map = intmap_put(m, k, value, room)
  OBVIOUS
<1>3. /\ MapOk(new_map)
      /\ intmap_get_value(new_map, k) = IF intmap_exists(m, k) \/ room THEN value ELSE 0
      /\ \A d \in Known : d # k => intmap_get_value(new_map, d) = intmap_get_value(m, d)
  BY <1>2, PutIs
<1>4. intmap_get_value(new_map, k) = IF k \in operators THEN value ELSE 0
  BY <1>1, <1>3, GetIs
<1>5. new_map = intmap_put(m, k, value, k \in operators)
  BY <1>1, <1>2 DEF intmap_put
<1> QED
  BY <1>3, <1>4, <1>5 DEF Stored

(* pi_template_generator_create leaves the operators there is room for, and    *)
(* nothing else.                                                               *)
LEMMA CreateIs ==
  ASSUME operators \subseteq OperatorNames
  PROVE  /\ MapOk(pi_template_generator_create) /\ OperatorsIn(pi_template_generator_create)
         /\ \A k \in Known \ operators :
              intmap_get_value(pi_template_generator_create, k) = operator_type_invalid
<1>1. PICK m0 : m0 = intmap_new
  OBVIOUS
<1>2. PICK m1 : m1 = intmap_put(m0, <<"If">>, operator_type_If, <<"If">> \in operators)
  OBVIOUS
<1>3. PICK m2 : m2 = intmap_put(m1, <<"Else">>, operator_type_Else, <<"Else">> \in operators)
  OBVIOUS
<1>4. PICK m3 : m3 = intmap_put(m2, <<"EndIf">>, operator_type_EndIf, <<"EndIf">> \in operators)
  OBVIOUS
<1>5. PICK m4 : m4 = intmap_put(m3, <<"=">>, operator_type_output, <<"=">> \in operators)
  OBVIOUS
<1>6. m4 = pi_template_generator_create
  BY <1>1, <1>2, <1>3, <1>4, <1>5 DEF pi_template_generator_create
<1>7. <<"If">> \in Known /\ <<"Else">> \in Known /\ <<"EndIf">> \in Known /\ <<"=">> \in Known
  BY FourOperators DEF OperatorNames
<1>8. MapOk(m0) /\ \A k \in Known : intmap_get_value(m0, k) = 0
  BY <1>1, NewMapIs
<1>9. Stored(m1, m0, <<"If">>, operator_type_If)
  <2>1. operator_type_If \in 1..5 /\ MapOk(m0) /\ intmap_get_value(m0, <<"If">>) = 0
    BY <1>7, <1>8, OperatorTypes
  <2> QED
    BY <1>2, <1>7, <2>1, StoredIs
<1>10. Stored(m2, m1, <<"Else">>, operator_type_Else)
  <2>1. operator_type_Else \in 1..5 /\ MapOk(m1) /\ intmap_get_value(m1, <<"Else">>) = 0
    BY <1>7, <1>8, <1>9, FourOperators, OperatorTypes DEF Stored
  <2> QED
    BY <1>3, <1>7, <2>1, StoredIs
<1>11. Stored(m3, m2, <<"EndIf">>, operator_type_EndIf)
  <2>1. operator_type_EndIf \in 1..5 /\ MapOk(m2) /\ intmap_get_value(m2, <<"EndIf">>) = 0
    BY <1>7, <1>8, <1>9, <1>10, FourOperators, OperatorTypes DEF Stored
  <2> QED
    BY <1>4, <1>7, <2>1, StoredIs
<1>12. Stored(m4, m3, <<"=">>, operator_type_output)
  <2>1. operator_type_output \in 1..5 /\ MapOk(m3) /\ intmap_get_value(m3, <<"=">>) = 0
    BY <1>7, <1>8, <1>9, <1>10, <1>11, FourOperators, OperatorTypes DEF Stored
  <2> QED
    BY <1>5, <1>7, <2>1, StoredIs
<1>13. /\ intmap_get_value(m4, <<"If">>) = IF <<"If">> \in operators THEN operator_type_If ELSE 0
       /\ intmap_get_value(m4, <<"Else">>) = IF <<"Else">> \in operators THEN operator_type_Else ELSE 0
       /\ intmap_get_value(m4, <<"EndIf">>) = IF <<"EndIf">> \in operators THEN operator_type_EndIf ELSE 0
       /\ intmap_get_value(m4, <<"=">>) = IF <<"=">> \in operators THEN operator_type_output ELSE 0
  BY <1>7, <1>9, <1>10, <1>11, <1>12, FourOperators DEF Stored
<1>14. \A k \in Known \ OperatorNames : intmap_get_value(m4, k) = 0
  BY <1>8, <1>9, <1>10, <1>11, <1>12 DEF OperatorNames, Stored
<1>15. \A k \in Known \ operators : intmap_get_value(m4, k) = 0
  BY <1>13, <1>14 DEF OperatorNames
<1>16. OperatorsIn(m4)
  BY <1>13, <1>15, OperatorTypes DEF OperatorsIn
<1> QED
  BY <1>6, <1>12, <1>15, <1>16, OperatorTypes DEF Stored

(* A name of the application's that is no operator. *)
LEMMA NotOperatorIs ==
  ASSUME OperatorsIn(map), operators \subseteq OperatorNames, NEW n \in DOMAIN Truth \cup DOMAIN Value, NotOperator(n)
  PROVE  n \in Known \ operators
<1>1. intmap_get_value(map, n) = 0 \/ intmap_get_value(map, n) = 1
  BY OperatorTypes DEF NotOperator
<1> QED
  BY <1>1, OperatorTypes DEF OperatorsIn, Known, OperatorNames

(* Learning a name changes no operator. *)
LEMMA LearnIs ==
  ASSUME MapOk(map), OperatorsIn(map), operators \subseteq OperatorNames, NEW n \in Known \ operators, NEW room \in BOOLEAN,
         NEW m, m = intmap_put(map, n, operator_type_variable, room)
  PROVE  MapOk(m) /\ OperatorsIn(m)
<1>1. /\ MapOk(m)
      /\ intmap_get_value(m, n) = (IF intmap_exists(map, n) \/ room THEN operator_type_variable ELSE 0)
      /\ \A d \in Known : d # n => intmap_get_value(m, d) = intmap_get_value(map, d)
  <2>1. n \in Known /\ operator_type_variable \in 1..5
    BY OperatorTypes
  <2> QED
    BY <2>1, PutIs
<1>2. intmap_get_value(m, n) \in {operator_type_invalid, operator_type_variable}
  BY <1>1, OperatorTypes
<1>3. \A d \in operators : intmap_get_value(m, d) = intmap_get_value(map, d)
  BY <1>1, FourOperators
<1>4. \A d \in Known \ operators :
        intmap_get_value(m, d) \in {operator_type_invalid, operator_type_variable}
  BY <1>1, <1>2 DEF OperatorsIn
<1> QED
  BY <1>1, <1>3, <1>4 DEF OperatorsIn, OperatorNames

(* What a tag may come to: it learns at most a name the application knows, and *)
(* an If has its condition.                                                    *)
LEMMA LookupIs ==
  ASSUME OperatorsIn(map), operators \subseteq OperatorNames, NEW first, NEW second,
         NEW tag, tag = pi_template_lookup_symbol(first, second)
  PROVE  /\ \/ tag.learned = {}
            \/ \E n \in (DOMAIN Truth \cup DOMAIN Value) :
                 n \in Known \ operators /\ tag.learned = {n}
         /\ tag.type = operator_type_If => tag.said \in BOOLEAN
<1>1. ASSUME NEW type, NEW name, NEW known,
             known = Truth \/ (known = Value /\ type # operator_type_If),
             tag = Asked(type, name, known)
      PROVE  /\ \/ tag.learned = {}
                \/ \E n \in (DOMAIN Truth \cup DOMAIN Value) :
                     n \in Known \ operators /\ tag.learned = {n}
             /\ tag.type = operator_type_If => tag.said \in BOOLEAN
  <2>1. CASE NotOperator(name) /\ name \in DOMAIN known
    <3>1. tag = [type |-> type, said |-> known[name], learned |-> {name}]
      BY <1>1, <2>1 DEF Asked
    <3>2. name \in Known \ operators /\ name \in DOMAIN Truth \cup DOMAIN Value
      BY <1>1, <2>1, NotOperatorIs
    <3>3. type = operator_type_If => known[name] \in BOOLEAN
      BY <1>1, <2>1, TruthAssumption
    <3> QED
      BY <3>1, <3>2, <3>3
  <2>2. CASE ~ (NotOperator(name) /\ name \in DOMAIN known)
    <3>1. tag = [type |-> operator_type_invalid, said |-> <<>>, learned |-> {}]
      BY <1>1, <2>2 DEF Asked
    <3> QED
      BY <3>1, OperatorTypes
  <2> QED
    BY <2>1, <2>2
<1>2. PICK type : type = intmap_get_value(map, first)
  OBVIOUS
<1>3. CASE type = operator_type_If
  <2>1. tag = Asked(type, second, Truth)
    BY <1>2, <1>3, OperatorTypes DEF pi_template_lookup_symbol
  <2> QED
    BY <1>1, <2>1
<1>4. CASE type = operator_type_output
  <2>1. tag = Asked(type, second, Value) /\ type # operator_type_If
    BY <1>2, <1>4, OperatorTypes DEF pi_template_lookup_symbol
  <2> QED
    BY <1>1, <2>1
<1>5. CASE type = operator_type_variable
  <2>1. tag = Asked(type, first, Value) /\ type # operator_type_If
    BY <1>2, <1>5, OperatorTypes DEF pi_template_lookup_symbol
  <2> QED
    BY <1>1, <2>1
<1>6. CASE type \notin {operator_type_If, operator_type_output, operator_type_variable}
  <2>1. tag = [type |-> type, said |-> <<>>, learned |-> {}]
    BY <1>2, <1>6 DEF pi_template_lookup_symbol
  <2> QED
    BY <1>6, <2>1
<1> QED
  BY <1>3, <1>4, <1>5, <1>6

-----------------------------------------------------------------------------
(* The walk. *)

Stacks == [top : Nat, stack : [0..(Depth - 1) -> BOOLEAN]]

(* A tag opened inside a tag: what CrashesOnlyOnTagInTag asks for. *)
TagInTag ==
    \E i \in DOMAIN input :
        /\ input[i] = "<" /\ Char(i + 1) = "%"
        /\ Char(FirstOf(i + 2, {"%"})) = "%"
        /\ Char(FirstOf(i + 2, {"%"}) - 1) = "<"

(* Where the walk may stand: it never starts on a '%', and stands on the '%'  *)
(* of a "<%" only after a tag that another was opened in.                      *)
MayStand(at) ==
    /\ at \in 1..(Len(input) + 1)
    /\ at = 1 => Char(1) # "%"
    /\ Char(at) = "%" /\ Char(at - 1) = "<" => TagInTag

StatusOK ==
    pc \in {"call", "scan", "crashed", "dino_template_no_error",
            "dino_template_invalid_input", "dino_template_file_not_found"}

ScanInv ==
    /\ IsSeq(input) /\ operators \subseteq OperatorNames
    /\ ptr \in 1..(Len(input) + 1)
    /\ ifs \in Stacks /\ ifs.top <= ptr - 1
    /\ lost \subseteq DOMAIN Truth \cup DOMAIN Value
    /\ open \in BOOLEAN
    /\ StatusOK
    /\ MapOk(map)
    /\ pc = "call" => ptr = 1 /\ ~ open
    /\ pc = "scan" => OperatorsIn(map) /\ MayStand(ptr)
    /\ pc = "crashed" => TagInTag
    /\ open => pc = "scan" \/ pc = "crashed" \/ input = <<>>

LEMMA CharIs ==
  ASSUME IsSeq(input)
  PROVE  /\ Len(input) \in Nat /\ DOMAIN input = 1..Len(input)
         /\ \A i \in Int : Char(i) # NUL => i \in 1..Len(input) /\ input[i] = Char(i)
         /\ Char(0) = NUL
  BY DEF IsSeq, Char

(* Behind a tag: further on, and where the walk may stand. *)
LEMMA AfterTagIs ==
  ASSUME IsSeq(input), NEW p \in 1..Len(input), Char(p) = "%", Char(p - 1) = "<",
         NEW q, q = AfterTag(p - 1)
  PROVE  q > p /\ MayStand(q)
<1>1. PICK close : close = FirstOf(p + 1, {"%"})
  OBVIOUS
<1>2. p - 1 + 2 = p + 1 /\ p + 1 \in Nat \ {0} /\ p \in Int /\ Len(input) \in Nat
  BY CharIs
<1>3. q = IF Char(close) = "%" /\ Char(close + 1) = ">" THEN close + 2 ELSE close
  BY <1>1, <1>2 DEF AfterTag
<1>4. /\ close \in 1..(Len(input) + 1)
      /\ p + 1 <= Len(input) => p + 1 <= close
      /\ close <= Len(input) => p + 1 <= close
  BY <1>1, <1>2, FirstIs
<1>5. close > p /\ close \in Int
  BY <1>2, <1>4
<1>6. CASE Char(close) = "%" /\ Char(close + 1) = ">"
  <2>1. q = close + 2 /\ close + 1 \in 1..Len(input)
    BY <1>3, <1>5, <1>6, CharIs DEF NUL
  <2>2. q \in 1..(Len(input) + 1) /\ q > p /\ q # 1 /\ q - 1 = close + 1
    BY <1>2, <1>5, <2>1
  <2> QED
    BY <1>6, <2>2 DEF MayStand
<1>7. CASE ~ (Char(close) = "%" /\ Char(close + 1) = ">")
  <2>1. q = close /\ q # 1
    BY <1>2, <1>3, <1>5, <1>7
  <2>2. ASSUME Char(close) = "%", Char(close - 1) = "<" PROVE TagInTag
    <3>1. PICK i : i = p - 1 /\ i \in Int
      BY <1>2
    <3>2. i \in DOMAIN input /\ input[i] = "<"
      BY <3>1, CharIs DEF NUL
    <3>3. i + 1 = p /\ i + 2 = p + 1
      BY <1>2, <3>1
    <3>4. Char(i + 1) = "%" /\ FirstOf(i + 2, {"%"}) = close
      BY <1>1, <3>3
    <3> QED
      BY <2>2, <3>2, <3>4 DEF TagInTag
  <2> QED
    BY <1>4, <1>5, <2>1, <2>2 DEF MayStand
<1> QED
  BY <1>6, <1>7

(* The stack after an operator. *)
LEMMA StackIs ==
  ASSUME NEW s \in Stacks
  PROVE  /\ \A value \in BOOLEAN :
              pi_template_push_if(s, value) \in Stacks /\ pi_template_push_if(s, value).top = s.top + 1
         /\ pi_template_push_else(s) \in Stacks /\ pi_template_push_else(s).top = s.top
         /\ pi_template_pop_if(s) \in Stacks /\ pi_template_pop_if(s).top <= s.top
<1>1. s.top \in Nat /\ s.stack \in [0..(Depth - 1) -> BOOLEAN] /\ Depth \in Nat
  BY DepthAssumption DEF Stacks
<1>2. ASSUME NEW value \in BOOLEAN
      PROVE  pi_template_push_if(s, value) \in Stacks /\ pi_template_push_if(s, value).top = s.top + 1
  <2>1. [s.stack EXCEPT ![s.top] = value] \in [0..(Depth - 1) -> BOOLEAN]
    BY <1>1
  <2> QED
    BY <1>1, <2>1 DEF pi_template_push_if, Stacks
<1>3. pi_template_push_else(s) \in Stacks /\ pi_template_push_else(s).top = s.top
  <2>1. CASE 0 < s.top /\ s.top < Depth
    <3>1. PICK j \in 0..(Depth - 1) : j = s.top - 1
      BY <1>1, <2>1
    <3>2. pi_template_push_else(s) = [s EXCEPT !.stack = [s.stack EXCEPT ![j] = ~ s.stack[j]]]
      BY <1>1, <2>1, <3>1 DEF pi_template_push_else, Stacks
    <3>3. [s.stack EXCEPT ![j] = ~ s.stack[j]] \in [0..(Depth - 1) -> BOOLEAN]
      BY <1>1
    <3> QED
      BY <3>2, <3>3 DEF Stacks
  <2>2. CASE ~ (0 < s.top /\ s.top < Depth)
    BY <2>2 DEF pi_template_push_else
  <2> QED
    BY <2>1, <2>2
<1>4. pi_template_pop_if(s) \in Stacks /\ pi_template_pop_if(s).top <= s.top
  BY <1>1 DEF pi_template_pop_if, Stacks
<1> QED
  BY <1>2, <1>3, <1>4

LEMMA ScanInvInit == Init => ScanInv
<1> SUFFICES ASSUME Init PROVE ScanInv
  OBVIOUS
<1>1. IsSeq(input) /\ Len(input) \in Nat
  BY InputIsSeq, CharIs
<1>2. ifs \in Stacks /\ ifs.top = 0
  BY DEF Init, Stacks
<1>3. MapOk(map)
  BY NewMapIs DEF Init
<1>4. ptr = 1 /\ lost = {} /\ open = FALSE /\ pc = "call"
  BY DEF Init
<1>5. ptr \in 1..(Len(input) + 1) /\ ifs.top <= ptr - 1
  BY <1>1, <1>2, <1>4
<1>6. StatusOK
  BY <1>4 DEF StatusOK
<1>7. operators \subseteq OperatorNames
  BY CallsAssumption DEF Init
<1> QED
  BY <1>1, <1>2, <1>3, <1>4, <1>5, <1>6, <1>7 DEF ScanInv

(* A '%' the walk has found. *)
LEMMA PercentIs ==
  ASSUME ScanInv, NextPercent <= Len(input)
  PROVE  /\ NextPercent \in 1..Len(input) /\ Char(NextPercent) = "%"
         /\ ptr <= NextPercent /\ ptr_tag = NextPercent - 1
<1>1. ptr \in Nat \ {0} /\ Len(input) \in Nat /\ IsSeq(input)
  BY CharIs DEF ScanInv
<1>2. PICK p : p = NextPercent
  OBVIOUS
<1>3. p \in 1..(Len(input) + 1) /\ Char(p) = "%" /\ ptr <= p
  BY <1>1, <1>2, FirstIs DEF NextPercent
<1> QED
  BY <1>1, <1>2, <1>3 DEF ptr_tag

LEMMA BufferKeepsScanInv == ScanInv /\ dino_template_generate_buffer => ScanInv'
<1> SUFFICES ASSUME ScanInv, dino_template_generate_buffer PROVE ScanInv'
  OBVIOUS
<1>1. /\ pc = "call" /\ pc' = "scan" /\ open' \in BOOLEAN
      /\ map' = pi_template_generator_create
      /\ ptr' = (IF StartsWithPercent THEN 2 ELSE 1)
      /\ input' = input /\ ifs' = ifs /\ lost' = lost /\ operators' = operators
  BY DEF dino_template_generate_buffer, given
<1>2. /\ IsSeq(input) /\ ifs \in Stacks /\ ifs.top <= ptr - 1 /\ ptr = 1
      /\ lost \subseteq DOMAIN Truth \cup DOMAIN Value /\ operators \subseteq OperatorNames
  BY <1>1 DEF ScanInv
<1>3. Len(input) \in Nat /\ Char(0) = NUL /\ (Char(1) # NUL => 1 \in 1..Len(input))
  BY <1>2, CharIs
<1>4. /\ ptr' \in 1..(Len(input) + 1)
      /\ ptr' = 1 => Char(1) # "%"
      /\ Char(ptr') = "%" /\ Char(ptr' - 1) = "<" => FALSE
  <2>1. CASE StartsWithPercent
    <3>1. ptr' = 2 /\ Char(1) = "%" /\ ptr' - 1 = 1
      BY <1>1, <2>1 DEF StartsWithPercent
    <3>2. 1 \in 1..Len(input) /\ Char(ptr' - 1) = "%"
      BY <1>3, <3>1 DEF NUL
    <3> QED
      BY <1>3, <3>1, <3>2
  <2>2. CASE ~ StartsWithPercent
    <3>1. ptr' = 1 /\ Char(1) # "%" /\ ptr' - 1 = 0
      BY <1>1, <2>2 DEF StartsWithPercent
    <3> QED
      BY <1>3, <3>1
  <2> QED
    BY <2>1, <2>2
<1>5. MayStand(ptr)'
  BY <1>1, <1>4 DEF MayStand, Char, TagInTag, FirstOf
<1>6. MapOk(map') /\ OperatorsIn(map)'
  BY <1>1, <1>2, CreateIs DEF OperatorsIn
<1>7. ifs.top <= ptr' - 1
  BY <1>1, <1>2, <1>4, <1>3 DEF Stacks
<1>8. StatusOK'
  BY <1>1 DEF StatusOK
<1> QED
  BY <1>1, <1>2, <1>4, <1>5, <1>6, <1>7, <1>8 DEF ScanInv

LEMMA FileKeepsScanInv == ScanInv /\ FileNotRead => ScanInv'
<1> SUFFICES ASSUME ScanInv, FileNotRead PROVE ScanInv'
  OBVIOUS
<1>1. /\ pc = "call" /\ pc' \in {"dino_template_invalid_input", "dino_template_file_not_found"}
      /\ open' = open \/ open' = StaysOpen
      /\ input' = input /\ ptr' = ptr /\ ifs' = ifs /\ map' = map /\ lost' = lost
      /\ operators' = operators
  BY DEF FileNotRead, given
<1>2. /\ open' \in BOOLEAN
      /\ open' => input' = <<>>
  <2>1. ~ open /\ open \in BOOLEAN
    BY <1>1 DEF ScanInv
  <2>2. CASE open' = open
    BY <2>1, <2>2
  <2>3. CASE open' = StaysOpen
    <3>1. open' = (input = <<>>)
      BY <2>3, Zenon DEF StaysOpen
    <3> QED
      BY <1>1, <3>1
  <2> QED
    BY <1>1, <2>2, <2>3
<1>3. StatusOK'
  BY <1>1 DEF StatusOK
<1>4. pc' # "call" /\ pc' # "scan" /\ pc' # "crashed"
  BY <1>1
<1> QED
  BY <1>1, <1>2, <1>3, <1>4 DEF ScanInv

LEMMA MissingKeepsScanInv == ScanInv /\ ArgumentMissing => ScanInv'
<1> SUFFICES ASSUME ScanInv, ArgumentMissing PROVE ScanInv'
  OBVIOUS
<1>1. /\ pc = "call" /\ pc' \in {"dino_template_invalid_input", "dino_template_no_error"}
      /\ input' = input /\ ptr' = ptr /\ ifs' = ifs /\ map' = map /\ lost' = lost
      /\ operators' = operators /\ open' = open
  BY DEF ArgumentMissing, given
<1>2. StatusOK' /\ ~ open
  BY <1>1 DEF ScanInv, StatusOK
<1> QED
  BY <1>1, <1>2 DEF ScanInv

LEMMA FinishKeepsScanInv == ScanInv /\ Finish => ScanInv'
<1> SUFFICES ASSUME ScanInv, Finish PROVE ScanInv'
  OBVIOUS
<1>1. /\ pc' = "dino_template_no_error" /\ open' = FALSE
      /\ input' = input /\ ptr' = ptr /\ ifs' = ifs /\ map' = map /\ lost' = lost
      /\ operators' = operators
  BY DEF Finish, given
<1>2. StatusOK'
  BY <1>1 DEF StatusOK
<1> QED
  BY <1>1, <1>2 DEF ScanInv

LEMMA PlainKeepsScanInv == ScanInv /\ PlainPercent => ScanInv'
<1> SUFFICES ASSUME ScanInv, PlainPercent PROVE ScanInv'
  OBVIOUS
<1>1. /\ pc = "scan" /\ NextPercent <= Len(input) /\ ptr' = ptr + LengthWithPercent
      /\ input' = input /\ ifs' = ifs /\ map' = map /\ lost' = lost /\ open' = open /\ pc' = pc
      /\ operators' = operators
  BY DEF PlainPercent, given
<1>2. PICK p : p = NextPercent
  OBVIOUS
<1>3. /\ p \in 1..Len(input) /\ Char(p) = "%" /\ ptr <= p /\ ptr_tag = p - 1
      /\ ptr \in Nat /\ ptr >= 1 /\ Len(input) \in Nat /\ ifs.top \in Nat /\ ifs.top <= ptr - 1
  <2>1. IsSeq(input) /\ ptr \in 1..(Len(input) + 1) /\ ifs \in Stacks /\ ifs.top <= ptr - 1
    BY DEF ScanInv
  <2> QED
    BY <1>1, <1>2, <2>1, PercentIs, CharIs DEF Stacks
<1>4. ptr' = p + 1
  BY <1>1, <1>3 DEF LengthWithPercent
<1>5. ptr' \in 1..(Len(input) + 1) /\ ptr' # 1 /\ ptr' - 1 = p /\ ifs'.top <= ptr' - 1
  BY <1>1, <1>3, <1>4
<1>6. MayStand(ptr)'
  BY <1>1, <1>3, <1>5 DEF MayStand, Char
<1>7. StatusOK'
  BY <1>1 DEF ScanInv, StatusOK
<1>8. OperatorsIn(map)'
  BY <1>1 DEF ScanInv, OperatorsIn
<1> QED
  BY <1>1, <1>5, <1>6, <1>7, <1>8 DEF ScanInv

(* A length of -1 means that the walk stands on the '%' of the "<%". *)
LEMMA CrashKeepsScanInv == ScanInv /\ CopiesTooMuch => ScanInv'
<1> SUFFICES ASSUME ScanInv, CopiesTooMuch PROVE ScanInv'
  OBVIOUS
<1>1. /\ pc = "scan" /\ pc' = "crashed" /\ NextPercent <= Len(input)
      /\ Char(ptr_tag) = "<" /\ LengthBeforeTag < 0
      /\ input' = input /\ ptr' = ptr /\ ifs' = ifs /\ map' = map /\ lost' = lost /\ open' = open
      /\ operators' = operators
  BY DEF CopiesTooMuch, given
<1>2. PICK p : p = NextPercent
  OBVIOUS
<1>3. p \in Nat /\ Char(p) = "%" /\ ptr <= p /\ ptr_tag = p - 1 /\ ptr \in Nat
  BY <1>1, <1>2, PercentIs DEF ScanInv
<1>4. ptr = p
  BY <1>1, <1>3 DEF LengthBeforeTag
<1>5. TagInTag
  BY <1>1, <1>3, <1>4 DEF ScanInv, MayStand
<1>6. TagInTag'
  BY <1>1, <1>5, ZenonT(60) DEF TagInTag, Char, FirstOf
<1>7. StatusOK'
  BY <1>1 DEF StatusOK
<1> QED
  BY <1>1, <1>6, <1>7 DEF ScanInv

LEMMA TagKeepsScanInv == ScanInv /\ TagFound => ScanInv'
<1> SUFFICES ASSUME ScanInv, TagFound PROVE ScanInv'
  OBVIOUS
<1>1. /\ pc = "scan" /\ NextPercent <= Len(input) /\ Char(ptr_tag) = "<"
      /\ ptr' = AfterTag(ptr_tag)
      /\ input' = input /\ open' = open /\ pc' = pc /\ operators' = operators
  BY DEF TagFound, given
<1>2. PICK tag :
        /\ \E first, second : tag = pi_template_lookup_symbol(first, second)
        /\ ifs' = CASE tag.type = operator_type_If    -> pi_template_push_if(ifs, tag.said)
                    [] tag.type = operator_type_Else  -> pi_template_push_else(ifs)
                    [] tag.type = operator_type_EndIf -> pi_template_pop_if(ifs)
                    [] OTHER                          -> ifs
        /\ \E room \in Rooms : Learn(tag.learned, room)
  <2> DEFINE Taken(tag) ==
        /\ ifs' = CASE tag.type = operator_type_If    -> pi_template_push_if(ifs, tag.said)
                    [] tag.type = operator_type_Else  -> pi_template_push_else(ifs)
                    [] tag.type = operator_type_EndIf -> pi_template_pop_if(ifs)
                    [] OTHER                          -> ifs
        /\ \E room \in Rooms : Learn(tag.learned, room)
  <2>1. \E first \in {pi_template_get_symbol(ptr_tag + 2)} :
        \E second \in {pi_template_get_symbol(first.end)} :
        \E tag \in {pi_template_lookup_symbol(first.name, second.name)} : Taken(tag)
    BY Zenon DEF TagFound
  <2> HIDE DEF Taken
  <2>2. \E first, second : \E tag \in {pi_template_lookup_symbol(first, second)} : Taken(tag)
    BY <2>1, Zenon
  <2>3. PICK first, second : \E tag \in {pi_template_lookup_symbol(first, second)} : Taken(tag)
    BY <2>2
  <2>4. PICK tag \in {pi_template_lookup_symbol(first, second)} : Taken(tag)
    BY <2>3
  <2>5. \E f, s : tag = pi_template_lookup_symbol(f, s)
    OBVIOUS
  <2> QED
    BY <2>4, <2>5, Zenon DEF Taken
<1>3. /\ IsSeq(input) /\ MapOk(map) /\ OperatorsIn(map) /\ ifs \in Stacks /\ ifs.top <= ptr - 1
      /\ lost \subseteq DOMAIN Truth \cup DOMAIN Value /\ ptr \in Nat /\ ifs.top \in Nat
      /\ Len(input) \in Nat /\ operators \subseteq OperatorNames
  <2>1. IsSeq(input) /\ ptr \in 1..(Len(input) + 1) /\ ifs \in Stacks
    BY DEF ScanInv
  <2> QED
    BY <1>1, <2>1, CharIs DEF ScanInv, Stacks
<1>4. /\ \/ tag.learned = {}
         \/ \E n \in (DOMAIN Truth \cup DOMAIN Value) :
              n \in Known \ operators /\ tag.learned = {n}
      /\ tag.type = operator_type_If => tag.said \in BOOLEAN
  BY <1>2, <1>3, LookupIs
<1>5. PICK p : p = NextPercent
  OBVIOUS
<1>6. p \in 1..Len(input) /\ Char(p) = "%" /\ Char(p - 1) = "<" /\ ptr <= p /\ ptr' = AfterTag(p - 1)
  BY <1>1, <1>5, PercentIs
<1>7. ptr' > p /\ MayStand(ptr')
  BY <1>3, <1>6, AfterTagIs
<1>8. ptr' \in 1..(Len(input) + 1) /\ ptr' >= ptr + 1
  BY <1>3, <1>6, <1>7 DEF MayStand
<1>9. ifs' \in Stacks /\ ifs'.top <= ptr' - 1
  <2>1. ifs' \in Stacks /\ ifs'.top <= ifs.top + 1
    <3>1. CASE tag.type = operator_type_If
      <4>1. ifs' = pi_template_push_if(ifs, tag.said)
        BY <1>2, <3>1, OperatorTypes
      <4> QED
        BY <1>3, <1>4, <3>1, <4>1, StackIs
    <3>2. CASE tag.type = operator_type_Else
      <4>1. ifs' = pi_template_push_else(ifs)
        BY <1>2, <3>2, OperatorTypes
      <4> QED
        BY <1>3, <4>1, StackIs
    <3>3. CASE tag.type = operator_type_EndIf
      <4>1. ifs' = pi_template_pop_if(ifs)
        BY <1>2, <3>3, OperatorTypes
      <4>2. ifs' \in Stacks /\ ifs'.top <= ifs.top
        BY <1>3, <4>1, StackIs
      <4>3. ifs'.top \in Nat
        BY <4>2 DEF Stacks
      <4> QED
        BY <1>3, <4>2, <4>3
    <3>4. CASE tag.type \notin {operator_type_If, operator_type_Else, operator_type_EndIf}
      <4>1. ifs' = ifs
        BY <1>2, <3>4, OperatorTypes
      <4> QED
        BY <1>3, <4>1
    <3> QED
      BY <3>1, <3>2, <3>3, <3>4
  <2>2. ifs'.top \in Nat
    BY <2>1 DEF Stacks
  <2> QED
    BY <1>3, <1>8, <2>1, <2>2
<1>10. MapOk(map') /\ OperatorsIn(map') /\ lost' \subseteq DOMAIN Truth \cup DOMAIN Value
  <2>1. CASE tag.learned = {}
    <3>1. map' = map /\ lost' = lost
      BY <1>2, <2>1 DEF Learn
    <3> QED
      BY <1>3, <3>1
  <2>2. ASSUME NEW n \in (DOMAIN Truth \cup DOMAIN Value),
               n \in Known \ operators, tag.learned = {n}
        PROVE  MapOk(map') /\ OperatorsIn(map') /\ lost' \subseteq DOMAIN Truth \cup DOMAIN Value
    <3>1. PICK room \in Rooms :
            /\ map' = intmap_put(map, n, operator_type_variable, room)
            /\ lost' = lost \cup (IF room \/ intmap_exists(map, n) THEN {} ELSE {n})
      BY <1>2, <2>2 DEF Learn
    <3>2. room \in BOOLEAN
      BY RoomsAssumption
    <3>3. PICK m : m = map'
      OBVIOUS
    <3>4. MapOk(m) /\ OperatorsIn(m)
      BY <1>3, <2>2, <3>1, <3>2, <3>3, LearnIs
    <3> QED
      BY <1>3, <3>1, <3>3, <3>4
  <2> QED
    BY <1>4, <2>1, <2>2
<1>11. MayStand(ptr)'
  BY <1>1, <1>7, ZenonT(60) DEF MayStand, Char, TagInTag, FirstOf
<1>12. StatusOK'
  BY <1>1 DEF ScanInv, StatusOK
<1>13. OperatorsIn(map)'
  BY <1>1, <1>10 DEF OperatorsIn
<1> QED
  BY <1>1, <1>3, <1>8, <1>9, <1>10, <1>11, <1>12, <1>13 DEF ScanInv

LEMMA ScanInvNext == ScanInv /\ [Next]_vars => ScanInv'
<1> SUFFICES ASSUME ScanInv, [Next]_vars PROVE ScanInv'
  OBVIOUS
<1>1. CASE UNCHANGED vars
  <2>1. /\ input' = input /\ ptr' = ptr /\ ifs' = ifs /\ map' = map /\ lost' = lost
        /\ open' = open /\ pc' = pc /\ operators' = operators
    BY <1>1 DEF vars, given
  <2>2. /\ TagInTag => TagInTag'
        /\ MayStand(ptr) => MayStand(ptr)'
        /\ StatusOK => StatusOK'
        /\ OperatorsIn(map) => OperatorsIn(map)'
    BY <2>1, ZenonT(60) DEF TagInTag, MayStand, StatusOK, Char, FirstOf, OperatorsIn
  <2> QED
    BY <2>1, <2>2 DEF ScanInv
<1> QED
  BY <1>1, BufferKeepsScanInv, MissingKeepsScanInv, FileKeepsScanInv, FinishKeepsScanInv, PlainKeepsScanInv,
     CrashKeepsScanInv, TagKeepsScanInv DEF Next

(* The walk keeps its invariant: what each property of it below follows from. *)
THEOREM ScanInvHolds == Spec => []ScanInv
<1> QED
  BY ScanInvInit, ScanInvNext, PTL DEF Spec

(* The walk stays in the template, whatever the template, and the stack of     *)
(* conditions never counts more than the atoms walked past, so that an index    *)
(* into it is no wilder than the template is long; the map keeps the operators  *)
(* pi_template_generator_create had room for.                                   *)
THEOREM TemplateTypeCorrect == Spec => []TypeOK
<1>1. ScanInv => TypeOK
  <2> SUFFICES ASSUME ScanInv PROVE TypeOK
    OBVIOUS
  <2>1. ifs \in Stacks /\ ifs.top <= ptr - 1 /\ ptr \in 1..(Len(input) + 1) /\ Len(input) \in Nat
    BY CharIs DEF ScanInv
  <2>2. ifs.top \in 0..(ptr - 1) /\ ifs.stack \in [0..(Depth - 1) -> BOOLEAN]
    BY <2>1 DEF Stacks
  <2>3. ASSUME pc = "scan" PROVE intmap_get_count(map) >= Cardinality(operators)
    <3>1. MapOk(map) /\ OperatorsIn(map) /\ operators \subseteq OperatorNames
      BY <2>3 DEF ScanInv
    <3>2. PICK w : w = intmap_enum(map)
      OBVIOUS
    <3>3. /\ w \in Seq(Symbol) /\ \A i, j \in DOMAIN w : w[i].key = w[j].key => i = j
          /\ {w[i].key : i \in DOMAIN w} = {k \in Known : intmap_get_value(map, k) # 0}
      BY <3>1, <3>2, EnumIs
    <3>4. \A k \in operators : k \in Known /\ intmap_get_value(map, k) # 0
      BY <3>1, FourOperators, OperatorTypes DEF OperatorsIn, OperatorNames
    <3> DEFINE names == {w[i].key : i \in DOMAIN w}
    <3>5. operators \subseteq names
      BY <3>3, <3>4
    <3>6. IsFiniteSet(names) /\ Cardinality(names) = Len(w)
      BY <3>3, CountIs
    <3> HIDE DEF names
    <3>7. Cardinality(operators) <= Cardinality(names)
      BY <3>5, <3>6, FS_Subset
    <3> QED
      BY <3>2, <3>6, <3>7 DEF intmap_get_count
  <2> QED
    BY <2>1, <2>2, <2>3 DEF ScanInv, StatusOK, TypeOK
<1> QED
  BY <1>1, ScanInvHolds, PTL

(* The look at the atom before a '%' is never one before the template: the     *)
(* comment in the code that promises it is right, for every template.           *)
THEOREM LooksInsideOnly == Spec => []NeverReadsBeforeInput
<1>1. ScanInv => NeverReadsBeforeInput
  <2> SUFFICES ASSUME ScanInv, pc = "scan", Char(NextPercent) = "%" PROVE NextPercent > 1
    BY DEF NeverReadsBeforeInput
  <2>1. IsSeq(input) /\ ptr \in 1..(Len(input) + 1) /\ MayStand(ptr) /\ Len(input) \in Nat
    BY CharIs DEF ScanInv
  <2>2. PICK p : p = NextPercent
    OBVIOUS
  <2>3. p \in 1..(Len(input) + 1) /\ (p > Len(input) => Char(p) = NUL) /\ (p <= Len(input) => ptr <= p)
    BY <2>1, <2>2, FirstIs DEF NextPercent
  <2>4. Char(p) = "%" /\ p <= Len(input)
    BY <2>1, <2>2, <2>3 DEF NUL
  <2>5. p # 1
    BY <2>1, <2>3, <2>4 DEF MayStand
  <2> QED
    BY <2>1, <2>2, <2>3, <2>5
<1> QED
  BY <1>1, ScanInvHolds, PTL

(* The copy of SIZE_MAX bytes needs a tag opened inside a tag: a template that *)
(* has none cannot make the generator run away, however it is built otherwise.  *)
THEOREM CrashNeedsTagInTag == Spec => []CrashesOnlyOnTagInTag
<1>1. ScanInv => CrashesOnlyOnTagInTag
  BY DEF ScanInv, CrashesOnlyOnTagInTag, TagInTag
<1> QED
  BY <1>1, ScanInvHolds, PTL

(* However many tags name it, a symbol is in the map once, and the operators   *)
(* are those pi_template_generator_create had room for: no name of the          *)
(* application's replaces one or becomes one, whatever the application calls     *)
(* its conditions and strings, and also where an operator is missing.           *)
THEOREM SymbolsAreStoredOnce == Spec => []SymbolsStoredOnce
<1>1. ScanInv => SymbolsStoredOnce
  <2> SUFFICES ASSUME ScanInv PROVE SymbolsStoredOnce
    OBVIOUS
  <2>1. MapOk(map)
    BY DEF ScanInv
  <2>2. PICK w : w = intmap_enum(map)
    OBVIOUS
  <2>3. /\ w \in Seq(Symbol) /\ \A i, j \in DOMAIN w : w[i].key = w[j].key => i = j
        /\ {w[i].key : i \in DOMAIN w} = {k \in Known : intmap_get_value(map, k) # 0}
    BY <2>1, <2>2, EnumIs
  <2> DEFINE names == {w[i].key : i \in DOMAIN w}
  <2>4. intmap_get_count(map) = Cardinality(names)
    <3>1. Cardinality(names) = Len(w)
      BY <2>3, CountIs
    <3> HIDE DEF names
    <3> QED
      BY <2>2, <3>1 DEF intmap_get_count
  <2>5. ASSUME pc = "scan" PROVE {n \in names : ~ NotOperator(n)} = operators
    <3>1. OperatorsIn(map) /\ operators \subseteq OperatorNames
      BY <2>5 DEF ScanInv
    <3>2. \A n \in names : n \in Known /\ intmap_get_value(map, n) # 0
      BY <2>3
    <3>3. \A n \in operators : n \in Known /\ intmap_get_value(map, n) # 0 /\ ~ NotOperator(n)
      BY <3>1, FourOperators, OperatorTypes DEF OperatorsIn, OperatorNames, NotOperator
    <3>4. \A n \in Known \ operators : NotOperator(n)
      BY <3>1 DEF OperatorsIn, NotOperator
    <3>5. operators \subseteq names
      BY <2>3, <3>3
    <3> HIDE DEF names
    <3> QED
      BY <3>2, <3>3, <3>4, <3>5
  <2> QED
    BY <2>2, <2>4, <2>5 DEF SymbolsStoredOnce
<1> QED
  BY <1>1, ScanInvHolds, PTL

(* A template file is closed on every way out of dino_template_process_file   *)
(* but the one of an empty file.                                               *)
THEOREM FilesAreClosed == Spec => []LeftOpenOnlyIfEmpty
<1>1. ScanInv => LeftOpenOnlyIfEmpty
  BY DEF ScanInv, LeftOpenOnlyIfEmpty
<1> QED
  BY <1>1, ScanInvHolds, PTL

-----------------------------------------------------------------------------
(* The template, place by place. *)

(* Where the atoms of each piece lie. *)
LEMMA LaidExists ==
  ASSUME IsTemplate, input = FlattenSeq(AllAtoms)
  PROVE  \E at : Laid(at)
<1>1. PICK T : AllAtoms \in Seq(Seq(T))
  BY AtomsAreSeqs
<1>2. PICK s \in Seq(Seq(T)) : s = AllAtoms
  BY <1>1
<1>3. PICK at : Begins(at, s)
  BY BeginsExist
<1>4. Len(s) = Len(pieces) /\ DOMAIN pieces = 1..Len(s) /\ \A k \in DOMAIN pieces : s[k] = Atoms(k)
  <2>1. DOMAIN s = DOMAIN pieces /\ \A k \in DOMAIN pieces : s[k] = Atoms(k)
    BY <1>2 DEF AllAtoms
  <2>2. DOMAIN s = 1..Len(s) /\ Len(s) \in Nat
    OBVIOUS
  <2>3. DOMAIN pieces = 1..Len(pieces) /\ Len(pieces) \in Nat
    BY PiecesAre
  <2>4. Len(s) = Len(pieces)
    <3>1. PICK x \in Nat, y \in Nat : x = Len(s) /\ y = Len(pieces)
      BY <2>2, <2>3, ZenonT(60)
    <3>2. 1..x = 1..y
      BY <2>1, <2>2, <2>3, <3>1
    <3>3. \A i \in Nat : i \in 1..x <=> i \in 1..y
      BY <3>2
    <3>4. x = y
      <4>1. x # 0 => x \in 1..y
        BY <3>3
      <4>2. y # 0 => y \in 1..x
        BY <3>3
      <4> QED
        BY <4>1, <4>2
    <3> QED
      BY <3>1, <3>4
  <2> QED
    BY <2>1, <2>2, <2>4
<1>5. FlattenSeq(s) = input
  BY <1>2
<1>6. at \in [1..(Len(pieces) + 1) -> Nat \ {0}] /\ at[1] = 1 /\ at[Len(pieces) + 1] = Len(input) + 1
  BY <1>3, <1>4, <1>5 DEF Begins
<1>7. ASSUME NEW k \in DOMAIN pieces
      PROVE  /\ at[k + 1] = at[k] + Len(Atoms(k))
             /\ \A j \in 1..Len(Atoms(k)) : input[at[k] + j - 1] = Atoms(k)[j]
  <2>1. k \in 1..Len(s) /\ s[k] = Atoms(k)
    BY <1>4
  <2>2. /\ at[k + 1] = at[k] + Len(s[k])
        /\ \A j \in 1..Len(s[k]) : FlattenSeq(s)[at[k] + j - 1] = s[k][j]
    BY <1>3, <2>1, ZenonT(60) DEF Begins
  <2> QED
    BY <1>5, <2>1, <2>2
<1>8. Laid(at)
  BY <1>6, <1>7 DEF Laid
<1> QED
  BY <1>8

(* The places a piece takes. *)
LEMMA PlacesIn ==
  ASSUME IsTemplate, IsSeq(input), NEW at, Laid(at)
  PROVE  /\ \A k \in 1..(Len(pieces) + 1) : at[k] \in 1..(Len(input) + 1)
         /\ \A k \in DOMAIN pieces : k + 1 \in 1..(Len(pieces) + 1) /\ k \in 1..(Len(pieces) + 1)
<1>1. PICK n \in Nat : n = Len(pieces) /\ DOMAIN pieces = 1..n
  BY PiecesAre
<1>2. PICK e \in Nat : e = Len(input)
  BY CharIs
<1>3. ASSUME NEW k \in 1..n PROVE Len(Atoms(k)) \in Nat
  <2>1. PICK T : AllAtoms \in Seq(Seq(T))
    BY AtomsAreSeqs
  <2>2. k \in DOMAIN AllAtoms /\ AllAtoms[k] = Atoms(k)
    BY <1>1 DEF AllAtoms
  <2>3. Atoms(k) \in Seq(T)
    <3>1. PICK s \in Seq(Seq(T)) : s = AllAtoms
      BY <2>1
    <3>2. k \in 1..Len(s)
      BY <2>2, <3>1
    <3> QED
      BY <2>2, <3>1, <3>2, ElementOfSeq
  <2> QED
    BY <2>3
<1>4. \A k \in 1..(n + 1) : at[k] \in Nat \ {0}
  BY <1>1 DEF Laid
<1>5. \A k \in 1..n : at[k] <= at[k + 1]
  <2> SUFFICES ASSUME NEW k \in 1..n PROVE at[k] <= at[k + 1]
    OBVIOUS
  <2>1. at[k + 1] = at[k] + Len(Atoms(k))
    BY <1>1 DEF Laid
  <2>2. k \in 1..(n + 1)
    OBVIOUS
  <2>3. at[k] \in Nat
    BY <1>4, <2>2
  <2> QED
    BY <1>3, <2>1, <2>3
<1> DEFINE S == {k \in 0..n : at[k + 1] <= e + 1}
<1>6. n \in S
  <2>1. at[n + 1] = e + 1
    BY <1>1, <1>2 DEF Laid
  <2> QED
    BY <2>1
<1>7. ASSUME NEW k \in 0..(n - 1), k + 1 \in S PROVE k \in S
  <2>1. k + 1 \in 1..n /\ k \in 0..n /\ k + 1 \in 1..(n + 1) /\ (k + 1) + 1 \in 1..(n + 1)
    OBVIOUS
  <2>2. at[k + 1] <= at[(k + 1) + 1] /\ at[(k + 1) + 1] <= e + 1
    BY <1>5, <1>7, <2>1
  <2>3. at[k + 1] \in Nat /\ at[(k + 1) + 1] \in Nat
    BY <1>4, <2>1
  <2>4. at[k + 1] <= e + 1
    BY <2>2, <2>3
  <2> QED
    BY <2>1, <2>4
<1> HIDE DEF S
<1>8. \A k \in 0..n : k \in S
  BY <1>6, <1>7, DownToZero
<1>9. ASSUME NEW k \in 1..(n + 1) PROVE at[k] \in 1..(e + 1)
  <2>1. k - 1 \in 0..n /\ (k - 1) + 1 = k
    OBVIOUS
  <2>2. at[k] <= e + 1
    BY <1>8, <2>1 DEF S
  <2> QED
    BY <1>4, <2>2
<1>10. \A k \in 1..n : k + 1 \in 1..(n + 1) /\ k \in 1..(n + 1)
  OBVIOUS
<1> QED
  BY <1>1, <1>2, <1>9, <1>10

(* A tag, place by place; l atoms stand in it. *)
TagLaid(b, e, s, l) ==
    /\ l \in Nat \ {0} /\ b \in Nat \ {0} /\ e = b + l + 4 /\ b + l + 3 \in 1..Len(input)
    /\ input[b] = "<" /\ input[b + 1] = "%"
    /\ \A j \in 1..l : input[b + 1 + j] = s[j] /\ input[b + 1 + j] # "%"
    /\ input[b + l + 2] = "%" /\ input[b + l + 3] = ">"

LEMMA TagLaidIs ==
  ASSUME IsTemplate, IsSeq(input), NEW at, Laid(at), NEW m \in DOMAIN pieces, IsTag(m)
  PROVE  TagLaid(at[m], at[m + 1], Inner(m), Len(Inner(m)))
<1>1. PICK l \in Nat \ {0} : l = Len(Inner(m))
  BY InnerIs
<1>2. PICK a : a = Atoms(m) /\ a = Tag(Inner(m))
  BY InnerIs
<1>3. /\ Len(a) = l + 4 /\ a[1] = "<" /\ a[2] = "%"
      /\ \A j \in 1..l : a[j + 2] = Inner(m)[j]
      /\ a[l + 3] = "%" /\ a[l + 4] = ">"
  <2>1. PICK S : Inner(m) \in Seq(S)
    BY InnerIs DEF IsSeq
  <2> QED
    BY <1>1, <1>2, <2>1, TagAtoms
<1>4. m \in 1..(Len(pieces) + 1) /\ m + 1 \in 1..(Len(pieces) + 1)
  BY PlacesIn
<1>5. PICK b \in Nat \ {0} : b = at[m]
  BY <1>4 DEF Laid
<1>6. at[m + 1] = b + (l + 4) /\ \A j \in 1..(l + 4) : input[b + j - 1] = a[j]
  <2>1. at[m + 1] = at[m] + Len(a) /\ \A j \in 1..Len(a) : input[at[m] + j - 1] = a[j]
    BY <1>2 DEF Laid
  <2>2. Len(a) = l + 4
    BY <1>3
  <2> QED
    BY <1>5, <2>1, <2>2
<1>7. at[m + 1] \in 1..(Len(input) + 1) /\ Len(input) \in Nat
  BY <1>4, PlacesIn, CharIs
<1>8. at[m + 1] = b + l + 4 /\ b + l + 3 \in 1..Len(input)
  BY <1>6, <1>7
<1>9. /\ 1 \in 1..(l + 4) /\ 2 \in 1..(l + 4) /\ l + 3 \in 1..(l + 4) /\ l + 4 \in 1..(l + 4)
      /\ b + 1 - 1 = b /\ b + 2 - 1 = b + 1 /\ b + (l + 3) - 1 = b + l + 2
      /\ b + (l + 4) - 1 = b + l + 3
      /\ \A j \in 1..l : j + 2 \in 1..(l + 4) /\ b + (j + 2) - 1 = b + 1 + j
  OBVIOUS
<1>10. input[b] = a[1] /\ input[b + 1] = a[2] /\ input[b + l + 2] = a[l + 3] /\ input[b + l + 3] = a[l + 4]
  <2>1. input[b + 1 - 1] = a[1] /\ input[b + 2 - 1] = a[2]
    BY <1>6, <1>9
  <2>2. input[b + (l + 3) - 1] = a[l + 3] /\ input[b + (l + 4) - 1] = a[l + 4]
    BY <1>6, <1>9
  <2> QED
    BY <1>9, <2>1, <2>2
<1>11. ASSUME NEW j \in 1..l PROVE input[b + 1 + j] = Inner(m)[j] /\ Inner(m)[j] # "%"
  <2>1. input[b + (j + 2) - 1] = a[j + 2]
    BY <1>6, <1>9
  <2>2. Inner(m)[j] # "%"
    BY <1>1, InnerIs
  <2> QED
    BY <1>3, <1>9, <2>1, <2>2
<1>12. TagLaid(b, at[m + 1], Inner(m), l)
  BY <1>3, <1>8, <1>10, <1>11 DEF TagLaid
<1> QED
  BY <1>1, <1>5, <1>12

(* The place found, when nothing before it is looked for. *)
LEMMA FirstOfIs ==
  ASSUME IsSeq(input), NEW A, NEW i \in Nat \ {0}, NEW p \in i..(Len(input) + 1),
         \A q \in i..(p - 1) : input[q] \notin A,
         p <= Len(input) => input[p] \in A
  PROVE  FirstOf(i, A) = p
<1>1. PICK e \in Nat : e = Len(input)
  BY CharIs
<1> DEFINE S == {j \in i..e : input[j] \in A} \cup {e + 1}
<1>2. p \in S /\ \A j \in S : j \in Nat /\ p <= j
  <2>1. p \in S
    BY <1>1
  <2>2. ASSUME NEW j \in S PROVE j \in Nat /\ p <= j
    <3>1. CASE j = e + 1
      BY <1>1, <3>1
    <3>2. CASE j # e + 1
      <4>1. j \in i..e /\ input[j] \in A
        BY <3>2
      <4>2. j \notin i..(p - 1)
        BY <4>1
      <4> QED
        BY <4>1, <4>2
    <3> QED
      BY <3>1, <3>2
  <2> QED
    BY <2>1, <2>2
<1>3. FirstOf(i, A) = Min(S)
  BY <1>1 DEF FirstOf
<1> HIDE DEF S
<1>4. Min(S) = p
  <2>1. \A x \in S : (\A y \in S : x <= y) => x = p
    BY <1>2
  <2> QED
    BY <1>2, <2>1 DEF Min
<1> QED
  BY <1>3, <1>4

(* From i on there are blanks, and p is the first place with another atom. *)
BlanksTo(i, p) ==
    /\ \A q \in i..(p - 1) : input[q] = Blank
    /\ p <= Len(input) => input[p] # Blank

(* pi_template_skip_white stops behind the blanks. *)
LEMMA SkipIs ==
  ASSUME IsSeq(input), NEW i \in Nat \ {0}, NEW p \in i..(Len(input) + 1), BlanksTo(i, p)
  PROVE  pi_template_skip_white(i) = p
<1>1. PICK e \in Nat : e = Len(input)
  BY CharIs
<1>2. (p <= e => input[p] # Blank) /\ \A q \in i..(p - 1) : input[q] = Blank
  BY <1>1 DEF BlanksTo
<1> DEFINE S == {j \in i..e : input[j] # Blank} \cup {e + 1}
<1>3. p \in S /\ \A j \in S : j \in Nat /\ p <= j
  <2>1. p \in S
    <3>1. p = e + 1 \/ p \in i..e
      BY <1>1
    <3>2. p \in i..e => p <= e
      BY <1>1
    <3> QED
      BY <1>2, <3>1, <3>2
  <2>2. ASSUME NEW j \in S PROVE j \in Nat /\ p <= j
    <3>1. CASE j = e + 1
      BY <1>1, <3>1
    <3>2. CASE j # e + 1
      <4>1. j \in i..e /\ input[j] # Blank
        BY <3>2
      <4>2. j \notin i..(p - 1)
        BY <1>2, <4>1
      <4>3. j \in i..e
        BY <4>1
      <4> QED
        BY <4>2, <4>3
    <3> QED
      BY <3>1, <3>2
  <2> QED
    BY <2>1, <2>2
<1>4. pi_template_skip_white(i) = Min(S)
  BY <1>1 DEF pi_template_skip_white
<1> HIDE DEF S
<1>5. Min(S) = p
  <2>1. \A x \in S : (\A y \in S : x <= y) => x = p
    BY <1>3
  <2> QED
    BY <1>3, <2>1 DEF Min
<1> QED
  BY <1>4, <1>5

(* A symbol of one atom, with blanks before it or none. *)
OneAtom(c) == input[c] \in Punctuation \/ input[c + 1] \in {Blank, "%"}

SkipsTo(i, c) == pi_template_skip_white(i) = c

LEMMA SymbolRead ==
  ASSUME IsSeq(input), NEW i, NEW c \in Nat \ {0}, c < Len(input), SkipsTo(i, c), OneAtom(c)
  PROVE  /\ pi_template_get_symbol(i).name = <<input[c]>>
         /\ pi_template_get_symbol(i).end = c + 1
<1>1. PICK e \in Nat : e = Len(input) /\ DOMAIN input = 1..e
  BY CharIs
<1>2. c \in 1..e /\ c + 1 \in 1..e /\ Char(c) = input[c]
  BY <1>1 DEF Char
<1> DEFINE end == IF Char(c) \in Punctuation \cup {NUL} THEN c + 1 ELSE FirstOf(c, {Blank, "%"})
<1>3. end = c + 1
  <2>1. CASE Char(c) \in Punctuation \cup {NUL}
    BY <2>1
  <2>2. CASE Char(c) \notin Punctuation \cup {NUL}
    <3>1. input[c] \notin {Blank, "%"} /\ input[c + 1] \in {Blank, "%"}
      BY <1>2, <2>2 DEF OneAtom, Punctuation, Syntax
    <3>2. c + 1 \in c..(Len(input) + 1)
      BY <1>1
    <3>3. PICK p \in c..(Len(input) + 1) : p = c + 1
      BY <3>2
    <3>4. \A q \in c..(p - 1) : q = c
      BY <3>3
    <3>5. (\A q \in c..(p - 1) : input[q] \notin {Blank, "%"}) /\ input[p] \in {Blank, "%"}
      BY <3>1, <3>4, <3>3
    <3>6. FirstOf(c, {Blank, "%"}) = p
      BY <3>5, FirstOfIs
    <3> QED
      BY <2>2, <3>3, <3>6
  <2> QED
    BY <2>1, <2>2
<1>4. pi_template_get_symbol(i) = [name |-> SubSeq(input, c, Min({end - 1, e})), end |-> end]
  BY <1>1 DEF pi_template_get_symbol, SkipsTo
<1>5. Min({c, e}) = c
  <2>1. c <= e /\ c <= c /\ (e <= c => e = c)
    BY <1>1
  <2>2. \A x \in {c, e} : (\A y \in {c, e} : x <= y) => x = c
    BY <2>1
  <2>3. \A y \in {c, e} : c <= y
    BY <2>1
  <2> QED
    BY <2>2, <2>3 DEF Min
<1> HIDE DEF end
<1>6. end - 1 = c
  BY <1>2, <1>3
<1>7. SubSeq(input, c, c) = <<input[c]>>
  <2>1. PICK S : input \in Seq(S)
    BY DEF IsSeq
  <2>2. PICK u : u = SubSeq(input, c, c)
    OBVIOUS
  <2>3. u \in Seq(S) /\ Len(u) = 1 /\ u[1] = input[c]
    <3>1. /\ u \in Seq(S) /\ Len(u) = c - c + 1
          /\ \A q \in 1..(c - c + 1) : u[q] = input[c + q - 1]
      BY <1>1, <1>2, <2>1, <2>2, SubSeqProperties
    <3>2. c - c + 1 = 1 /\ c + 1 - 1 = c /\ 1 \in 1..1
      OBVIOUS
    <3> QED
      BY <3>1, <3>2
  <2>4. u = <<u[1]>>
    BY <2>3
  <2> QED
    BY <2>2, <2>3, <2>4
<1> QED
  BY <1>3, <1>4, <1>5, <1>6, <1>7

-----------------------------------------------------------------------------
(* Text. *)

Texts(k, m) == \A j \in k..(m - 1) : pieces[j].kind = "text"

(* The pieces from k up to the next tag, or the end. *)
LEMMA NextTag ==
  ASSUME IsTemplate, NEW k \in 1..(Len(pieces) + 1)
  PROVE  \E m \in k..(Len(pieces) + 1) :
           Texts(k, m) /\ (m \in DOMAIN pieces => pieces[m].kind # "text")
<1>1. PICK n \in Nat : n = Len(pieces) /\ DOMAIN pieces = 1..n
  BY PiecesAre
<1> DEFINE S == {j \in k..(n + 1) : j = n + 1 \/ pieces[j].kind # "text"}
<1>2. S \in SUBSET Nat /\ S # {}
  BY <1>1
<1> HIDE DEF S
<1>3. PICK m \in S : \A j \in S : m <= j
  BY <1>2, LeastOf
<1>4. m \in k..(n + 1) /\ (m = n + 1 \/ pieces[m].kind # "text")
  BY DEF S
<1>5. ASSUME NEW j \in k..(m - 1) PROVE pieces[j].kind = "text"
  <2>1. j \in k..(n + 1) /\ j # n + 1 /\ ~ (m <= j)
    BY <1>1, <1>4
  <2>2. j \notin S
    BY <1>3, <2>1
  <2> QED
    BY <2>1, <2>2 DEF S
<1>6. n + 1 \notin DOMAIN pieces
  BY <1>1
<1> QED
  BY <1>1, <1>4, <1>5, <1>6 DEF Texts

(* A run of text lies word by word. *)
LEMMA TextsLaid ==
  ASSUME IsTemplate, IsSeq(input), NEW at, Laid(at),
         NEW k \in 1..(Len(pieces) + 1), NEW m \in k..(Len(pieces) + 1), Texts(k, m)
  PROVE  /\ \A j \in k..m : at[j] = at[k] + (j - k)
         /\ \A j \in k..(m - 1) : j \in DOMAIN pieces /\ Atoms(j) = <<Word[j]>> /\ input[at[j]] = Word[j]
<1>1. PICK n \in Nat : n = Len(pieces) /\ DOMAIN pieces = 1..n
  BY PiecesAre
<1>2. ASSUME NEW j \in k..(m - 1)
      PROVE  j \in 1..n /\ at[j + 1] = at[j] + 1 /\ Atoms(j) = <<Word[j]>> /\ input[at[j]] = Word[j]
  <2>1. j \in 1..n /\ j \in DOMAIN pieces
    BY <1>1
  <2>2. Atoms(j) = <<Word[j]>>
    <3>1. pieces[j].kind = "text"
      BY DEF Texts
    <3> QED
      BY <3>1 DEF Atoms
  <2>3. Len(<<Word[j]>>) = 1 /\ <<Word[j]>>[1] = Word[j] /\ 1 \in 1..1
    OBVIOUS
  <2>4. at[j + 1] = at[j] + Len(Atoms(j)) /\ \A i \in 1..Len(Atoms(j)) : input[at[j] + i - 1] = Atoms(j)[i]
    BY <2>1 DEF Laid
  <2>5. input[at[j] + 1 - 1] = Word[j]
    BY <2>2, <2>3, <2>4
  <2>6. at[j] \in Nat
    <3>1. j \in 1..(Len(pieces) + 1)
      BY <1>1, <2>1
    <3> QED
      BY <3>1 DEF Laid
  <2>7. at[j] + 1 - 1 = at[j]
    BY <2>6
  <2> QED
    BY <2>1, <2>2, <2>3, <2>4, <2>5, <2>7
<1> DEFINE S == {d \in 0..(m - k) : at[k + d] = at[k] + d}
<1>3. 0 \in S
  <2>1. at[k] \in Nat
    BY DEF Laid
  <2> QED
    BY <1>1, <2>1
<1>4. ASSUME NEW d \in 1..(m - k), d - 1 \in S PROVE d \in S
  <2>1. k + (d - 1) \in k..(m - 1) /\ (k + (d - 1)) + 1 = k + d /\ d \in 0..(m - k) /\ d \in Int
    BY <1>1
  <2>2. at[(k + (d - 1)) + 1] = at[k + (d - 1)] + 1
    BY <1>2, <2>1
  <2>3. at[k + (d - 1)] = at[k] + (d - 1)
    BY <1>4
  <2>4. at[k] \in Nat
    BY DEF Laid
  <2>5. at[k + d] = at[k] + d
    BY <2>1, <2>2, <2>3, <2>4
  <2> QED
    BY <2>1, <2>5
<1> HIDE DEF S
<1>5. m - k \in Nat
  BY <1>1
<1>6. \A d \in 0..(m - k) : d \in S
  BY <1>3, <1>4, <1>5, UpFromZero
<1>7. ASSUME NEW j \in k..m PROVE at[j] = at[k] + (j - k)
  <2>1. j - k \in 0..(m - k) /\ k + (j - k) = j
    BY <1>1
  <2>2. at[k + (j - k)] = at[k] + (j - k)
    BY <1>6, <2>1 DEF S
  <2> QED
    BY <2>1, <2>2
<1> QED
  BY <1>1, <1>2, <1>7

(* The next '%' is the one that opens the next tag. *)
LEMMA PercentAhead ==
  ASSUME IsTemplate, IsSeq(input), NEW at, Laid(at),
         NEW k \in 1..(Len(pieces) + 1), NEW m \in k..(Len(pieces) + 1), Texts(k, m)
  PROVE  /\ m = Len(pieces) + 1 => FirstOf(at[k], {"%"}) = Len(input) + 1
         /\ m \in DOMAIN pieces /\ IsTag(m) => FirstOf(at[k], {"%"}) = at[m] + 1
<1>1. PICK n \in Nat : n = Len(pieces) /\ DOMAIN pieces = 1..n
  BY PiecesAre
<1>2. PICK b \in Nat \ {0} : b = at[k]
  BY DEF Laid
<1>3. at[m] = b + (m - k) /\ at[m] \in 1..(Len(input) + 1) /\ Len(input) \in Nat
  <2>1. m \in k..m /\ m \in 1..(Len(pieces) + 1)
    BY <1>1
  <2>2. at[m] = at[k] + (m - k)
    BY <2>1, TextsLaid
  <2>3. at[m] \in 1..(Len(input) + 1) /\ Len(input) \in Nat
    BY <2>1, PlacesIn, CharIs
  <2> QED
    BY <1>2, <2>2, <2>3
<1>4. ASSUME NEW q \in b..(at[m] - 1) PROVE input[q] \notin {"%"}
  <2>1. k + (q - b) \in k..(m - 1) /\ k + (q - b) \in k..m /\ b + (k + (q - b) - k) = q
    BY <1>1, <1>3
  <2>2. PICK j \in k..(m - 1) : j = k + (q - b) /\ j \in k..m /\ b + (j - k) = q
    BY <2>1
  <2>3. at[j] = q
    <3>1. at[j] = at[k] + (j - k)
      BY <2>2, TextsLaid
    <3> QED
      BY <1>2, <2>2, <3>1
  <2>4. j \in DOMAIN pieces /\ input[at[j]] = Word[j]
    BY TextsLaid
  <2>5. Word[j] # "%"
    BY <2>4 DEF IsTemplate, Punctuation, Syntax
  <2> QED
    BY <2>3, <2>4, <2>5
<1>5. ASSUME m = Len(pieces) + 1 PROVE FirstOf(at[k], {"%"}) = Len(input) + 1
  <2>1. at[m] = Len(input) + 1
    BY <1>5 DEF Laid
  <2>2. PICK p \in b..(Len(input) + 1) : p = Len(input) + 1
    BY <1>1, <1>3, <2>1
  <2>3. \A q \in b..(p - 1) : input[q] \notin {"%"}
    BY <1>4, <2>1, <2>2
  <2>4. ~ (p <= Len(input))
    BY <1>3, <2>2
  <2>5. FirstOf(b, {"%"}) = p
    BY <2>3, <2>4, FirstOfIs
  <2> QED
    BY <1>2, <2>2, <2>5
<1>6. ASSUME m \in DOMAIN pieces, IsTag(m) PROVE FirstOf(at[k], {"%"}) = at[m] + 1
  <2>1. TagLaid(at[m], at[m + 1], Inner(m), Len(Inner(m)))
    BY <1>6, TagLaidIs
  <2>2. /\ input[at[m]] = "<" /\ input[at[m] + 1] = "%" /\ at[m] \in Nat
        /\ at[m] + 1 <= Len(input)
    BY <1>3, <2>1 DEF TagLaid
  <2>3. PICK p \in b..(Len(input) + 1) : p = at[m] + 1
    BY <1>1, <1>3, <2>2
  <2>4. ASSUME NEW q \in b..(p - 1) PROVE input[q] \notin {"%"}
    <3>1. q \in b..(at[m] - 1) \/ q = at[m]
      BY <2>2, <2>3
    <3> QED
      BY <1>4, <2>2, <3>1
  <2>5. input[p] \in {"%"}
    BY <2>2, <2>3
  <2>6. FirstOf(b, {"%"}) = p
    BY <2>4, <2>5, FirstOfIs
  <2> QED
    BY <1>2, <2>3, <2>6
<1> QED
  BY <1>5, <1>6

-----------------------------------------------------------------------------
(* A tag. *)

(* Behind a tag is where the next piece begins. *)
LEMMA BehindTag ==
  ASSUME IsSeq(input), NEW b, NEW e, NEW s, NEW l, TagLaid(b, e, s, l)
  PROVE  AfterTag(b) = e
<1>1. /\ l \in Nat \ {0} /\ b \in Nat \ {0} /\ e = b + l + 4 /\ b + l + 3 \in 1..Len(input)
      /\ \A j \in 1..l : input[b + 1 + j] # "%"
      /\ input[b + l + 2] = "%" /\ input[b + l + 3] = ">" /\ Len(input) \in Nat
  BY CharIs DEF TagLaid
<1>2. PICK c \in (b + 2)..(Len(input) + 1) : c = b + l + 2
  BY <1>1
<1>3. ASSUME NEW q \in (b + 2)..(c - 1) PROVE input[q] \notin {"%"}
  <2>1. q - b - 1 \in 1..l /\ b + 1 + (q - b - 1) = q
    BY <1>1, <1>2
  <2> QED
    BY <1>1, <2>1
<1>4. b + 2 \in Nat \ {0} /\ input[c] \in {"%"}
  BY <1>1, <1>2
<1>5. FirstOf(b + 2, {"%"}) = c
  <2>1. PICK i \in Nat \ {0} : i = b + 2
    BY <1>4
  <2>2. c \in i..(Len(input) + 1) /\ \A q \in i..(c - 1) : input[q] \notin {"%"}
    BY <1>3, <2>1
  <2>3. FirstOf(i, {"%"}) = c
    BY <1>4, <2>2, FirstOfIs
  <2> QED
    BY <2>1, <2>3
<1>6. c \in DOMAIN input /\ c + 1 \in DOMAIN input /\ c + 1 = b + l + 3 /\ c + 2 = e
  BY <1>1, <1>2, CharIs
<1>7. Char(c) = "%" /\ Char(c + 1) = ">"
  BY <1>1, <1>2, <1>6 DEF Char
<1>8. AfterTag(b) = c + 2
  BY <1>5, <1>7 DEF AfterTag
<1> QED
  BY <1>6, <1>8

(* A symbol behind no blank. *)
LEMMA PlainSymbol ==
  ASSUME IsSeq(input), NEW c \in Nat \ {0}, c < Len(input), BlanksTo(c, c), OneAtom(c)
  PROVE  /\ pi_template_get_symbol(c).name = <<input[c]>>
         /\ pi_template_get_symbol(c).end = c + 1
<1>1. Len(input) \in Nat
  BY CharIs
<1>2. c \in c..(Len(input) + 1)
  BY <1>1
<1>3. SkipsTo(c, c)
  BY <1>2, SkipIs DEF SkipsTo
<1> QED
  BY <1>3, SymbolRead

(* The atom at c is no blank, and a symbol by itself. *)
LEMMA AtomAlone ==
  ASSUME NEW c \in Nat, input[c] # Blank, input[c] \in Punctuation \/ input[c + 1] \in {Blank, "%"}
  PROVE  BlanksTo(c, c) /\ OneAtom(c)
<1>1. c..(c - 1) = {}
  OBVIOUS
<1>2. \A q \in c..(c - 1) : input[q] = Blank
  BY <1>1
<1> QED
  BY <1>2 DEF BlanksTo, OneAtom

(* A tag with a name: where the name is cut it is a mark. *)
LEMMA NameIsCut ==
  ASSUME NEW p, RestOfName(p.rest), p.rest # <<>> => p.name \in Marks,
         NEW a, Whole(a), NEW s, s = a \o p.rest, NEW l, l = Len(s)
  PROVE  /\ l \in Nat /\ l >= Len(a) /\ \A j \in 1..Len(a) : s[j] = a[j]
         /\ p.name \in Marks \/ l = Len(a)
<1>1. Whole(a \o p.rest) /\ Begun(a \o p.rest, a, p.rest)
  BY WithRest
<1>2. Whole(s) /\ Begun(s, a, p.rest)
  BY <1>1
<1>3. Len(a) \in Nat /\ l \in Nat /\ Len(p.rest) \in Nat /\ l = Len(a) + Len(p.rest)
  BY <1>2 DEF Whole, Begun
<1> QED
  BY <1>2, <1>3 DEF Begun

(* The symbols of a tag as its kind says. *)
LEMMA TagSymbols ==
  ASSUME IsTemplate, IsSeq(input), NEW m \in DOMAIN pieces, IsTag(m),
         NEW b, NEW e, TagLaid(b, e, Inner(m), Len(Inner(m))),
         NEW first, first = pi_template_get_symbol(b + 2),
         NEW second, second = pi_template_get_symbol(first.end)
  PROVE  /\ pieces[m].kind = "if" => first.name = <<"If">> /\ second.name = <<pieces[m].name>>
         /\ pieces[m].kind = "show" => first.name = <<"=">> /\ second.name = <<pieces[m].name>>
         /\ pieces[m].kind = "else" => first.name = <<"Else">>
         /\ pieces[m].kind = "endif" => first.name = <<"EndIf">>
         /\ pieces[m].kind = "bare" => first.name = <<pieces[m].name>>
<1>1. PICK s : s = Inner(m)
  OBVIOUS
<1>2. PICK l : l = Len(s)
  OBVIOUS
<1>3. /\ l \in Nat \ {0} /\ b \in Nat \ {0} /\ b + l + 3 \in 1..Len(input) /\ Len(input) \in Nat
      /\ \A j \in 1..l : input[b + 1 + j] = s[j]
      /\ input[b + l + 2] = "%"
  BY <1>1, <1>2, CharIs DEF TagLaid
<1>4. PICK p :
        /\ p = pieces[m]
        /\ p.kind \in WithName =>
             p.name \notin Syntax /\ RestOfName(p.rest) /\ (p.rest # <<>> => p.name \in Marks)
  BY DEF IsTemplate, RestOfName
<1>5. PICK c \in Nat \ {0} : c = b + 2
  BY <1>3
<1>6. /\ input[c] = s[1] /\ c < Len(input)
      /\ l = 1 => input[c + 1] = "%"
      /\ l >= 2 => input[c + 1] = s[2] /\ c + 1 < Len(input)
      /\ l = 2 => input[c + 2] = "%"
      /\ l >= 3 => input[c + 2] = s[3] /\ c + 2 < Len(input)
      /\ l = 3 => input[c + 3] = "%"
  <2>1. /\ 1 \in 1..l /\ c = b + 1 + 1 /\ c < Len(input)
        /\ l = 1 => c + 1 = b + l + 2
        /\ l >= 2 => 2 \in 1..l /\ c + 1 = b + 1 + 2 /\ c + 1 < Len(input)
        /\ l = 2 => c + 2 = b + l + 2
        /\ l >= 3 => 3 \in 1..l /\ c + 2 = b + 1 + 3 /\ c + 2 < Len(input)
        /\ l = 3 => c + 3 = b + l + 2
    BY <1>3, <1>5
  <2> QED
    BY <1>3, <2>1
<1>7. CASE p.kind = "if"
  <2>1. PICK a : a = <<"If", Blank, p.name>> /\ s = a \o p.rest
    BY <1>1, <1>4, <1>7 DEF Inner
  <2>2. /\ l >= 3 /\ s[1] = "If" /\ s[2] = Blank /\ s[3] = p.name
        /\ p.name \in Marks \/ l = 3
    <3>1. p.name # "%" /\ RestOfName(p.rest) /\ (p.rest # <<>> => p.name \in Marks)
      BY <1>4, <1>7 DEF WithName, Syntax
    <3>2. Len(a) = 3 /\ a[1] = "If" /\ a[2] = Blank /\ a[3] = p.name
      BY <2>1
    <3>3. IsSeq(a) /\ \A j \in 1..3 : a[j] # "%"
      BY <2>1, <3>1, <3>2, BlankIs, TupleIsSeq
    <3>4. Whole(a)
      BY <3>2, <3>3 DEF Whole
    <3> QED
      BY <1>2, <2>1, <3>1, <3>2, <3>4, NameIsCut
  <2>3. /\ input[c] = "If" /\ input[c + 1] = Blank /\ input[c + 2] = p.name
        /\ p.name \in Punctuation \/ input[c + 3] = "%"
        /\ c + 1 < Len(input) /\ c + 2 < Len(input)
    BY <1>3, <1>6, <2>2 DEF Punctuation
  <2>4. first.name = <<"If">> /\ first.end = c + 1
    BY <1>5, <1>6, <2>3, AtomAlone, BlankIs, PlainSymbol
  <2>5. p.name # Blank
    BY <1>4, <1>7 DEF WithName, Syntax
  <2>6. pi_template_skip_white(c + 1) = c + 2
    <3>1. PICK i \in Nat \ {0} : i = c + 1
      OBVIOUS
    <3>2. PICK d \in i..(Len(input) + 1) : d = c + 2
      BY <1>3, <2>3, <3>1
    <3>3. \A q \in i..(d - 1) : q = i
      BY <1>5, <3>1, <3>2
    <3>4. input[i] = Blank /\ input[d] # Blank
      BY <2>3, <2>5, <3>1, <3>2
    <3>5. BlanksTo(i, d)
      BY <3>3, <3>4 DEF BlanksTo
    <3>6. pi_template_skip_white(i) = d
      BY <3>5, SkipIs
    <3> QED
      BY <3>1, <3>2, <3>6
  <2>7. second.name = <<p.name>>
    <3>1. PICK d \in Nat \ {0} : d = c + 2
      OBVIOUS
    <3>2. input[d] = p.name /\ (p.name \in Punctuation \/ input[d + 1] = "%")
      <4>1. d + 1 = c + 3
        BY <3>1
      <4> QED
        BY <2>3, <3>1, <4>1
    <3>3. SkipsTo(c + 1, d) /\ d < Len(input) /\ OneAtom(d)
      BY <2>3, <2>6, <3>1, <3>2 DEF SkipsTo, OneAtom
    <3>4. pi_template_get_symbol(c + 1).name = <<p.name>>
      BY <3>2, <3>3, SymbolRead
    <3> QED
      BY <2>4, <3>4
  <2> QED
    BY <1>4, <1>7, <2>4, <2>7
<1>8. CASE p.kind = "show"
  <2>1. PICK a : a = <<"=", p.name>> /\ s = a \o p.rest
    BY <1>1, <1>4, <1>8 DEF Inner
  <2>2. /\ l >= 2 /\ s[1] = "=" /\ s[2] = p.name
        /\ p.name \in Marks \/ l = 2
    <3>1. p.name # "%" /\ RestOfName(p.rest) /\ (p.rest # <<>> => p.name \in Marks)
      BY <1>4, <1>8 DEF WithName, Syntax
    <3>2. Len(a) = 2 /\ a[1] = "=" /\ a[2] = p.name
      BY <2>1
    <3>3. IsSeq(a) /\ \A j \in 1..2 : a[j] # "%"
      BY <2>1, <3>1, <3>2, TupleIsSeq
    <3>4. Whole(a)
      BY <3>2, <3>3 DEF Whole
    <3> QED
      BY <1>2, <2>1, <3>1, <3>2, <3>4, NameIsCut
  <2>3. /\ input[c] = "=" /\ input[c + 1] = p.name /\ c + 1 < Len(input)
        /\ p.name \in Punctuation \/ input[c + 2] = "%"
    BY <1>3, <1>6, <2>2 DEF Punctuation
  <2>4. first.name = <<"=">> /\ first.end = c + 1
    BY <1>5, <1>6, <2>3, AtomAlone, BlankIs, PlainSymbol DEF Punctuation, Syntax
  <2>5. p.name # Blank
    BY <1>4, <1>8 DEF WithName, Syntax
  <2>6. second.name = <<p.name>>
    <3>1. PICK d \in Nat \ {0} : d = c + 1
      OBVIOUS
    <3>2. input[d] = p.name /\ (p.name \in Punctuation \/ input[d + 1] = "%")
      <4>1. d + 1 = c + 2
        BY <3>1
      <4> QED
        BY <2>3, <3>1, <4>1
    <3>3. pi_template_get_symbol(d).name = <<p.name>>
      BY <2>3, <2>5, <3>1, <3>2, AtomAlone, BlankIs, PlainSymbol
    <3> QED
      BY <2>4, <3>1, <3>3
  <2> QED
    BY <1>4, <1>8, <2>4, <2>6
<1>9. CASE p.kind = "else"
  <2>1. s = <<"Else">>
    BY <1>1, <1>4, <1>9 DEF Inner
  <2>2. l = 1 /\ s[1] = "Else"
    BY <1>2, <2>1
  <2>3. input[c] = "Else" /\ input[c + 1] = "%"
    BY <1>6, <2>2
  <2>4. first.name = <<"Else">>
    BY <1>5, <1>6, <2>3, AtomAlone, BlankIs, PlainSymbol
  <2> QED
    BY <1>4, <1>9, <2>4
<1>10. CASE p.kind = "endif"
  <2>1. s = <<"EndIf">>
    BY <1>1, <1>4, <1>10 DEF Inner
  <2>2. l = 1 /\ s[1] = "EndIf"
    BY <1>2, <2>1
  <2>3. input[c] = "EndIf" /\ input[c + 1] = "%"
    BY <1>6, <2>2
  <2>4. first.name = <<"EndIf">>
    BY <1>5, <1>6, <2>3, AtomAlone, BlankIs, PlainSymbol
  <2> QED
    BY <1>4, <1>10, <2>4
<1>11. CASE p.kind = "bare"
  <2>1. PICK a : a = <<p.name>> /\ s = a \o p.rest
    BY <1>1, <1>4, <1>11 DEF Inner
  <2>2. s[1] = p.name /\ (p.name \in Marks \/ l = 1)
    <3>1. p.name # "%" /\ RestOfName(p.rest) /\ (p.rest # <<>> => p.name \in Marks)
      BY <1>4, <1>11 DEF WithName, Syntax
    <3>2. Len(a) = 1 /\ a[1] = p.name
      BY <2>1
    <3>3. IsSeq(a) /\ \A j \in 1..1 : a[j] # "%"
      BY <2>1, <3>1, <3>2, TupleIsSeq
    <3>4. Whole(a)
      BY <3>2, <3>3 DEF Whole
    <3> QED
      BY <1>2, <2>1, <3>1, <3>2, <3>4, NameIsCut
  <2>3. input[c] = p.name /\ (p.name \in Punctuation \/ input[c + 1] = "%")
    BY <1>6, <2>2 DEF Punctuation
  <2>4. p.name # Blank
    BY <1>4, <1>11 DEF WithName, Syntax
  <2>5. first.name = <<p.name>>
    BY <1>5, <1>6, <2>3, <2>4, AtomAlone, BlankIs, PlainSymbol
  <2> QED
    BY <1>4, <1>11, <2>5
<1> QED
  BY <1>4, <1>7, <1>8, <1>9, <1>10, <1>11 DEF IsTag

(* What a template renders to. *)

Parts(shown) == [i \in DOMAIN pieces |-> IF i \in shown THEN Meaning(i) ELSE <<>>]

LEMMA EmptyIsSeq == IsSeq(<<>>)
<1>1. <<>> \in Seq({})
  OBVIOUS
<1> QED
  BY <1>1 DEF IsSeq

LEMMA ValueIsSeq == \A name : IsSeq(ValueOf(name))
<1> SUFFICES ASSUME NEW name PROVE IsSeq(ValueOf(name))
  OBVIOUS
<1>1. CASE <<name>> \in DOMAIN Value
  <2>1. Value[<<name>>] \in Seq(Range(Value[<<name>>]))
    BY <1>1, ValueAssumption
  <2> QED
    BY <1>1, <2>1 DEF ValueOf, IsSeq
<1>2. CASE <<name>> \notin DOMAIN Value
  BY <1>2, EmptyIsSeq DEF ValueOf
<1> QED
  BY <1>1, <1>2

(* What each kind of piece stands for. *)
LEMMA MeaningIs ==
  ASSUME IsTemplate, NEW i \in DOMAIN pieces
  PROVE  /\ pieces[i].kind = "text" => Meaning(i) = <<Word[i]>>
         /\ pieces[i].kind = "show" =>
              Meaning(i) = IF Works("=") THEN ValueOf(pieces[i].name) ELSE <<>>
         /\ pieces[i].kind = "bare" =>
              Meaning(i) = IF NamedBefore(i, pieces[i].name) THEN ValueOf(pieces[i].name) ELSE <<>>
         /\ pieces[i].kind \in {"if", "else", "endif", "scrap"} => Meaning(i) = <<>>
         /\ IsSeq(Meaning(i))
<1>1. PICK p : p = pieces[i] /\ p.kind \in {"text", "if", "else", "endif", "show", "bare", "scrap"}
  BY DEF IsTemplate
<1>2. CASE p.kind = "text"
  <2>1. Meaning(i) = <<Word[i]>>
    BY <1>1, <1>2 DEF Meaning, Atoms
  <2> QED
    BY <1>1, <1>2, <2>1, TupleIsSeq
<1>3. CASE p.kind = "show"
  <2>1. Meaning(i) = IF Works("=") THEN ValueOf(p.name) ELSE <<>>
    BY <1>1, <1>3 DEF Meaning
  <2> QED
    BY <1>1, <1>3, <2>1, ValueIsSeq, EmptyIsSeq
<1>4. CASE p.kind = "bare"
  <2>1. Meaning(i) = IF NamedBefore(i, p.name) THEN ValueOf(p.name) ELSE <<>>
    BY <1>1, <1>4 DEF Meaning
  <2>2. IsSeq(Meaning(i))
    BY <2>1, ValueIsSeq, EmptyIsSeq
  <2> QED
    BY <1>1, <1>4, <2>1, <2>2
<1>5. CASE p.kind \in {"if", "else", "endif", "scrap"}
  <2>1. Meaning(i) = <<>>
    BY <1>1, <1>5 DEF Meaning
  <2> QED
    BY <1>1, <1>5, <2>1, EmptyIsSeq
<1> QED
  BY <1>1, <1>2, <1>3, <1>4, <1>5

(* Whichever pieces are shown, their meanings are sequences of one thing. *)
LEMMA PartsAre ==
  ASSUME IsTemplate
  PROVE  \E T : \A shown : Parts(shown) \in Seq(Seq(T))
<1>1. PICK n \in Nat : n = Len(pieces) /\ DOMAIN pieces = 1..n
  BY PiecesAre
<1>2. PICK s : s = [i \in 1..n |-> Meaning(i)]
  OBVIOUS
<1>3. /\ DOMAIN s = 1..n /\ s = [i \in 1..n |-> s[i]]
      /\ \A i \in 1..n : s[i] = Meaning(i) /\ IsSeq(s[i])
  BY <1>1, <1>2, MeaningIs
<1>4. PICK T : s \in Seq(Seq(T))
  BY <1>3, SeqsAreSeqs
<1>5. \A i \in 1..n : Meaning(i) \in Seq(T)
  <2> SUFFICES ASSUME NEW i \in 1..n PROVE Meaning(i) \in Seq(T)
    OBVIOUS
  <2>1. DOMAIN s = 1..Len(s)
    BY <1>4
  <2>2. i \in 1..Len(s)
    BY <1>3, <2>1
  <2>3. s[i] \in Seq(T)
    BY <1>4, <2>2, ElementOfSeq
  <2> QED
    BY <1>3, <2>3
<1>6. <<>> \in Seq(T)
  OBVIOUS
<1>7. ASSUME NEW shown PROVE Parts(shown) \in Seq(Seq(T))
  <2>1. Parts(shown) \in [1..n -> Seq(T)]
    BY <1>1, <1>5, <1>6 DEF Parts
  <2> QED
    BY <2>1, SeqDef
<1> QED
  BY <1>7

LEMMA PartsHave ==
  ASSUME IsTemplate, NEW T, NEW shown, Parts(shown) \in Seq(Seq(T))
  PROVE  /\ Len(Parts(shown)) = Len(pieces)
         /\ \A i \in DOMAIN pieces :
              Parts(shown)[i] = IF i \in shown THEN Meaning(i) ELSE <<>>
<1>1. PICK n \in Nat : n = Len(pieces) /\ DOMAIN pieces = 1..n
  BY PiecesAre
<1>2. PICK s \in Seq(Seq(T)) : s = Parts(shown)
  OBVIOUS
<1>3. s = [i \in 1..n |-> IF i \in shown THEN Meaning(i) ELSE <<>>]
  BY <1>1, <1>2 DEF Parts
<1>4. DOMAIN s = 1..n
  BY <1>3
<1>5. Len(s) = n
  BY <1>4, LenProperties
<1> QED
  BY <1>1, <1>2, <1>3, <1>5

(* With nothing shown, nothing is output. *)
LEMMA RenderedIs ==
  ASSUME IsTemplate
  PROVE  Rendered({}) = <<>> /\ \A shown : IsSeq(Rendered(shown))
<1>1. PICK T : \A shown : Parts(shown) \in Seq(Seq(T))
  BY PartsAre
<1>2. \A shown : Rendered(shown) = FlattenSeq(Parts(shown))
  BY DEF Rendered, Parts
<1>3. ASSUME NEW shown PROVE IsSeq(Rendered(shown))
  <2>1. FlattenSeq(Parts(shown)) \in Seq(T)
    BY <1>1, FlattenIs
  <2> QED
    BY <1>2, <2>1 DEF IsSeq
<1>4. Rendered({}) = <<>>
  <2>1. PICK s \in Seq(Seq(T)) : s = Parts({})
    BY <1>1
  <2>2. \A k \in 1..Len(s) : s[k] = <<>>
    BY <1>1, <2>1, PartsHave, PiecesAre
  <2>3. FlattenSeq(s) = <<>>
    BY <2>2, FlattenNone
  <2> QED
    BY <1>2, <2>1, <2>3
<1> QED
  BY <1>3, <1>4

(* One piece more is shown. *)
LEMMA RenderMore ==
  ASSUME IsTemplate, NEW m \in DOMAIN pieces, NEW shown \in SUBSET (1..(m - 1))
  PROVE  Rendered(shown \cup {m}) = Rendered(shown) \o Meaning(m)
<1>1. PICK T : \A some : Parts(some) \in Seq(Seq(T))
  BY PartsAre
<1>2. PICK more : more = shown \cup {m}
  OBVIOUS
<1>3. PICK s \in Seq(Seq(T)) : s = Parts(shown)
  BY <1>1
<1>4. PICK t \in Seq(Seq(T)) : t = Parts(more)
  BY <1>1
<1>5. PICK n \in Nat : n = Len(pieces) /\ DOMAIN pieces = 1..n /\ m \in 1..n
  BY PiecesAre
<1>6. Len(s) = n /\ \A i \in 1..n : s[i] = IF i \in shown THEN Meaning(i) ELSE <<>>
  BY <1>1, <1>3, <1>5, PartsHave
<1>7. Len(t) = n /\ \A i \in 1..n : t[i] = IF i \in more THEN Meaning(i) ELSE <<>>
  BY <1>1, <1>4, <1>5, PartsHave
<1>8. \A i \in 1..n : i >= m => i \notin shown
  BY <1>5
<1>9. \A i \in 1..n : i # m => (i \in more <=> i \in shown)
  BY <1>2
<1>10. (\A i \in 1..Len(s) : i >= m => s[i] = <<>>) /\ m \in 1..Len(s) /\ Len(t) = Len(s)
  BY <1>5, <1>6, <1>7, <1>8
<1>11. \A i \in 1..Len(s) : i # m => t[i] = s[i]
  BY <1>6, <1>7, <1>9
<1>12. t[m] = Meaning(m)
  BY <1>2, <1>5, <1>7
<1>13. FlattenSeq(t) = FlattenSeq(s) \o t[m]
  BY <1>10, <1>11, FlattenMore
<1>14. Rendered(shown) = FlattenSeq(s) /\ Rendered(more) = FlattenSeq(t)
  BY <1>3, <1>4 DEF Rendered, Parts
<1> QED
  BY <1>2, <1>12, <1>13, <1>14

(* A piece without a meaning more is shown. *)
LEMMA RenderNothingMore ==
  ASSUME IsTemplate, NEW m \in DOMAIN pieces, NEW shown \in SUBSET (1..(m - 1)), Meaning(m) = <<>>
  PROVE  Rendered(shown \cup {m}) = Rendered(shown)
<1>1. PICK S : Rendered(shown) \in Seq(S)
  BY RenderedIs DEF IsSeq
<1>2. Rendered(shown) \o <<>> = Rendered(shown)
  BY <1>1, ConcatEmptySeq
<1> QED
  BY <1>2, RenderMore

(* A whole run of text more is shown. *)
LEMMA RenderTexts ==
  ASSUME IsTemplate, IsSeq(input), NEW at, Laid(at),
         NEW k \in 1..(Len(pieces) + 1), NEW m \in k..(Len(pieces) + 1), Texts(k, m),
         NEW shown \in SUBSET (1..(k - 1))
  PROVE  Rendered(shown \cup k..(m - 1)) = Rendered(shown) \o SubSeq(input, at[k], at[m] - 1)
<1>1. PICK n \in Nat : n = Len(pieces) /\ DOMAIN pieces = 1..n
  BY PiecesAre
<1>2. PICK b \in Nat \ {0} : b = at[k]
  BY DEF Laid
<1>3. PICK S0 : input \in Seq(S0)
  BY DEF IsSeq
<1>4. PICK S1 : Rendered(shown) \in Seq(S1)
  BY RenderedIs DEF IsSeq
<1>5. PICK T : T = S0 \cup S1
  OBVIOUS
<1>6. input \in Seq(T)
  BY <1>3, <1>5, SeqMonotonic
<1>7. PICK r \in Seq(T) : r = Rendered(shown)
  BY <1>4, <1>5, SeqMonotonic
<1>8. PICK c \in Nat : c = m - k
  BY <1>1
<1>9. PICK e \in Nat : e = Len(input) /\ at[m] = b + c /\ at[m] <= e + 1
  <2>1. m \in k..m /\ m \in 1..(Len(pieces) + 1)
    BY <1>1
  <2>2. at[m] = at[k] + (m - k)
    BY <2>1, TextsLaid
  <2>3. at[m] \in 1..(Len(input) + 1) /\ Len(input) \in Nat
    BY <2>1, PlacesIn, CharIs
  <2> QED
    BY <1>2, <1>8, <2>2, <2>3
<1> DEFINE S == {d \in 0..c : Rendered(shown \cup k..(k + d - 1)) = r \o SubSeq(input, b, b + d - 1)}
<1>10. 0 \in S
  <2>1. k..(k + 0 - 1) = {}
    BY <1>1
  <2>2. shown \cup k..(k + 0 - 1) = shown
    BY <2>1
  <2>3. b + 0 - 1 < b /\ b \in Int /\ b + 0 - 1 \in Int
    OBVIOUS
  <2>4. SubSeq(input, b, b + 0 - 1) = <<>>
    BY <1>6, <2>3, SubSeqEmpty
  <2>5. r \o <<>> = r
    BY ConcatEmptySeq
  <2>6. Rendered(shown \cup k..(k + 0 - 1)) = r \o SubSeq(input, b, b + 0 - 1)
    BY <1>7, <2>2, <2>4, <2>5
  <2>7. 0 \in 0..c
    OBVIOUS
  <2> QED
    BY <2>6, <2>7
<1>11. ASSUME NEW d \in 1..c, d - 1 \in S PROVE d \in S
  <2>1. PICK j \in k..(m - 1) : j = k + d - 1
    BY <1>1, <1>8
  <2>2. j \in k..m /\ j - k = d - 1 /\ j \in Nat
    BY <1>1, <2>1
  <2>3. j \in DOMAIN pieces /\ Atoms(j) = <<Word[j]>> /\ input[at[j]] = Word[j]
    BY TextsLaid
  <2>4. at[j] = b + d - 1
    <3>1. at[j] = at[k] + (j - k)
      BY <2>2, TextsLaid
    <3> QED
      BY <1>2, <2>2, <3>1
  <2>5. Meaning(j) = <<Word[j]>>
    <3>1. pieces[j].kind = "text"
      BY DEF Texts
    <3> QED
      BY <2>3, <3>1, MeaningIs
  <2>6. PICK some \in SUBSET (1..(j - 1)) : some = shown \cup k..(k + (d - 1) - 1)
    <3>1. k..(k + (d - 1) - 1) \subseteq 1..(j - 1)
      BY <1>1, <2>1
    <3>2. 1..(k - 1) \subseteq 1..(j - 1)
      BY <1>1, <2>1
    <3> QED
      BY <3>1, <3>2
  <2>7. some \cup {j} = shown \cup k..(k + d - 1)
    <3>1. k..(k + d - 1) = k..(k + (d - 1) - 1) \cup {j}
      BY <1>1, <2>1
    <3> QED
      BY <2>6, <3>1
  <2>8. Rendered(some \cup {j}) = Rendered(some) \o <<Word[j]>>
    BY <2>3, <2>5, RenderMore
  <2>9. PICK h \in Nat : h = b + d - 1
    OBVIOUS
  <2>10. h \in 1..e /\ input[h] = Word[j] /\ b + (d - 1) - 1 = h - 1 /\ h - 1 + 1 = h
    BY <1>8, <1>9, <2>3, <2>4, <2>9
  <2>11. Rendered(some) = r \o SubSeq(input, b, h - 1)
    BY <1>11, <2>6, <2>10
  <2>12. PICK u \in Seq(T) : u = SubSeq(input, b, h - 1)
    <3>1. b \in Int /\ h - 1 \in Int
      OBVIOUS
    <3>2. \A i \in b..(h - 1) : i \in 1..Len(input)
      BY <1>9, <2>10
    <3>3. \A i \in b..(h - 1) : input[i] \in T
      BY <1>6, <3>2, ElementOfSeq
    <3> QED
      BY <3>1, <3>3, SubSeqProperties
  <2>13. SubSeq(input, b, h) = u \o <<Word[j]>>
    <3>1. b \in 1..Len(input) /\ h \in b..Len(input)
      BY <1>9, <2>9, <2>10
    <3>2. SubSeq(input, b, h) = Append(SubSeq(input, b, h - 1), input[h])
      BY <1>6, <3>1, SubSeqRecursiveSecond
    <3>3. input[h] \in T
      BY <1>6, <1>9, <2>10, ElementOfSeq
    <3>4. Append(u, input[h]) = u \o <<input[h]>>
      BY <3>3, AppendIsConcat
    <3> QED
      BY <2>10, <2>12, <3>2, <3>4
  <2>14. (r \o u) \o <<Word[j]>> = r \o (u \o <<Word[j]>>)
    <3>1. Word[j] \in T
      BY <1>6, <1>9, <2>10, ElementOfSeq
    <3>2. <<Word[j]>> \in Seq(T)
      BY <3>1
    <3> QED
      BY <3>2, ConcatAssociative
  <2>15. Rendered(shown \cup k..(k + d - 1)) = r \o SubSeq(input, b, b + d - 1)
    BY <2>7, <2>8, <2>9, <2>11, <2>12, <2>13, <2>14
  <2>16. d \in 0..c
    OBVIOUS
  <2> QED
    BY <2>15, <2>16
<1> HIDE DEF S
<1>12. \A d \in 0..c : d \in S
  BY <1>10, <1>11, UpFromZero
<1>13. Rendered(shown \cup k..(k + c - 1)) = r \o SubSeq(input, b, b + c - 1)
  <2>1. c \in S
    BY <1>12
  <2> QED
    BY <2>1 DEF S
<1>14. k + c - 1 = m - 1 /\ b + c - 1 = at[m] - 1
  BY <1>1, <1>8, <1>9
<1> QED
  BY <1>2, <1>7, <1>13, <1>14

-----------------------------------------------------------------------------
(* Which conditions a piece stands under. *)

LEMMA LeastOfTwo ==
  ASSUME NEW a \in Nat, NEW b \in Nat
  PROVE  Min({a, b}) \in {a, b} /\ Min({a, b}) <= a /\ Min({a, b}) <= b
<1> DEFINE S == {a, b}
<1>1. S \in SUBSET Nat /\ S # {}
  OBVIOUS
<1>2. \E k \in S : \A x \in S : k <= x
  BY <1>1, LeastOf
<1>3. Min(S) \in S /\ \A x \in S : Min(S) <= x
  BY <1>2 DEF Min
<1> QED
  BY <1>3

(* A set of places that is not empty has a last one. *)
LEMMA LastOf ==
  ASSUME NEW n \in Nat, NEW S \in SUBSET (1..n), S # {}
  PROVE  Max(S) \in S /\ \A x \in S : x <= Max(S)
<1> DEFINE T == {d \in 0..n : (\A x \in S : x > d) \/ \E y \in S : y <= d /\ \A x \in S : x <= d => x <= y}
<1>1. 0 \in T
  OBVIOUS
<1>2. ASSUME NEW d \in 1..n, d - 1 \in T PROVE d \in T
  <2>1. CASE d \in S
    BY <2>1
  <2>2. CASE d \notin S
    <3>1. \A x \in S : (x > d - 1 => x > d) /\ (x <= d => x <= d - 1)
      BY <2>2
    <3>2. CASE \A x \in S : x > d - 1
      BY <3>1, <3>2
    <3>3. CASE \E y \in S : y <= d - 1 /\ \A x \in S : x <= d - 1 => x <= y
      BY <3>1, <3>3
    <3> QED
      BY <1>2, <3>2, <3>3
  <2> QED
    BY <2>1, <2>2
<1> HIDE DEF T
<1>3. n \in T
  BY <1>1, <1>2, UpFromZero
<1>4. \E y \in S : \A x \in S : y >= x
  <2>1. (\A x \in S : x > n) \/ \E y \in S : y <= n /\ \A x \in S : x <= n => x <= y
    BY <1>3 DEF T
  <2>2. \A x \in S : x \in Nat /\ x <= n
    OBVIOUS
  <2>3. ~ (\A x \in S : x > n)
    <3>1. \E x : x \in S
      BY Zenon
    <3>2. PICK x : x \in S
      BY <3>1
    <3>3. ~ (x > n)
      BY <2>2, <3>2
    <3> QED
      BY <3>2, <3>3
  <2>4. PICK y \in S : \A x \in S : x <= n => x <= y
    BY <2>1, <2>3
  <2>5. \A x \in S : y >= x
    BY <2>2, <2>4
  <2> QED
    BY <2>5
<1>5. Max(S) \in S /\ \A x \in S : Max(S) >= x
  BY <1>4 DEF Max
<1> QED
  BY <1>5

(* The conditions opened before piece i, and the endings. *)
Opened(i) == {j \in 1..(i - 1) : Opens(j)}

Ended(i) == {j \in 1..(i - 1) : Closes(j)}

(* Both are finite, so the level is a number. *)
LEMMA LevelIs ==
  ASSUME NEW i \in Nat \ {0}
  PROVE  /\ IsFiniteSet(Opened(i)) /\ IsFiniteSet(Ended(i))
         /\ Level(i) = Cardinality(Opened(i)) - Cardinality(Ended(i))
         /\ Cardinality(Opened(i)) \in Nat /\ Cardinality(Ended(i)) \in Nat
         /\ Level(i) \in Int
<1>1. IsFiniteSet(1..(i - 1))
  BY FS_Interval
<1>2. Opened(i) \in SUBSET (1..(i - 1)) /\ Ended(i) \in SUBSET (1..(i - 1))
  BY DEF Opened, Ended
<1>3. IsFiniteSet(Opened(i)) /\ IsFiniteSet(Ended(i))
  BY <1>1, <1>2, FS_Subset
<1>4. Cardinality(Opened(i)) \in Nat /\ Cardinality(Ended(i)) \in Nat
  BY <1>3, FS_CardinalityType
<1>5. Level(i) = Cardinality(Opened(i)) - Cardinality(Ended(i))
  BY DEF Level, Opened, Ended
<1> QED
  BY <1>3, <1>4, <1>5

LEMMA LevelAtFirst == Level(1) = 0
<1>1. Opened(1) = {} /\ Ended(1) = {}
  <2>1. 1..(1 - 1) = {}
    OBVIOUS
  <2> QED
    BY <2>1 DEF Opened, Ended
<1>2. Cardinality(Opened(1)) = 0 /\ Cardinality(Ended(1)) = 0
  BY <1>1, FS_EmptySet
<1>3. Level(1) = Cardinality(Opened(1)) - Cardinality(Ended(1))
  BY LevelIs
<1> QED
  BY <1>2, <1>3

(* An If the application knows opens a level, and an EndIf closes one. *)
LEMMA LevelNext ==
  ASSUME IsTemplate, NEW i \in DOMAIN pieces
  PROVE  /\ Opens(i) => Level(i + 1) = Level(i) + 1
         /\ Closes(i) => Level(i + 1) = Level(i) - 1
         /\ ~ Opens(i) /\ ~ Closes(i) => Level(i + 1) = Level(i)
<1>1. i \in Nat \ {0} /\ i + 1 \in Nat \ {0} /\ i + 1 - 1 = i /\ 1..i = 1..(i - 1) \cup {i} /\ i \notin 1..(i - 1)
  BY PiecesAre
<1>2. Opened(i + 1) = IF Opens(i) THEN Opened(i) \cup {i} ELSE Opened(i)
  BY <1>1 DEF Opened
<1>3. Ended(i + 1) = IF Closes(i) THEN Ended(i) \cup {i} ELSE Ended(i)
  BY <1>1 DEF Ended
<1>4. i \notin Opened(i) /\ i \notin Ended(i)
  BY <1>1 DEF Opened, Ended
<1>5. /\ IsFiniteSet(Opened(i)) /\ IsFiniteSet(Ended(i))
      /\ Level(i) = Cardinality(Opened(i)) - Cardinality(Ended(i))
      /\ Cardinality(Opened(i)) \in Nat /\ Cardinality(Ended(i)) \in Nat
      /\ Level(i + 1) = Cardinality(Opened(i + 1)) - Cardinality(Ended(i + 1))
  BY <1>1, LevelIs
<1>6. /\ Cardinality(Opened(i) \cup {i}) = Cardinality(Opened(i)) + 1
      /\ Cardinality(Ended(i) \cup {i}) = Cardinality(Ended(i)) + 1
  BY <1>4, <1>5, FS_AddElement
<1>7. Opens(i) => ~ Closes(i)
  BY DEF Opens, Closes
<1>8. /\ Cardinality(Opened(i + 1)) = Cardinality(Opened(i)) + (IF Opens(i) THEN 1 ELSE 0)
      /\ Cardinality(Ended(i + 1)) = Cardinality(Ended(i)) + (IF Closes(i) THEN 1 ELSE 0)
  BY <1>2, <1>3, <1>5, <1>6
<1> QED
  BY <1>5, <1>7, <1>8

(* The conditions opened at a level before piece i, and the Elses since the   *)
(* last.                                                                       *)
Openers(i, level) == {j \in 1..(i - 1) : Opens(j) /\ Level(j) + 1 = level}

Turned(i, level) ==
    {j \in DOMAIN pieces :
        Turns(j) /\ Max(Openers(i, level)) < j /\ j < i /\ Level(j) = level}

Holds(j) == Truth[<<pieces[j].name>>]

(* BranchTaken in these words. *)
LEMMA BranchIs ==
  ASSUME NEW i, NEW level
  PROVE  BranchTaken(i, level) =
           IF Cardinality(Turned(i, level)) % 2 = 0 THEN Holds(Max(Openers(i, level)))
           ELSE ~ Holds(Max(Openers(i, level)))
  BY DEF BranchTaken, Turned, Openers, Holds

LEMMA TurnedFinite ==
  ASSUME IsTemplate, NEW i \in Nat, NEW level
  PROVE  IsFiniteSet(Turned(i, level)) /\ Cardinality(Turned(i, level)) \in Nat
<1>1. IsFiniteSet(1..(i - 1))
  BY FS_Interval
<1>2. Turned(i, level) \in SUBSET (1..(i - 1))
  BY PiecesAre DEF Turned
<1> QED
  BY <1>1, <1>2, FS_Subset, FS_CardinalityType

(* A piece that neither opens a condition nor turns one round at this level. *)
LEMMA BranchStays ==
  ASSUME IsTemplate, NEW i \in DOMAIN pieces, NEW level,
         ~ (Opens(i) /\ Level(i) + 1 = level),
         ~ (Turns(i) /\ Level(i) = level)
  PROVE  /\ Openers(i + 1, level) = Openers(i, level)
         /\ BranchTaken(i + 1, level) = BranchTaken(i, level)
<1>1. i \in Nat \ {0} /\ i + 1 - 1 = i /\ 1..i = 1..(i - 1) \cup {i}
  BY PiecesAre
<1>2. Openers(i + 1, level) = Openers(i, level)
  BY <1>1 DEF Openers
<1>3. Turned(i + 1, level) = Turned(i, level)
  <2>1. \A j \in DOMAIN pieces : j \in Nat /\ (j < i + 1 <=> j < i \/ j = i)
    BY <1>1, PiecesAre
  <2>2. ASSUME NEW j \in DOMAIN pieces, Turns(j), Level(j) = level PROVE j # i
    BY <2>2
  <2> QED
    BY <1>2, <2>1, <2>2 DEF Turned
<1> QED
  BY <1>2, <1>3, BranchIs

(* Many of them in a row. *)
Quiet(i) == ~ Opens(i) /\ ~ Turns(i) /\ ~ Closes(i)

LEMMA QuietRun ==
  ASSUME IsTemplate, NEW k \in Nat \ {0}, NEW i \in Nat, k <= i, \A j \in k..(i - 1) : Quiet(j)
  PROVE  /\ Level(i) = Level(k)
         /\ \A level : /\ Openers(i, level) = Openers(k, level)
                       /\ BranchTaken(i, level) = BranchTaken(k, level)
<1>1. 1..(i - 1) = 1..(k - 1) \cup k..(i - 1)
  OBVIOUS
<1>2. Opened(i) = Opened(k)
  BY <1>1 DEF Opened, Quiet
<1>3. Ended(i) = Ended(k)
  BY <1>1 DEF Ended, Quiet
<1>4. Level(i) = Level(k)
  <2>1. i \in Nat \ {0}
    OBVIOUS
  <2> QED
    BY <1>2, <1>3, <2>1, LevelIs
<1>5. ASSUME NEW level
      PROVE  /\ Openers(i, level) = Openers(k, level)
             /\ BranchTaken(i, level) = BranchTaken(k, level)
  <2>1. Openers(i, level) = Openers(k, level)
    BY <1>1 DEF Openers, Quiet
  <2>2. Turned(i, level) = Turned(k, level)
    <3>1. ASSUME NEW j \in DOMAIN pieces, Turns(j) PROVE j < i <=> j < k
      <4>1. j \in Nat /\ j \notin k..(i - 1)
        BY <3>1, PiecesAre DEF Quiet
      <4> QED
        BY <4>1
    <3> QED
      BY <2>1, <3>1 DEF Turned
  <2> QED
    BY <2>1, <2>2, BranchIs
<1> QED
  BY <1>4, <1>5

(* The piece opens the condition of this level. *)
LEMMA BranchOpens ==
  ASSUME IsTemplate, NEW i \in DOMAIN pieces, Opens(i), NEW level, Level(i) + 1 = level
  PROVE  /\ Openers(i + 1, level) # {}
         /\ BranchTaken(i + 1, level) = Holds(i)
<1>1. i \in Nat \ {0} /\ i + 1 - 1 = i /\ i \in 1..i
  BY PiecesAre
<1>2. i \in Openers(i + 1, level) /\ \A j \in Openers(i + 1, level) : j \in Nat /\ j <= i
  BY <1>1 DEF Openers
<1>3. Max(Openers(i + 1, level)) = i
  <2>1. PICK S : S = Openers(i + 1, level)
    OBVIOUS
  <2>2. \A x \in S : (\A y \in S : x >= y) => x = i
    BY <1>1, <1>2, <2>1
  <2>3. i \in S /\ \A y \in S : i >= y
    BY <1>1, <1>2, <2>1
  <2> QED
    BY <2>1, <2>2, <2>3 DEF Max
<1>4. Turned(i + 1, level) = {}
  <2>1. \A j \in DOMAIN pieces : j \in Nat
    BY PiecesAre
  <2> QED
    BY <1>1, <1>3, <2>1 DEF Turned
<1>5. Cardinality(Turned(i + 1, level)) = 0
  BY <1>4, FS_EmptySet
<1> QED
  BY <1>2, <1>3, <1>5, BranchIs

(* The piece is the Else of this level. *)
LEMMA BranchTurns ==
  ASSUME IsTemplate, NEW i \in DOMAIN pieces, NEW level, Turns(i), Level(i) = level,
         Openers(i, level) # {}
  PROVE  /\ Openers(i + 1, level) = Openers(i, level)
         /\ BranchTaken(i + 1, level) <=> ~ BranchTaken(i, level)
<1>1. i \in Nat \ {0} /\ i + 1 - 1 = i /\ 1..i = 1..(i - 1) \cup {i} /\ i - 1 \in Nat
  BY PiecesAre
<1>2. ~ Opens(i)
  BY DEF Opens, Turns
<1>3. Openers(i + 1, level) = Openers(i, level)
  BY <1>1, <1>2 DEF Openers
<1>4. PICK max : max = Max(Openers(i, level)) /\ max = Max(Openers(i + 1, level)) /\ max \in 1..(i - 1)
  <2>1. Openers(i, level) \in SUBSET (1..(i - 1))
    BY DEF Openers
  <2>2. Max(Openers(i, level)) \in Openers(i, level)
    BY <1>1, <2>1, LastOf
  <2> QED
    BY <1>3, <2>1, <2>2
<1>5. Turned(i + 1, level) = Turned(i, level) \cup {i} /\ i \notin Turned(i, level)
  <2>1. \A j \in DOMAIN pieces : j \in Nat /\ (j < i + 1 <=> j < i \/ j = i)
    BY <1>1, PiecesAre
  <2>2. i \in DOMAIN pieces /\ Turns(i) /\ max < i
    BY <1>1, <1>4
  <2>3. Turned(i + 1, level) = {j \in DOMAIN pieces : Turns(j) /\ max < j /\ j < i + 1 /\ Level(j) = level}
    BY <1>4 DEF Turned
  <2>4. Turned(i, level) = {j \in DOMAIN pieces : Turns(j) /\ max < j /\ j < i /\ Level(j) = level}
    BY <1>4 DEF Turned
  <2> QED
    BY <1>1, <2>1, <2>2, <2>3, <2>4
<1>6. PICK c \in Nat : c = Cardinality(Turned(i, level)) /\ c + 1 = Cardinality(Turned(i + 1, level))
  <2>1. IsFiniteSet(Turned(i, level)) /\ Cardinality(Turned(i, level)) \in Nat
    BY <1>1, TurnedFinite
  <2> QED
    BY <1>5, <2>1, FS_AddElement
<1>7. c % 2 = 0 <=> ~ ((c + 1) % 2 = 0)
  OBVIOUS
<1>8. BranchTaken(i, level) = IF c % 2 = 0 THEN Holds(max) ELSE ~ Holds(max)
  BY <1>4, <1>6, BranchIs
<1>9. BranchTaken(i + 1, level) = IF (c + 1) % 2 = 0 THEN Holds(max) ELSE ~ Holds(max)
  BY <1>4, <1>6, BranchIs
<1> QED
  BY <1>3, <1>7, <1>8, <1>9, Zenon

(* The stack of conditions holds what piece k stands under. *)
StackSays(s, k) ==
    /\ s.top = Level(k)
    /\ \A level \in 1..s.top : Openers(k, level) # {}
    /\ \A level \in 1..s.top : level <= Depth => (s.stack[level - 1] <=> BranchTaken(k, level))

LEMMA NoConditionYet ==
  ASSUME NEW s, s.top = 0
  PROVE  StackSays(s, 1)
<1>1. 1..0 = {}
  OBVIOUS
<1> QED
  BY <1>1, LevelAtFirst DEF StackSays

(* What pi_template_if_set may say of a piece. *)
LEMMA IfSetSays ==
  ASSUME NEW s \in Stacks, NEW k, StackSays(s, k), NEW b \in pi_template_if_set(s)
  PROVE  /\ b \in BOOLEAN
         /\ b => Visible(k)
         /\ ~ b => ~ Visible(k) \/ Level(k) > Depth
<1>1. s.top \in Nat /\ s.stack \in [0..(Depth - 1) -> BOOLEAN] /\ Depth \in Nat
  BY DepthAssumption DEF Stacks
<1>2. PICK least \in Nat : least = Min({s.top, Depth}) /\ least <= s.top /\ least <= Depth
                           /\ (s.top <= Depth => least = s.top)
  BY <1>1, LeastOfTwo
<1>3. Visible(k) <=> \A level \in 1..least : BranchTaken(k, level)
  BY <1>2 DEF Visible, StackSays
<1>4. \A level \in 1..least : s.stack[level - 1] <=> BranchTaken(k, level)
  BY <1>1, <1>2 DEF StackSays
<1>5. Visible(k) <=> \A i \in 0..(least - 1) : s.stack[i]
  <2>1. ASSUME Visible(k), NEW i \in 0..(least - 1) PROVE s.stack[i]
    <3>1. PICK level \in 1..least : level = i + 1 /\ level - 1 = i
      BY <1>2
    <3>2. BranchTaken(k, level)
      BY <1>3, <2>1
    <3> QED
      BY <1>4, <3>1, <3>2
  <2>2. ASSUME \A i \in 0..(least - 1) : s.stack[i], NEW level \in 1..least PROVE BranchTaken(k, level)
    <3>1. level - 1 \in 0..(least - 1)
      BY <1>2
    <3>2. s.stack[level - 1]
      BY <2>2, <3>1
    <3> QED
      BY <1>4, <3>2
  <2> QED
    BY <1>3, <2>1, <2>2
<1>6. CASE \E i \in 0..(least - 1) : ~ s.stack[i]
  <2>1. pi_template_if_set(s) = {FALSE}
    BY <1>2, <1>6 DEF pi_template_if_set
  <2>2. ~ b
    BY <2>1
  <2> QED
    BY <1>5, <1>6, <2>1, <2>2
<1>7. CASE ~ (\E i \in 0..(least - 1) : ~ s.stack[i])
  <2>1. Visible(k)
    BY <1>5, <1>7
  <2>2. CASE s.top > Depth
    <3>1. pi_template_if_set(s) = BOOLEAN
      BY <1>2, <1>7, <2>2 DEF pi_template_if_set
    <3>2. Level(k) > Depth
      BY <2>2 DEF StackSays
    <3> QED
      BY <2>1, <3>1, <3>2
  <2>3. CASE ~ (s.top > Depth)
    <3>1. pi_template_if_set(s) = {TRUE}
      BY <1>2, <1>7, <2>3 DEF pi_template_if_set
    <3> QED
      BY <2>1, <3>1
  <2> QED
    BY <2>2, <2>3
<1> QED
  BY <1>6, <1>7

(* Texts, and tags that are no operators, leave the stack as it is. *)
LEMMA StackStays ==
  ASSUME IsTemplate, NEW s, NEW k \in Nat \ {0}, NEW i \in Nat, k <= i, \A j \in k..(i - 1) : Quiet(j),
         StackSays(s, k)
  PROVE  StackSays(s, i)
<1>1. Level(i) = Level(k)
  BY QuietRun
<1>2. \A level : Openers(i, level) = Openers(k, level) /\ BranchTaken(i, level) = BranchTaken(k, level)
  BY QuietRun
<1> QED
  BY <1>1, <1>2 DEF StackSays

(* A push for an If. *)
LEMMA StackPushed ==
  ASSUME IsTemplate, NEW s \in Stacks, NEW i \in DOMAIN pieces, StackSays(s, i), Opens(i),
         NEW value \in BOOLEAN, value = Holds(i)
  PROVE  StackSays(pi_template_push_if(s, value), i + 1)
<1>1. s.top \in Nat /\ s.stack \in [0..(Depth - 1) -> BOOLEAN] /\ Depth \in Nat
  BY DepthAssumption DEF Stacks
<1>2. PICK t : t = pi_template_push_if(s, value)
  OBVIOUS
<1>3. t.top = s.top + 1 /\ t.stack = IF s.top < Depth THEN [s.stack EXCEPT ![s.top] = value] ELSE s.stack
  BY <1>2 DEF pi_template_push_if
<1>4. Level(i) = s.top
  BY DEF StackSays
<1>5. t.top = Level(i + 1)
  BY <1>3, <1>4, LevelNext
<1>6. ASSUME NEW level \in 1..t.top
      PROVE  /\ Openers(i + 1, level) # {}
             /\ level <= Depth => (t.stack[level - 1] <=> BranchTaken(i + 1, level))
  <2>1. CASE level = s.top + 1
    <3>1. Openers(i + 1, level) # {} /\ BranchTaken(i + 1, level) = Holds(i)
      BY <1>4, <2>1, BranchOpens
    <3>2. ASSUME level <= Depth PROVE t.stack[level - 1] = value
      <4>1. level - 1 = s.top /\ s.top < Depth /\ s.top \in 0..(Depth - 1)
        BY <1>1, <2>1, <3>2
      <4> QED
        BY <1>1, <1>3, <4>1
    <3> QED
      BY <3>1, <3>2
  <2>2. CASE level # s.top + 1
    <3>1. level \in 1..s.top /\ Level(i) + 1 # level /\ ~ Turns(i)
      BY <1>1, <1>3, <1>4, <2>2 DEF Opens, Turns
    <3>2. Openers(i + 1, level) = Openers(i, level) /\ BranchTaken(i + 1, level) = BranchTaken(i, level)
      BY <3>1, BranchStays
    <3>3. /\ Openers(i, level) # {}
          /\ level <= Depth => (s.stack[level - 1] <=> BranchTaken(i, level))
      BY <3>1 DEF StackSays
    <3>4. level <= Depth => t.stack[level - 1] = s.stack[level - 1]
      <4>1. level <= Depth => level - 1 \in 0..(Depth - 1) /\ level - 1 # s.top
        BY <1>1, <3>1
      <4> QED
        BY <1>1, <1>3, <4>1
    <3> QED
      BY <3>2, <3>3, <3>4
  <2> QED
    BY <2>1, <2>2
<1>7. StackSays(t, i + 1)
  BY <1>5, <1>6 DEF StackSays
<1> QED
  BY <1>2, <1>7

(* An Else turns the condition on top, if it lies above the end of the array. *)
LEMMA StackTurned ==
  ASSUME IsTemplate, WellNested, NEW s \in Stacks, NEW i \in DOMAIN pieces, StackSays(s, i),
         Turns(i)
  PROVE  StackSays(pi_template_push_else(s), i + 1)
<1>1. s.top \in Nat /\ s.stack \in [0..(Depth - 1) -> BOOLEAN] /\ Depth \in Nat
  BY DepthAssumption DEF Stacks
<1>2. PICK t : t = pi_template_push_else(s)
  OBVIOUS
<1>3. Level(i) = s.top /\ s.top # Depth
  BY DEF WellNested, StackSays
<1>4. ~ Opens(i) /\ ~ Closes(i)
  BY DEF Opens, Turns, Closes
<1>5. Level(i + 1) = s.top
  BY <1>3, <1>4, LevelNext
<1>6. t.top = s.top
  BY <1>2, StackIs
<1>7. \A j \in 0..(Depth - 1) :
        t.stack[j] <=> IF s.top < Depth /\ j = s.top - 1 THEN ~ s.stack[j] ELSE s.stack[j]
  <2>1. CASE 0 < s.top /\ s.top < Depth
    <3>1. PICK h \in 0..(Depth - 1) : h = s.top - 1
      BY <1>1, <2>1
    <3>2. t = [s EXCEPT !.stack = [s.stack EXCEPT ![h] = ~ s.stack[h]]]
      BY <1>1, <1>2, <2>1, <3>1 DEF pi_template_push_else, Stacks
    <3>3. t.stack = [s.stack EXCEPT ![h] = ~ s.stack[h]]
      BY <3>2 DEF Stacks
    <3>4. \A j \in 0..(Depth - 1) : t.stack[j] = IF j = h THEN ~ s.stack[j] ELSE s.stack[j]
      BY <1>1, <3>3
    <3> QED
      BY <2>1, <3>1, <3>4
  <2>2. CASE ~ (0 < s.top /\ s.top < Depth)
    <3>1. t = s
      BY <1>2, <2>2 DEF pi_template_push_else
    <3>2. \A j \in 0..(Depth - 1) : ~ (s.top < Depth /\ j = s.top - 1)
      BY <1>1, <2>2
    <3> QED
      BY <3>1, <3>2
  <2> QED
    BY <2>1, <2>2
<1>8. ASSUME NEW level \in 1..t.top
      PROVE  /\ Openers(i + 1, level) # {}
             /\ level <= Depth => (t.stack[level - 1] <=> BranchTaken(i + 1, level))
  <2>1. /\ Openers(i, level) # {}
        /\ level <= Depth => (s.stack[level - 1] <=> BranchTaken(i, level))
    BY <1>6 DEF StackSays
  <2>2. level <= Depth => level - 1 \in 0..(Depth - 1)
    BY <1>1, <1>6
  <2>3. CASE level = s.top
    <3>1. Openers(i + 1, level) = Openers(i, level) /\ (BranchTaken(i + 1, level) <=> ~ BranchTaken(i, level))
      BY <1>3, <2>1, <2>3, BranchTurns
    <3>2. level <= Depth => s.top < Depth /\ level - 1 = s.top - 1
      BY <1>1, <1>3, <2>3
    <3>3. level <= Depth => (t.stack[level - 1] <=> ~ s.stack[level - 1])
      BY <1>7, <2>2, <3>2
    <3> QED
      BY <2>1, <3>1, <3>3
  <2>4. CASE level # s.top
    <3>1. Openers(i + 1, level) = Openers(i, level) /\ BranchTaken(i + 1, level) = BranchTaken(i, level)
      BY <1>3, <1>4, <2>4, BranchStays
    <3>2. level - 1 # s.top - 1
      BY <1>1, <1>6, <2>4
    <3>3. level <= Depth => (t.stack[level - 1] <=> s.stack[level - 1])
      BY <1>7, <2>2, <3>2
    <3> QED
      BY <2>1, <3>1, <3>3
  <2> QED
    BY <2>3, <2>4
<1>9. StackSays(t, i + 1)
  BY <1>5, <1>6, <1>8 DEF StackSays
<1> QED
  BY <1>2, <1>9

(* An EndIf takes the condition on top away. *)
LEMMA StackPopped ==
  ASSUME IsTemplate, WellNested, NEW s \in Stacks, NEW i \in DOMAIN pieces, StackSays(s, i),
         Closes(i)
  PROVE  StackSays(pi_template_pop_if(s), i + 1)
<1>1. s.top \in Nat
  BY DEF Stacks
<1>2. PICK t : t = pi_template_pop_if(s)
  OBVIOUS
<1>3. Level(i) = s.top /\ s.top > 0
  BY DEF WellNested, StackSays
<1>4. t.top = s.top - 1 /\ t.stack = s.stack
  BY <1>2, <1>3 DEF pi_template_pop_if, Stacks
<1>5. t.top = Level(i + 1)
  BY <1>3, <1>4, LevelNext
<1>6. ASSUME NEW level \in 1..t.top
      PROVE  /\ Openers(i + 1, level) # {}
             /\ level <= Depth => (t.stack[level - 1] <=> BranchTaken(i + 1, level))
  <2>1. level \in 1..s.top /\ ~ Opens(i) /\ ~ Turns(i)
    BY <1>1, <1>4 DEF Opens, Turns, Closes
  <2>2. Openers(i + 1, level) = Openers(i, level) /\ BranchTaken(i + 1, level) = BranchTaken(i, level)
    BY <2>1, BranchStays
  <2>3. /\ Openers(i, level) # {}
        /\ level <= Depth => (s.stack[level - 1] <=> BranchTaken(i, level))
    BY <2>1 DEF StackSays
  <2> QED
    BY <1>4, <2>2, <2>3
<1>7. StackSays(t, i + 1)
  BY <1>5, <1>6 DEF StackSays
<1> QED
  BY <1>2, <1>7

------------------------------------------------

(* Where no If opens anything, an EndIf finds the stack empty. *)
LEMMA NothingToPop ==
  ASSUME NEW s \in Stacks, NEW k \in Nat \ {0}, StackSays(s, k), ~ Works("If")
  PROVE  pi_template_pop_if(s) = s
<1>1. Opened(k) = {} /\ Ended(k) = {}
  BY DEF Opened, Ended, Opens, Closes
<1>2. Cardinality(Opened(k)) = 0 /\ Cardinality(Ended(k)) = 0
  BY <1>1, FS_EmptySet
<1>3. Level(k) = 0
  BY <1>2, LevelIs
<1> QED
  BY <1>3 DEF StackSays, pi_template_pop_if

-----------------------------
(* What the map knows. *)

Names == {pieces[i].name : i \in {j \in DOMAIN pieces : pieces[j].kind \in WithName}}

(* The piece makes the name one that stands for its value. *)
Uses(i, name) ==
    \/ pieces[i].kind = "show" /\ Works("=") /\ pieces[i].name = name /\ <<name>> \in DOMAIN Value
    \/ Opens(i) /\ pieces[i].name = name

(* An operator there was no room for is no variable either. *)
MissingIn(m) == \A n \in OperatorNames \ operators : intmap_get_value(m, n) = operator_type_invalid

(* The map m knows the names used before piece k, but for those lost. *)
MapSays(m, l, k) ==
    /\ MissingIn(m)
    /\ \A name \in Names :
         /\ intmap_get_value(m, <<name>>) = operator_type_variable => NamedBefore(k, name)
         /\ NamedBefore(k, name) => intmap_get_value(m, <<name>>) = operator_type_variable \/ <<name>> \in l

(* No name of a template is an operator. *)
LEMMA NamesAre ==
  ASSUME IsTemplate, NEW name \in Names
  PROVE  <<name>> \in Known /\ <<name>> \notin OperatorNames
  BY DEF IsTemplate, Names

(* NamedBefore in these words. *)
LEMMA NamedIs ==
  ASSUME NEW k, NEW name
  PROVE  NamedBefore(k, name) <=> \E j \in 1..(k - 1) : Uses(j, name)
  BY DEF NamedBefore, Uses

(* Piece by piece. *)
LEMMA NamedNext ==
  ASSUME IsTemplate, NEW i \in DOMAIN pieces, NEW name
  PROVE  NamedBefore(i + 1, name) <=> NamedBefore(i, name) \/ Uses(i, name)
<1>1. i \in Nat \ {0} /\ 1..(i + 1 - 1) = 1..(i - 1) \cup {i}
  BY PiecesAre
<1> QED
  BY <1>1, NamedIs

(* Text uses no name. *)
LEMMA NamedRun ==
  ASSUME IsTemplate, NEW k \in Nat \ {0}, NEW i \in Nat, k <= i, Texts(k, i), NEW name
  PROVE  NamedBefore(i, name) <=> NamedBefore(k, name)
<1>1. 1..(i - 1) = 1..(k - 1) \cup k..(i - 1)
  OBVIOUS
<1>2. \A j \in k..(i - 1) : ~ Uses(j, name)
  BY DEF Uses, Texts, Opens
<1> QED
  BY <1>1, <1>2, NamedIs

(* What pi_template_generator_create leaves knows no name. *)
LEMMA MapSaysNothingYet ==
  ASSUME IsTemplate, operators \subseteq OperatorNames, NEW l
  PROVE  MapSays(pi_template_generator_create, l, 1)
<1>0. MissingIn(pi_template_generator_create)
  BY CreateIs, FourOperators DEF MissingIn
<1> SUFFICES ASSUME NEW name \in Names
             PROVE  /\ intmap_get_value(pi_template_generator_create, <<name>>) # operator_type_variable
                    /\ ~ NamedBefore(1, name)
  BY <1>0 DEF MapSays
<1>1. intmap_get_value(pi_template_generator_create, <<name>>) = operator_type_invalid
  BY NamesAre, CreateIs
<1>2. 1..(1 - 1) = {}
  OBVIOUS
<1> QED
  BY <1>1, <1>2, NamedIs, OperatorTypes

(* The piece uses no name. *)
LEMMA MapStays ==
  ASSUME IsTemplate, NEW m, NEW l, NEW i \in DOMAIN pieces, MapSays(m, l, i), \A name : ~ Uses(i, name)
  PROVE  MapSays(m, l, i + 1)
  BY NamedNext DEF MapSays

LEMMA MapStaysInText ==
  ASSUME IsTemplate, NEW m, NEW l, NEW k \in Nat \ {0}, NEW i \in Nat, k <= i, Texts(k, i), MapSays(m, l, k)
  PROVE  MapSays(m, l, i)
  BY NamedRun DEF MapSays

(* The piece uses this name, or it was used before. *)
LEMMA MapLearns ==
  ASSUME IsTemplate, NEW m, MapOk(m), NEW l, NEW i \in DOMAIN pieces, MapSays(m, l, i),
         NEW n \in Names, \A name : NamedBefore(i + 1, name) <=> NamedBefore(i, name) \/ name = n,
         NEW room \in BOOLEAN,
         NEW new, new = intmap_put(m, <<n>>, operator_type_variable, room),
         NEW more, more = l \cup (IF room \/ intmap_exists(m, <<n>>) THEN {} ELSE {<<n>>})
  PROVE  MapSays(new, more, i + 1)
<1>1. /\ intmap_get_value(new, <<n>>) =
           (IF intmap_exists(m, <<n>>) \/ room THEN operator_type_variable ELSE 0)
      /\ \A d \in Known : d # <<n>> => intmap_get_value(new, d) = intmap_get_value(m, d)
  <2>1. <<n>> \in Known /\ operator_type_variable \in 1..5
    BY NamesAre, OperatorTypes
  <2> QED
    BY <2>1, PutIs
<1>2. ASSUME NEW name \in Names
      PROVE  /\ intmap_get_value(new, <<name>>) = operator_type_variable => NamedBefore(i + 1, name)
             /\ NamedBefore(i + 1, name) =>
                  intmap_get_value(new, <<name>>) = operator_type_variable \/ <<name>> \in more
  <2>1. CASE name = n
    <3>1. NamedBefore(i + 1, name)
      BY <2>1
    <3>2. intmap_get_value(new, <<name>>) = operator_type_variable \/ <<name>> \in more
      BY <1>1, <2>1
    <3> QED
      BY <3>1, <3>2
  <2>2. CASE name # n
    <3>1. <<name>> # <<n>>
      <4>1. <<name>>[1] = name /\ <<n>>[1] = n
        OBVIOUS
      <4> QED
        BY <2>2, <4>1
    <3>2. <<name>> \in Known
      BY NamesAre
    <3>3. intmap_get_value(new, <<name>>) = intmap_get_value(m, <<name>>)
      BY <1>1, <3>1, <3>2
    <3>4. <<name>> \in l => <<name>> \in more
      OBVIOUS
    <3>5. NamedBefore(i + 1, name) <=> NamedBefore(i, name)
      BY <2>2
    <3> QED
      BY <3>3, <3>4, <3>5 DEF MapSays
  <2> QED
    BY <2>1, <2>2
<1>3. MissingIn(new)
  <2>1. \A d \in OperatorNames : d \in Known /\ d # <<n>>
    BY NamesAre, FourOperators
  <2> QED
    BY <1>1, <2>1 DEF MapSays, MissingIn
<1> QED
  BY <1>2, <1>3 DEF MapSays

-----------------------------------------------------------------------------
(* What a tag does. *)

Nothing(tag) == tag.type = operator_type_invalid /\ tag.said = <<>> /\ tag.learned = {}

TellsValue(tag, n) ==
    /\ Outputs(tag) /\ tag.said = Value[<<n>>] /\ tag.learned = {<<n>>}
    /\ tag.type \notin {operator_type_If, operator_type_Else, operator_type_EndIf}

(* The operator of a tag is what its piece says, if the map says what it should. *)
TagSays(tag, i) ==
    LET p == pieces[i]
        n == <<p.name>>
    IN  /\ p.kind = "if" =>
             IF Opens(i)
             THEN tag.type = operator_type_If /\ tag.said = Holds(i) /\ tag.learned = {n}
             ELSE Nothing(tag)
        /\ p.kind = "else" =>
             IF Turns(i) THEN tag.type = operator_type_Else /\ tag.learned = {} ELSE Nothing(tag)
        /\ p.kind = "endif" =>
             IF Works("EndIf") THEN tag.type = operator_type_EndIf /\ tag.learned = {} ELSE Nothing(tag)
        /\ p.kind = "show" =>
             IF Works("=") /\ n \in DOMAIN Value THEN TellsValue(tag, p.name) ELSE Nothing(tag)
        /\ p.kind = "bare" =>
             IF intmap_get_value(map, n) = operator_type_variable /\ n \in DOMAIN Value
             THEN TellsValue(tag, p.name)
             ELSE Nothing(tag)

(* The first symbols of a tag. *)
Reads(f, s, i) ==
    LET p == pieces[i]
    IN  /\ p.kind = "if" => f = <<"If">> /\ s = <<p.name>>
        /\ p.kind = "show" => f = <<"=">> /\ s = <<p.name>>
        /\ p.kind = "else" => f = <<"Else">>
        /\ p.kind = "endif" => f = <<"EndIf">>
        /\ p.kind = "bare" => f = <<p.name>>

(* A name that is no operator is looked up with the application. *)
LEMMA AskedIs ==
  ASSUME NEW type, NEW name \in Known \ operators, OperatorsIn(map), NEW known
  PROVE  /\ name \in DOMAIN known =>
              /\ Asked(type, name, known).type = type
              /\ Asked(type, name, known).said = known[name]
              /\ Asked(type, name, known).learned = {name}
         /\ name \notin DOMAIN known => Nothing(Asked(type, name, known))
<1>1. NotOperator(name)
  BY DEF OperatorsIn, NotOperator
<1>2. CASE name \in DOMAIN known
  <2>1. Asked(type, name, known) = [type |-> type, said |-> known[name], learned |-> {name}]
    BY <1>1, <1>2 DEF Asked
  <2> QED
    BY <1>2, <2>1
<1>3. CASE name \notin DOMAIN known
  <2>1. Asked(type, name, known) = [type |-> operator_type_invalid, said |-> <<>>, learned |-> {}]
    BY <1>1, <1>3 DEF Asked
  <2> QED
    BY <1>3, <2>1 DEF Nothing
<1> QED
  BY <1>2, <1>3

(* pi_template_lookup_symbol finds what the piece says. *)
LEMMA TagSaysIs ==
  ASSUME IsTemplate, OperatorsIn(map), MissingIn(map), operators \subseteq OperatorNames,
         NEW i \in DOMAIN pieces, IsTag(i),
         NEW f, NEW s, Reads(f, s, i), NEW tag, tag = pi_template_lookup_symbol(f, s)
  PROVE  TagSays(tag, i)
<1>1. PICK p : p = pieces[i]
  OBVIOUS
<1>2. PICK n : n = <<p.name>>
  OBVIOUS
<1>3. p.kind \in WithName => n \in Known \ operators /\ n \notin OperatorNames
  BY <1>1, <1>2 DEF IsTemplate
<1>4. PICK type : type = intmap_get_value(map, f)
  OBVIOUS
<1>10. ASSUME type = operator_type_invalid PROVE Nothing(tag)
  <2>1. /\ type # operator_type_If /\ type # operator_type_output /\ type # operator_type_variable
    BY <1>10, OperatorTypes
  <2>2. tag = [type |-> type, said |-> <<>>, learned |-> {}]
    BY <1>4, <2>1 DEF pi_template_lookup_symbol
  <2>3. tag.type = type /\ tag.said = <<>> /\ tag.learned = {}
    BY <2>2
  <2> QED
    BY <1>10, <2>3 DEF Nothing
<1>11. ASSUME NEW operator, <<operator>> \in OperatorNames, f = <<operator>>, ~ Works(operator)
       PROVE  Nothing(tag)
  <2>1. type = operator_type_invalid
    BY <1>4, <1>11 DEF MissingIn, Works
  <2> QED
    BY <1>10, <2>1
<1>12. /\ <<"If">> \in OperatorNames /\ <<"Else">> \in OperatorNames
       /\ <<"EndIf">> \in OperatorNames /\ <<"=">> \in OperatorNames
  BY DEF OperatorNames
<1>5. CASE p.kind = "if"
  <2>1. f = <<"If">> /\ s = n
    BY <1>1, <1>2, <1>5 DEF Reads
  <2> SUFFICES ASSUME Works("If") PROVE TagSays(tag, i)
    <3>1. ASSUME ~ Works("If") PROVE TagSays(tag, i)
      <4>1. Nothing(tag) /\ ~ Opens(i)
        BY <1>11, <1>12, <2>1, <3>1 DEF Opens
      <4> QED
        BY <1>1, <1>5, <4>1 DEF TagSays
    <3> QED
      BY <3>1
  <2>2. type = operator_type_If
    BY <1>4, <2>1 DEF OperatorsIn, Works
  <2>3. tag = Asked(operator_type_If, n, Truth)
    BY <1>4, <2>1, <2>2, OperatorTypes DEF pi_template_lookup_symbol
  <2>4. n \in Known \ operators
    BY <1>3, <1>5 DEF WithName
  <2>5. /\ n \in DOMAIN Truth => tag.type = operator_type_If /\ tag.said = Truth[n] /\ tag.learned = {n}
        /\ n \notin DOMAIN Truth => Nothing(tag)
    BY <2>3, <2>4, AskedIs
  <2>6. (Opens(i) <=> n \in DOMAIN Truth) /\ Holds(i) = Truth[n]
    BY <1>1, <1>2, <1>5 DEF Opens, Holds
  <2> QED
    BY <1>1, <1>2, <1>5, <2>5, <2>6 DEF TagSays
<1>6. CASE p.kind = "show"
  <2>1. f = <<"=">> /\ s = n
    BY <1>1, <1>2, <1>6 DEF Reads
  <2> SUFFICES ASSUME Works("=") PROVE TagSays(tag, i)
    <3>1. ASSUME ~ Works("=") PROVE TagSays(tag, i)
      <4>1. Nothing(tag)
        BY <1>11, <1>12, <2>1, <3>1
      <4> QED
        BY <1>1, <1>6, <3>1, <4>1 DEF TagSays
    <3> QED
      BY <3>1
  <2>2. type = operator_type_output
    BY <1>4, <2>1 DEF OperatorsIn, Works
  <2>3. tag = Asked(operator_type_output, n, Value)
    BY <1>4, <2>1, <2>2, OperatorTypes DEF pi_template_lookup_symbol
  <2>4. n \in Known \ operators
    BY <1>3, <1>6 DEF WithName
  <2>5. /\ n \in DOMAIN Value => tag.type = operator_type_output /\ tag.said = Value[n] /\ tag.learned = {n}
        /\ n \notin DOMAIN Value => Nothing(tag)
    BY <2>3, <2>4, AskedIs
  <2>6. n \in DOMAIN Value => TellsValue(tag, p.name)
    BY <1>2, <2>5, OperatorTypes DEF TellsValue, Outputs
  <2> QED
    BY <1>1, <1>2, <1>6, <2>5, <2>6 DEF TagSays
<1>7. CASE p.kind = "else"
  <2>0. f = <<"Else">>
    BY <1>1, <1>7 DEF Reads
  <2> SUFFICES ASSUME Works("Else") PROVE TagSays(tag, i)
    <3>1. ASSUME ~ Works("Else") PROVE TagSays(tag, i)
      <4>1. Nothing(tag)
        BY <1>11, <1>12, <2>0, <3>1
      <4> QED
        BY <1>1, <1>7, <3>1, <4>1 DEF TagSays, Turns
    <3> QED
      BY <3>1
  <2>1. type = operator_type_Else
    BY <1>4, <2>0 DEF OperatorsIn, Works
  <2>2. tag = [type |-> operator_type_Else, said |-> <<>>, learned |-> {}]
    BY <1>4, <2>1, OperatorTypes DEF pi_template_lookup_symbol
  <2> QED
    BY <1>1, <1>7, <2>2 DEF TagSays, Turns
<1>8. CASE p.kind = "endif"
  <2>0. f = <<"EndIf">>
    BY <1>1, <1>8 DEF Reads
  <2> SUFFICES ASSUME Works("EndIf") PROVE TagSays(tag, i)
    <3>1. ASSUME ~ Works("EndIf") PROVE TagSays(tag, i)
      <4>1. Nothing(tag)
        BY <1>11, <1>12, <2>0, <3>1
      <4> QED
        BY <1>1, <1>8, <3>1, <4>1 DEF TagSays, Turns
    <3> QED
      BY <3>1
  <2>1. type = operator_type_EndIf
    BY <1>4, <2>0 DEF OperatorsIn, Works
  <2>2. tag = [type |-> operator_type_EndIf, said |-> <<>>, learned |-> {}]
    BY <1>4, <2>1, OperatorTypes DEF pi_template_lookup_symbol
  <2> QED
    BY <1>1, <1>8, <2>2 DEF TagSays
<1>9. CASE p.kind = "bare"
  <2>1. f = n
    BY <1>1, <1>2, <1>9 DEF Reads
  <2>2. n \in Known \ operators
    BY <1>3, <1>9 DEF WithName
  <2>3. type = operator_type_invalid \/ type = operator_type_variable
    BY <1>4, <2>1, <2>2 DEF OperatorsIn
  <2>4. CASE type = operator_type_variable
    <3>1. tag = Asked(operator_type_variable, n, Value)
      BY <1>4, <2>1, <2>4, OperatorTypes DEF pi_template_lookup_symbol
    <3>2. /\ n \in DOMAIN Value => tag.type = operator_type_variable /\ tag.said = Value[n] /\ tag.learned = {n}
          /\ n \notin DOMAIN Value => Nothing(tag)
      BY <2>2, <3>1, AskedIs
    <3>3. n \in DOMAIN Value => TellsValue(tag, p.name)
      BY <1>2, <3>2, OperatorTypes DEF TellsValue, Outputs
    <3> QED
      BY <1>1, <1>2, <1>4, <1>9, <2>1, <2>4, <3>2, <3>3 DEF TagSays
  <2>5. CASE type # operator_type_variable
    <3>4. Nothing(tag)
      BY <1>10, <2>3, <2>5
    <3> QED
      BY <1>1, <1>2, <1>4, <1>9, <2>1, <2>5, <3>4 DEF TagSays
  <2> QED
    BY <2>4, <2>5
<1> QED
  BY <1>1, <1>5, <1>6, <1>7, <1>8, <1>9 DEF IsTag

(* The stack behind a tag. *)
StackAfter(tag, s, new) ==
    new = CASE tag.type = operator_type_If    -> pi_template_push_if(s, tag.said)
            [] tag.type = operator_type_Else  -> pi_template_push_else(s)
            [] tag.type = operator_type_EndIf -> pi_template_pop_if(s)
            [] OTHER                          -> s

(* The stack behind a tag holds what the next piece stands under. *)
LEMMA TagKeepsStack ==
  ASSUME IsTemplate, WellNested, NEW i \in DOMAIN pieces, IsTag(i), NEW tag, TagSays(tag, i),
         NEW s \in Stacks, StackSays(s, i), NEW new, StackAfter(tag, s, new)
  PROVE  StackSays(new, i + 1)
<1>1. i \in Nat \ {0} /\ i <= i + 1 /\ \A j \in i..(i + 1 - 1) : j = i
  BY PiecesAre
<1>2. ASSUME Quiet(i), new = s PROVE StackSays(new, i + 1)
  <2>1. \A j \in i..(i + 1 - 1) : Quiet(j)
    BY <1>1, <1>2
  <2> QED
    BY <1>1, <1>2, <2>1, StackStays
<1>3. tag.type \notin {operator_type_If, operator_type_Else, operator_type_EndIf} => new = s
  BY OperatorTypes DEF StackAfter
<1>4. Nothing(tag) \/ (\E n : TellsValue(tag, n)) => new = s
  <2>1. Nothing(tag) => tag.type \notin {operator_type_If, operator_type_Else, operator_type_EndIf}
    BY OperatorTypes DEF Nothing
  <2>2. ASSUME NEW n, TellsValue(tag, n)
        PROVE  tag.type \notin {operator_type_If, operator_type_Else, operator_type_EndIf}
    BY <2>2 DEF TellsValue
  <2> QED
    BY <1>3, <2>1, <2>2
<1>5. CASE Opens(i)
  <2>1. tag.type = operator_type_If /\ tag.said = Holds(i)
    BY <1>5 DEF TagSays, Opens
  <2>2. new = pi_template_push_if(s, tag.said)
    BY <2>1, OperatorTypes DEF StackAfter
  <2>3. Holds(i) \in BOOLEAN
    BY <1>5, TruthAssumption DEF Opens, Holds
  <2> QED
    BY <1>5, <2>1, <2>2, <2>3, StackPushed
<1>6. CASE pieces[i].kind = "if" /\ ~ Opens(i)
  <2>1. Nothing(tag)
    BY <1>6 DEF TagSays
  <2>2. Quiet(i)
    BY <1>6 DEF Quiet, Turns, Closes
  <2> QED
    BY <1>2, <1>4, <2>1, <2>2
<1>7. CASE pieces[i].kind = "else"
  <2>1. CASE Turns(i)
    <3>1. new = pi_template_push_else(s)
      BY <1>7, <2>1, OperatorTypes DEF TagSays, StackAfter
    <3> QED
      BY <2>1, <3>1, StackTurned
  <2>2. CASE ~ Turns(i)
    <3>1. Nothing(tag) /\ Quiet(i)
      BY <1>7, <2>2 DEF TagSays, Quiet, Opens, Closes
    <3> QED
      BY <1>2, <1>4, <3>1
  <2> QED
    BY <2>1, <2>2
<1>8. CASE pieces[i].kind = "endif"
  <2>1. ASSUME Works("EndIf") PROVE new = pi_template_pop_if(s)
    BY <1>8, <2>1, OperatorTypes DEF TagSays, StackAfter
  <2>2. CASE Closes(i)
    <3>1. new = pi_template_pop_if(s)
      BY <2>1, <2>2 DEF Closes
    <3> QED
      BY <2>2, <3>1, StackPopped
  <2>3. CASE ~ Closes(i)
    <3>1. Quiet(i)
      BY <1>8, <2>3 DEF Quiet, Opens, Turns
    <3>2. CASE Works("EndIf")
      <4>1. ~ Works("If")
        BY <1>8, <2>3, <3>2 DEF Closes
      <4>2. new = s
        BY <1>1, <2>1, <3>2, <4>1, NothingToPop
      <4> QED
        BY <1>2, <3>1, <4>2
    <3>3. CASE ~ Works("EndIf")
      <4>1. Nothing(tag)
        BY <1>8, <3>3 DEF TagSays
      <4> QED
        BY <1>2, <1>4, <3>1, <4>1
    <3> QED
      BY <3>2, <3>3
  <2> QED
    BY <2>2, <2>3
<1>9. CASE pieces[i].kind \in {"show", "bare"}
  <2>1. Nothing(tag) \/ \E n : TellsValue(tag, n)
    BY <1>9 DEF TagSays
  <2>2. Quiet(i)
    BY <1>9 DEF Quiet, Opens, Turns, Closes
  <2> QED
    BY <1>2, <1>4, <2>1, <2>2
<1> QED
  BY <1>5, <1>6, <1>7, <1>8, <1>9 DEF IsTag

(* The map behind a tag. *)
LearnsTo(learned, room, new, more) ==
    \/ learned = {} /\ new = map /\ more = lost
    \/ \E n \in learned :
         /\ new = intmap_put(map, n, operator_type_variable, room)
         /\ more = lost \cup (IF room \/ intmap_exists(map, n) THEN {} ELSE {n})

(* The map behind a tag knows the names used so far. *)
LEMMA TagKeepsMap ==
  ASSUME IsTemplate, MapOk(map), NEW i \in DOMAIN pieces, IsTag(i), NEW tag, TagSays(tag, i),
         MapSays(map, lost, i), NEW room \in BOOLEAN, NEW new, NEW more, LearnsTo(tag.learned, room, new, more)
  PROVE  MapSays(new, more, i + 1) /\ lost \subseteq more
<1>1. PICK n : n = pieces[i].name
  OBVIOUS
<1>2. ASSUME tag.learned = {}, \A name : ~ Uses(i, name)
      PROVE  MapSays(new, more, i + 1) /\ lost \subseteq more
  <2>1. new = map /\ more = lost
    BY <1>2 DEF LearnsTo
  <2> QED
    BY <1>2, <2>1, MapStays
<1>3. ASSUME tag.learned = {<<n>>}, pieces[i].kind \in WithName,
             NamedBefore(i, n) \/ Uses(i, n), \A name : Uses(i, name) => name = n
      PROVE  MapSays(new, more, i + 1) /\ lost \subseteq more
  <2>1. /\ new = intmap_put(map, <<n>>, operator_type_variable, room)
        /\ more = lost \cup (IF room \/ intmap_exists(map, <<n>>) THEN {} ELSE {<<n>>})
    BY <1>3 DEF LearnsTo
  <2>2. n \in Names
    BY <1>1, <1>3 DEF Names
  <2>3. ASSUME NEW name PROVE NamedBefore(i + 1, name) <=> NamedBefore(i, name) \/ name = n
    BY <1>3, NamedNext
  <2>4. MapSays(new, more, i + 1)
    BY <2>1, <2>2, <2>3, MapLearns
  <2> QED
    BY <2>1, <2>4
<1>4. \A name : Uses(i, name) => name = n
  BY <1>1 DEF Uses
<1>5. CASE pieces[i].kind = "if"
  <2>1. CASE Opens(i)
    <3>1. tag.learned = {<<n>>} /\ Uses(i, n)
      BY <1>1, <1>5, <2>1 DEF TagSays, Uses
    <3> QED
      BY <1>3, <1>4, <1>5, <3>1 DEF WithName
  <2>2. CASE ~ Opens(i)
    <3>1. tag.learned = {} /\ \A name : ~ Uses(i, name)
      BY <1>5, <2>2 DEF TagSays, Nothing, Uses
    <3> QED
      BY <1>2, <3>1
  <2> QED
    BY <2>1, <2>2
<1>6. CASE pieces[i].kind = "show"
  <2>1. CASE Works("=") /\ <<n>> \in DOMAIN Value
    <3>1. tag.learned = {<<n>>} /\ Uses(i, n)
      BY <1>1, <1>6, <2>1 DEF TagSays, TellsValue, Uses
    <3> QED
      BY <1>3, <1>4, <1>6, <3>1 DEF WithName
  <2>2. CASE ~ (Works("=") /\ <<n>> \in DOMAIN Value)
    <3>1. tag.learned = {}
      BY <1>1, <1>6, <2>2 DEF TagSays, Nothing
    <3>2. \A name : ~ Uses(i, name)
      BY <1>1, <1>6, <2>2 DEF Uses, Opens
    <3> QED
      BY <1>2, <3>1, <3>2
  <2> QED
    BY <2>1, <2>2
<1>7. CASE pieces[i].kind \in {"else", "endif"}
  <2>1. tag.learned = {} /\ \A name : ~ Uses(i, name)
    BY <1>7 DEF TagSays, Nothing, Uses, Opens
  <2> QED
    BY <1>2, <2>1
<1>8. CASE pieces[i].kind = "bare"
  <2>1. \A name : ~ Uses(i, name)
    BY <1>8 DEF Uses, Opens
  <2>2. CASE intmap_get_value(map, <<n>>) = operator_type_variable /\ <<n>> \in DOMAIN Value
    <3>1. tag.learned = {<<n>>}
      BY <1>1, <1>8, <2>2 DEF TagSays, TellsValue
    <3>2. n \in Names
      BY <1>1, <1>8 DEF Names, WithName
    <3>3. NamedBefore(i, n)
      BY <2>2, <3>2 DEF MapSays
    <3> QED
      BY <1>3, <1>4, <1>8, <3>1, <3>3 DEF WithName
  <2>3. CASE ~ (intmap_get_value(map, <<n>>) = operator_type_variable /\ <<n>> \in DOMAIN Value)
    <3>1. tag.learned = {}
      BY <1>1, <1>8, <2>3 DEF TagSays, Nothing
    <3> QED
      BY <1>2, <2>1, <3>1
  <2> QED
    BY <2>2, <2>3
<1> QED
  BY <1>5, <1>6, <1>7, <1>8 DEF IsTag

(* What is shown of a tag: its meaning, or nothing where it need not be. *)
NeedNot(i, l) ==
    \/ Level(i) > Depth
    \/ pieces[i].kind = "bare" /\ <<pieces[i].name>> \in l

LEMMA TagShows ==
  ASSUME IsTemplate, NEW i \in DOMAIN pieces, IsTag(i), NEW tag, TagSays(tag, i), MapSays(map, lost, i),
         NEW shown \in BOOLEAN, shown => Visible(i), ~ shown => ~ Visible(i) \/ Level(i) > Depth
  PROVE  \E part \in BOOLEAN :
           /\ TextShown(shown /\ Outputs(tag), tag.said) = IF part THEN Meaning(i) ELSE <<>>
           /\ part => Visible(i)
           /\ Visible(i) /\ ~ NeedNot(i, lost) => part
<1>1. PICK n : n = pieces[i].name
  OBVIOUS
<1>2. Visible(i) /\ ~ NeedNot(i, lost) => shown
  BY DEF NeedNot
<1>3. PICK text : text = TextShown(shown /\ Outputs(tag), tag.said)
  OBVIOUS
<1>4. /\ Nothing(tag) => text = <<>>
      /\ TellsValue(tag, n) => text = IF shown THEN Value[<<n>>] ELSE <<>>
  BY <1>3, OperatorTypes DEF TextShown, Nothing, TellsValue, Outputs
<1>5. ASSUME text = IF shown THEN Meaning(i) ELSE <<>>
      PROVE  \E part \in BOOLEAN :
               /\ text = IF part THEN Meaning(i) ELSE <<>>
               /\ part => Visible(i)
               /\ Visible(i) /\ ~ NeedNot(i, lost) => part
  BY <1>2, <1>5
<1>6. CASE pieces[i].kind \in {"if", "else", "endif"}
  <2>1. Meaning(i) = <<>>
    BY <1>6, MeaningIs
  <2>2. ~ Outputs(tag)
    BY <1>6, OperatorTypes DEF TagSays, Nothing, Outputs
  <2>3. text = <<>>
    BY <1>3, <2>2 DEF TextShown
  <2> QED
    BY <1>3, <1>5, <2>1, <2>3
<1>7. CASE pieces[i].kind = "show"
  <2>1. Meaning(i) = IF Works("=") THEN ValueOf(n) ELSE <<>>
    BY <1>1, <1>7, MeaningIs
  <2>2. CASE Works("=") /\ <<n>> \in DOMAIN Value
    <3>1. TellsValue(tag, n) /\ Meaning(i) = Value[<<n>>]
      BY <1>1, <1>7, <2>1, <2>2 DEF TagSays, ValueOf
    <3> QED
      BY <1>3, <1>4, <1>5, <2>1, <3>1
  <2>3. CASE ~ (Works("=") /\ <<n>> \in DOMAIN Value)
    <3>1. Nothing(tag) /\ Meaning(i) = <<>>
      BY <1>1, <1>7, <2>1, <2>3 DEF TagSays, ValueOf
    <3> QED
      BY <1>3, <1>4, <1>5, <2>1, <3>1
  <2> QED
    BY <2>2, <2>3
<1>8. CASE pieces[i].kind = "bare"
  <2>1. Meaning(i) = IF NamedBefore(i, n) THEN ValueOf(n) ELSE <<>>
    BY <1>1, <1>8, MeaningIs
  <2>2. n \in Names
    BY <1>1, <1>8 DEF Names, WithName
  <2>3. CASE intmap_get_value(map, <<n>>) = operator_type_variable /\ <<n>> \in DOMAIN Value
    <3>1. TellsValue(tag, n) /\ ValueOf(n) = Value[<<n>>]
      BY <1>1, <1>8, <2>3 DEF TagSays, ValueOf
    <3>2. NamedBefore(i, n)
      BY <2>2, <2>3 DEF MapSays
    <3> QED
      BY <1>3, <1>4, <1>5, <2>1, <3>1, <3>2
  <2>4. CASE <<n>> \notin DOMAIN Value
    <3>1. Nothing(tag) /\ ValueOf(n) = <<>>
      BY <1>1, <1>8, <2>4 DEF TagSays, ValueOf
    <3> QED
      BY <1>3, <1>4, <1>5, <2>1, <3>1
  <2>5. CASE intmap_get_value(map, <<n>>) # operator_type_variable
    <3>1. Nothing(tag)
      BY <1>1, <1>8, <2>5 DEF TagSays
    <3>2. CASE NamedBefore(i, n)
      <4>1. NeedNot(i, lost)
        BY <1>1, <1>8, <2>2, <2>5, <3>2 DEF MapSays, NeedNot
      <4>2. PICK part \in BOOLEAN : part = FALSE
        OBVIOUS
      <4>3. text = IF part THEN Meaning(i) ELSE <<>>
        BY <1>4, <3>1, <4>2
      <4> QED
        BY <1>3, <4>1, <4>2, <4>3
    <3>3. CASE ~ NamedBefore(i, n)
      BY <1>3, <1>4, <1>5, <2>1, <3>1, <3>3
    <3> QED
      BY <3>2, <3>3
  <2> QED
    BY <2>3, <2>4, <2>5
<1> QED
  BY <1>6, <1>7, <1>8 DEF IsTag

-----------------------------------------------------------------------------
(* What a template means does not change while it is walked. *)

LEMMA SameLevels ==
  ASSUME pieces' = pieces, operators' = operators
  PROVE  /\ \A i : (Opens(i)' <=> Opens(i)) /\ (Turns(i)' <=> Turns(i)) /\ (Closes(i)' <=> Closes(i))
         /\ \A kind : OfKind(kind)' = OfKind(kind)
         /\ \A i : Level(i)' = Level(i)
         /\ (WellNested' <=> WellNested)
         /\ (IsTemplate' <=> IsTemplate)
<1>1. \A i : (Opens(i)' <=> Opens(i)) /\ (Turns(i)' <=> Turns(i)) /\ (Closes(i)' <=> Closes(i))
  BY DEF Opens, Turns, Closes, Works
<1>2. \A kind : OfKind(kind)' = OfKind(kind)
  BY DEF OfKind
<1>3. ASSUME NEW i PROVE Level(i)' = Level(i)
  <2>1. /\ {j \in 1..(i - 1) : Opens(j)}' = {j \in 1..(i - 1) : Opens(j)}
        /\ {j \in 1..(i - 1) : Closes(j)}' = {j \in 1..(i - 1) : Closes(j)}
    BY <1>1
  <2> QED
    BY <2>1 DEF Level
<1>4. WellNested' <=> WellNested
  BY <1>1, <1>2, <1>3 DEF WellNested
<1>5. IsTemplate' <=> IsTemplate
  BY DEF IsTemplate
<1> QED
  BY <1>1, <1>2, <1>3, <1>4, <1>5

LEMMA SameBranches ==
  ASSUME pieces' = pieces, operators' = operators
  PROVE  /\ \A i, level : Openers(i, level)' = Openers(i, level)
         /\ \A i, level : BranchTaken(i, level)' = BranchTaken(i, level)
         /\ \A i : Visible(i)' <=> Visible(i)
<1>1. ASSUME NEW i, NEW level PROVE Openers(i, level)' = Openers(i, level)
  BY SameLevels DEF Openers
<1>2. ASSUME NEW i, NEW level PROVE Turned(i, level)' = Turned(i, level)
  BY <1>1, SameLevels DEF Turned
<1>3. ASSUME NEW i, NEW level PROVE BranchTaken(i, level)' = BranchTaken(i, level)
  <2>1. PICK max : max = Max(Openers(i, level))
    OBVIOUS
  <2>2. max = Max(Openers(i, level))'
    BY <1>1, <2>1
  <2>3. Holds(max)' = Holds(max)
    BY DEF Holds
  <2>4. PICK parity : parity = Cardinality(Turned(i, level)) % 2
    OBVIOUS
  <2>5. parity = Cardinality(Turned(i, level))' % 2
    BY <1>2, <2>4
  <2>6. BranchTaken(i, level) = IF parity = 0 THEN Holds(max) ELSE ~ Holds(max)
    BY <2>1, <2>4, BranchIs
  <2>7. BranchTaken(i, level)' = IF parity = 0 THEN Holds(max)' ELSE ~ Holds(max)'
    BY <2>2, <2>5 DEF BranchTaken, Openers, Turned, Holds
  <2> QED
    BY <2>3, <2>6, <2>7
<1>4. ASSUME NEW i PROVE Visible(i)' <=> Visible(i)
  BY <1>3, SameLevels DEF Visible
<1> QED
  BY <1>1, <1>3, <1>4

LEMMA SameMeanings ==
  ASSUME pieces' = pieces, operators' = operators
  PROVE  /\ Names' = Names
         /\ \A i, name : NamedBefore(i, name)' <=> NamedBefore(i, name)
         /\ \A i : Atoms(i)' = Atoms(i)
         /\ \A i : Meaning(i)' = Meaning(i)
         /\ \A shown : Rendered(shown)' = Rendered(shown)
<1>1. Names' = Names
  BY DEF Names
<1>2. ASSUME NEW i, NEW name PROVE NamedBefore(i, name)' <=> NamedBefore(i, name)
  BY SameLevels DEF NamedBefore, Works
<1>3. ASSUME NEW i PROVE Atoms(i)' = Atoms(i)
  BY DEF Atoms
<1>4. ASSUME NEW i PROVE Meaning(i)' = Meaning(i)
  BY <1>2, <1>3 DEF Meaning, Works
<1>5. ASSUME NEW shown PROVE Rendered(shown)' = Rendered(shown)
  BY <1>4 DEF Rendered
<1> QED
  BY <1>1, <1>2, <1>3, <1>4, <1>5

LEMMA SameLayout ==
  ASSUME pieces' = pieces, operators' = operators, input' = input
  PROVE  \A at : Laid(at)' <=> Laid(at)
  BY SameMeanings DEF Laid

-----------------------------------------------------------------------------
(* What is shown up to a piece. *)

Shows(o, l, k, shown) ==
    /\ shown \subseteq 1..(k - 1)
    /\ o = Rendered(shown)
    /\ \A i \in shown : Visible(i)
    /\ \A i \in 1..(k - 1) : Visible(i) /\ ~ NeedNot(i, l) => i \in shown

(* Before the first piece nothing is shown. *)
LEMMA ShowsNothingYet ==
  ASSUME IsTemplate, NEW l
  PROVE  Shows(<<>>, l, 1, {})
<1>1. 1..(1 - 1) = {}
  OBVIOUS
<1>2. Rendered({}) = <<>>
  BY RenderedIs
<1> QED
  BY <1>1, <1>2 DEF Shows

(* The more names are lost, the less need be shown. *)
LEMMA ShowsStill ==
  ASSUME NEW o, NEW l, NEW more, l \subseteq more, NEW k, NEW shown, Shows(o, l, k, shown)
  PROVE  Shows(o, more, k, shown)
<1>1. \A i : NeedNot(i, l) => NeedNot(i, more)
  BY DEF NeedNot
<1> QED
  BY <1>1 DEF Shows

(* A run of text is shown as pi_template_if_set says. *)
LEMMA ShowsText ==
  ASSUME IsTemplate, IsSeq(input), NEW at, Laid(at),
         NEW k \in 1..(Len(pieces) + 1), NEW m \in k..(Len(pieces) + 1), Texts(k, m),
         NEW o, NEW l, NEW shown, Shows(o, l, k, shown),
         NEW b \in BOOLEAN, b => Visible(k), ~ b => ~ Visible(k) \/ Level(k) > Depth
  PROVE  \E more : Shows(o \o TextShown(b, SubSeq(input, at[k], at[m] - 1)), l, m, more)
<1>1. PICK n \in Nat : n = Len(pieces) /\ DOMAIN pieces = 1..n
  BY PiecesAre
<1>2. k \in Nat \ {0} /\ m \in Nat /\ k <= m /\ 1..(m - 1) = 1..(k - 1) \cup k..(m - 1)
  BY <1>1
<1>3. ASSUME NEW i \in k..(m - 1)
      PROVE  Level(i) = Level(k) /\ (Visible(i) <=> Visible(k))
  <2>1. i \in Nat /\ k <= i
    BY <1>2
  <2>2. \A j \in k..(i - 1) : Quiet(j)
    <3>1. \A j \in k..(i - 1) : j \in k..(m - 1)
      BY <1>2
    <3> QED
      BY <3>1 DEF Texts, Quiet, Opens, Turns, Closes
  <2>3. Level(i) = Level(k) /\ \A level : BranchTaken(i, level) = BranchTaken(k, level)
    BY <1>2, <2>1, <2>2, QuietRun
  <2> QED
    BY <2>3 DEF Visible
<1>4. shown \in SUBSET (1..(k - 1)) /\ o = Rendered(shown)
  BY DEF Shows
<1>5. CASE b
  <2>1. PICK more : more = shown \cup k..(m - 1)
    OBVIOUS
  <2>2. Rendered(more) = o \o SubSeq(input, at[k], at[m] - 1)
    BY <1>4, <2>1, RenderTexts
  <2>3. TextShown(b, SubSeq(input, at[k], at[m] - 1)) = SubSeq(input, at[k], at[m] - 1)
    BY <1>5 DEF TextShown
  <2>4. more \subseteq 1..(m - 1)
    BY <1>2, <1>4, <2>1
  <2>5. \A i \in more : Visible(i)
    BY <1>3, <1>5, <2>1 DEF Shows
  <2>6. \A i \in 1..(m - 1) : Visible(i) /\ ~ NeedNot(i, l) => i \in more
    BY <1>2, <2>1 DEF Shows
  <2> QED
    BY <2>2, <2>3, <2>4, <2>5, <2>6 DEF Shows
<1>6. CASE ~ b
  <2>1. PICK S : o \in Seq(S)
    BY <1>4, RenderedIs DEF IsSeq
  <2>2. o \o <<>> = o
    BY <2>1, ConcatEmptySeq
  <2>3. TextShown(b, SubSeq(input, at[k], at[m] - 1)) = <<>>
    BY <1>6 DEF TextShown
  <2>4. shown \subseteq 1..(m - 1)
    BY <1>2, <1>4
  <2>5. \A i \in k..(m - 1) : ~ Visible(i) \/ NeedNot(i, l)
    BY <1>3, <1>6 DEF NeedNot
  <2>6. \A i \in 1..(m - 1) : Visible(i) /\ ~ NeedNot(i, l) => i \in shown
    BY <1>2, <2>5 DEF Shows
  <2>7. Shows(o, l, m, shown)
    BY <2>4, <2>6 DEF Shows
  <2> QED
    BY <2>2, <2>3, <2>7
<1> QED
  BY <1>5, <1>6

(* And so is a tag. *)
LEMMA ShowsTag ==
  ASSUME IsTemplate, NEW i \in DOMAIN pieces, NEW o, NEW l, NEW shown, Shows(o, l, i, shown),
         NEW part \in BOOLEAN, part => Visible(i), Visible(i) /\ ~ NeedNot(i, l) => part
  PROVE  \E more : Shows(o \o (IF part THEN Meaning(i) ELSE <<>>), l, i + 1, more)
<1>1. PICK h : h = i + 1
  OBVIOUS
<1>2. i \in Nat \ {0} /\ 1..(h - 1) = 1..(i - 1) \cup {i}
  BY <1>1, PiecesAre
<1>3. shown \in SUBSET (1..(i - 1)) /\ o = Rendered(shown)
  BY DEF Shows
<1>4. CASE part
  <2>1. PICK more : more = shown \cup {i}
    OBVIOUS
  <2>2. Rendered(more) = o \o Meaning(i)
    BY <1>3, <2>1, RenderMore
  <2>3. /\ more \subseteq 1..(h - 1) /\ \A j \in more : Visible(j)
        /\ \A j \in 1..(h - 1) : Visible(j) /\ ~ NeedNot(j, l) => j \in more
    BY <1>2, <1>3, <1>4, <2>1 DEF Shows
  <2>4. Shows(o \o Meaning(i), l, h, more)
    BY <2>2, <2>3 DEF Shows
  <2> QED
    BY <1>1, <1>4, <2>4
<1>5. CASE ~ part
  <2>1. PICK S : o \in Seq(S)
    BY <1>3, RenderedIs DEF IsSeq
  <2>2. o \o <<>> = o
    BY <2>1, ConcatEmptySeq
  <2>3. /\ shown \subseteq 1..(h - 1)
        /\ \A j \in 1..(h - 1) : Visible(j) /\ ~ NeedNot(j, l) => j \in shown
    BY <1>2, <1>3, <1>5 DEF Shows
  <2>4. Shows(o, l, h, shown)
    BY <1>3, <2>3 DEF Shows
  <2> QED
    BY <1>1, <1>5, <2>2, <2>4
<1> QED
  BY <1>4, <1>5

-----------------------------------------------------------------------------
(* The walk stands before piece k, and has shown what lies before it. *)
Walked(at, k) ==
    /\ ptr = at[k]
    /\ StackSays(ifs, k)
    /\ MapSays(map, lost, k)
    /\ \E shown : Shows(out, lost, k, shown)

(* Before the loop nothing is shown; at every turn the walk stands before a   *)
(* piece, with what the pieces before it mean in its output, its stack and its  *)
(* map; at the end all of them are shown.                                       *)
RenderInv ==
    /\ IsTemplate
    /\ \E at : Laid(at)
    /\ pc = "call" => ptr = 1 /\ ifs.top = 0 /\ out = <<>>
    /\ pc = "scan" => args
    /\ pc = "scan" /\ WellNested => \E at : Laid(at) /\ \E k \in 1..(Len(pieces) + 1) : Walked(at, k)
    /\ pc = "dino_template_no_error" /\ ~ args => out = <<>>
    /\ pc = "dino_template_no_error" /\ args /\ WellNested =>
         \E shown : Shows(out, lost, Len(pieces) + 1, shown)

LEMMA RenderInvInit == Init => RenderInv
<1> SUFFICES ASSUME Init PROVE RenderInv
  OBVIOUS
<1>1. IsTemplate
  BY TemplateIs
<1>2. input = FlattenSeq(AllAtoms)
  BY DEF Init, AllAtoms
<1>3. \E at : Laid(at)
  BY <1>1, <1>2, LaidExists
<1>4. pc = "call" /\ ptr = 1 /\ out = <<>>
  BY DEF Init
<1>5. ifs.top = 0
  BY DEF Init
<1> QED
  BY <1>1, <1>3, <1>4, <1>5 DEF RenderInv

(* What a step needs to show: the template stays as it is. *)
LEMMA SameTemplate ==
  ASSUME RenderInv, pieces' = pieces, operators' = operators, input' = input
  PROVE  IsTemplate' /\ (\E at : Laid(at))' /\ (WellNested' <=> WellNested)
<1>1. PICK at : Laid(at)
  BY DEF RenderInv
<1>2. Laid(at)'
  BY <1>1, SameLayout
<1>3. \E a : Laid(a)'
  BY <1>2
<1> QED
  BY <1>3, SameLevels DEF RenderInv

(* What holds of the next state, said of the variables there. *)
LEMMA SameShows ==
  ASSUME pieces' = pieces, operators' = operators, NEW k, NEW shown, Shows(out', lost', k, shown)
  PROVE  Shows(out, lost, k, shown)'
<1>1. Rendered(shown)' = Rendered(shown) /\ \A i : Visible(i)' <=> Visible(i)
  BY SameMeanings, SameBranches
<1>2. \A i : NeedNot(i, lost)' <=> NeedNot(i, lost')
  BY SameLevels DEF NeedNot
<1> QED
  BY <1>1, <1>2 DEF Shows

LEMMA SameWalked ==
  ASSUME pieces' = pieces, operators' = operators, input' = input, NEW at, NEW k,
         ptr' = at[k], StackSays(ifs', k), MapSays(map', lost', k), NEW shown, Shows(out', lost', k, shown)
  PROVE  Walked(at, k)'
<1>1. StackSays(ifs, k)'
  BY SameLevels, SameBranches DEF StackSays
<1>2. MapSays(map, lost, k)'
  BY SameMeanings DEF MapSays, MissingIn
<1>3. Shows(out, lost, k, shown)'
  BY SameShows
<1>4. \E s : Shows(out, lost, k, s)'
  BY <1>3
<1> QED
  BY <1>1, <1>2, <1>4 DEF Walked

(* A template that is well nested consists of text and tags. *)
LEMMA TextOrTag ==
  ASSUME IsTemplate, WellNested, NEW i \in DOMAIN pieces
  PROVE  pieces[i].kind = "text" \/ IsTag(i)
<1>1. i \notin OfKind("scrap")
  BY DEF WellNested
<1>2. pieces[i].kind # "scrap"
  BY <1>1 DEF OfKind
<1>3. pieces[i].kind \in {"text", "if", "else", "endif", "show", "bare", "scrap"}
  BY DEF IsTemplate
<1> QED
  BY <1>2, <1>3 DEF IsTag

(* Nothing is copied before the loop. *)
LEMMA NoPercentFirst ==
  ASSUME IsTemplate, WellNested, IsSeq(input), NEW at, Laid(at)
  PROVE  ~ StartsWithPercent
<1>1. PICK n \in Nat : n = Len(pieces) /\ DOMAIN pieces = 1..n
  BY PiecesAre
<1>2. at[1] = 1
  BY DEF Laid
<1>3. CASE n = 0
  <2>1. Len(input) = 0
    <3>1. at[n + 1] = Len(input) + 1 /\ n + 1 = 1
      BY <1>1, <1>3 DEF Laid
    <3>2. Len(input) \in Nat
      BY CharIs
    <3> QED
      BY <1>2, <3>1, <3>2
  <2>2. 1 \notin 1..Len(input)
    BY <2>1
  <2>3. Char(1) = NUL
    BY <2>2, CharIs DEF Char
  <2> QED
    BY <2>3 DEF StartsWithPercent, NUL
<1>4. CASE n # 0
  <2>1. 1 \in DOMAIN pieces
    BY <1>1, <1>4
  <2>2. CASE pieces[1].kind = "text"
    <3>1. PICK k \in 1..(Len(pieces) + 1) : k = 1
      BY <1>1
    <3>2. PICK m \in k..(Len(pieces) + 1) : m = 2
      BY <1>1, <2>1, <3>1
    <3>3. \A j \in k..(m - 1) : j = 1
      BY <3>1, <3>2
    <3>4. Texts(k, m) /\ 1 \in k..(m - 1)
      BY <2>2, <3>1, <3>2, <3>3 DEF Texts
    <3>5. input[at[1]] = Word[1]
      BY <3>4, TextsLaid
    <3>6. Word[1] # "%"
      BY <2>1 DEF IsTemplate, Punctuation, Syntax
    <3>7. input[1] # "%"
      BY <1>2, <3>5, <3>6
    <3> QED
      BY <3>7 DEF StartsWithPercent, Char, NUL
  <2>3. CASE IsTag(1)
    <3>1. TagLaid(at[1], at[1 + 1], Inner(1), Len(Inner(1)))
      BY <2>1, <2>3, TagLaidIs
    <3>2. input[1] = "<"
      BY <1>2, <3>1 DEF TagLaid
    <3> QED
      BY <3>2 DEF StartsWithPercent, Char, NUL
  <2> QED
    BY <2>1, <2>2, <2>3, TextOrTag
<1> QED
  BY <1>3, <1>4

(* The text before the next tag, and the tag. *)
Ahead(at, k, m) ==
    /\ Texts(k, m)
    /\ m = Len(pieces) + 1 => NextPercent = Len(input) + 1
    /\ m # Len(pieces) + 1 =>
         /\ m \in DOMAIN pieces /\ IsTag(m)
         /\ TagLaid(at[m], at[m + 1], Inner(m), Len(Inner(m)))
         /\ NextPercent <= Len(input) /\ ptr_tag = at[m] /\ Char(ptr_tag) = "<"

(* The next '%' is the next tag's, if there is one. *)
LEMMA AheadIs ==
  ASSUME IsTemplate, WellNested, IsSeq(input), NEW at, Laid(at),
         NEW k \in 1..(Len(pieces) + 1), ptr = at[k]
  PROVE  \E m \in k..(Len(pieces) + 1) : Ahead(at, k, m)
<1>1. PICK n \in Nat : n = Len(pieces) /\ DOMAIN pieces = 1..n
  BY PiecesAre
<1>2. PICK m \in k..(n + 1) : Texts(k, m) /\ (m \in DOMAIN pieces => pieces[m].kind # "text")
  BY <1>1, NextTag
<1>3. m \in k..(Len(pieces) + 1)
  BY <1>1
<1>4. m = Len(pieces) + 1 => NextPercent = Len(input) + 1
  BY <1>2, <1>3, PercentAhead DEF NextPercent
<1>5. ASSUME m # Len(pieces) + 1
      PROVE  /\ m \in DOMAIN pieces /\ IsTag(m)
             /\ TagLaid(at[m], at[m + 1], Inner(m), Len(Inner(m)))
             /\ NextPercent <= Len(input) /\ ptr_tag = at[m] /\ Char(ptr_tag) = "<"
  <2>1. m \in DOMAIN pieces
    BY <1>1, <1>2, <1>5
  <2>2. IsTag(m)
    BY <1>2, <2>1, TextOrTag
  <2>3. NextPercent = at[m] + 1
    BY <1>2, <1>3, <2>1, <2>2, PercentAhead DEF NextPercent
  <2>4. TagLaid(at[m], at[m + 1], Inner(m), Len(Inner(m)))
    BY <2>1, <2>2, TagLaidIs
  <2>5. PICK b \in Nat \ {0}, l \in Nat \ {0} :
          b = at[m] /\ l = Len(Inner(m)) /\ b + l + 3 \in 1..Len(input) /\ input[b] = "<" /\ Len(input) \in Nat
    BY <2>4, CharIs DEF TagLaid
  <2>6. b \in 1..Len(input) /\ b + 1 <= Len(input)
    BY <2>5, SMTT(30)
  <2>7. ptr_tag = b /\ NextPercent <= Len(input)
    BY <2>3, <2>5, <2>6 DEF ptr_tag
  <2>8. Char(b) = "<"
    BY <2>5, <2>6, CharIs DEF Char
  <2> QED
    BY <2>1, <2>2, <2>4, <2>5, <2>7, <2>8
<1> QED
  BY <1>2, <1>3, <1>4, <1>5 DEF Ahead

(* Up to the loop. *)
LEMMA BufferKeepsRenderInv == ScanInv /\ RenderInv /\ dino_template_generate_buffer => RenderInv'
<1> SUFFICES ASSUME ScanInv, RenderInv, dino_template_generate_buffer PROVE RenderInv'
  OBVIOUS
<1>1. /\ pc = "call" /\ pc' = "scan"
      /\ map' = pi_template_generator_create
      /\ ptr' = (IF StartsWithPercent THEN 2 ELSE 1)
      /\ out' = (IF StartsWithPercent THEN <<"%">> ELSE <<>>)
      /\ pieces' = pieces /\ input' = input /\ ifs' = ifs /\ lost' = lost
      /\ operators' = operators /\ args' = args /\ args
  BY DEF dino_template_generate_buffer, given
<1>2. IsTemplate' /\ (\E at : Laid(at))' /\ (WellNested' <=> WellNested)
  BY <1>1, SameTemplate
<1>3. IsTemplate /\ IsSeq(input) /\ ifs.top = 0 /\ operators \subseteq OperatorNames
  BY <1>1 DEF ScanInv, RenderInv
<1>4. PICK at : Laid(at)
  BY DEF RenderInv
<1>5. ASSUME WellNested
      PROVE  Laid(at)' /\ \E k \in 1..(Len(pieces') + 1) : Walked(at, k)'
  <2>1. ~ StartsWithPercent
    BY <1>3, <1>4, <1>5, NoPercentFirst
  <2>2. ptr' = 1 /\ out' = <<>> /\ at[1] = 1
    BY <1>1, <1>4, <2>1 DEF Laid
  <2>3. StackSays(ifs', 1)
    BY <1>1, <1>3, NoConditionYet
  <2>4. MapSays(map', lost', 1)
    BY <1>1, <1>3, MapSaysNothingYet
  <2>5. Shows(out', lost', 1, {})
    BY <1>3, <2>2, ShowsNothingYet
  <2>6. Walked(at, 1)'
    BY <1>1, <2>2, <2>3, <2>4, <2>5, SameWalked
  <2>7. 1 \in 1..(Len(pieces') + 1)
    BY <1>1, <1>3, PiecesAre
  <2>8. Laid(at)'
    BY <1>1, <1>4, SameLayout
  <2> QED
    BY <2>6, <2>7, <2>8
<1>6. (WellNested => \E a : Laid(a) /\ \E k \in 1..(Len(pieces) + 1) : Walked(a, k))'
  BY <1>2, <1>5
<1> QED
  BY <1>1, <1>2, <1>6 DEF RenderInv

(* A call that does not end well has no output to speak of. *)
LEMMA FileKeepsRenderInv == RenderInv /\ (FileNotRead \/ CopiesTooMuch) => RenderInv'
<1> SUFFICES ASSUME RenderInv, FileNotRead \/ CopiesTooMuch PROVE RenderInv'
  OBVIOUS
<1>1. /\ pieces' = pieces /\ input' = input /\ operators' = operators
      /\ pc' \in {"dino_template_invalid_input", "dino_template_file_not_found", "crashed"}
  BY DEF FileNotRead, CopiesTooMuch, given
<1>2. IsTemplate' /\ (\E at : Laid(at))'
  BY <1>1, SameTemplate
<1>3. pc' # "call" /\ pc' # "scan" /\ pc' # "dino_template_no_error"
  BY <1>1
<1> QED
  BY <1>2, <1>3 DEF RenderInv

(* A file is answered with no text. *)
LEMMA MissingKeepsRenderInv == RenderInv /\ ArgumentMissing => RenderInv'
<1> SUFFICES ASSUME RenderInv, ArgumentMissing PROVE RenderInv'
  OBVIOUS
<1>1. /\ pieces' = pieces /\ input' = input /\ operators' = operators /\ args' = args /\ out' = out
      /\ pc = "call" /\ ~ args
      /\ pc' \in {"dino_template_invalid_input", "dino_template_no_error"}
  BY DEF ArgumentMissing, given
<1>2. IsTemplate' /\ (\E at : Laid(at))'
  BY <1>1, SameTemplate
<1>3. pc' # "call" /\ pc' # "scan" /\ out' = <<>>
  BY <1>1 DEF RenderInv
<1> QED
  BY <1>1, <1>2, <1>3 DEF RenderInv

(* The text behind the last tag. *)
LEMMA FinishKeepsRenderInv == ScanInv /\ RenderInv /\ Finish => RenderInv'
<1> SUFFICES ASSUME ScanInv, RenderInv, Finish PROVE RenderInv'
  OBVIOUS
<1>1. /\ pc = "scan" /\ pc' = "dino_template_no_error" /\ NextPercent > Len(input)
      /\ pieces' = pieces /\ input' = input /\ lost' = lost
      /\ operators' = operators /\ args' = args
  BY DEF Finish, given
<1>2. PICK b \in pi_template_if_set(ifs) : out' = out \o TextShown(b, SubSeq(input, ptr, Len(input)))
  BY DEF Finish
<1>3. IsTemplate' /\ (\E at : Laid(at))' /\ (WellNested' <=> WellNested)
  BY <1>1, SameTemplate
<1>4. IsTemplate /\ IsSeq(input) /\ ifs \in Stacks
  BY DEF ScanInv, RenderInv
<1>5. ASSUME WellNested PROVE \E shown : Shows(out', lost', Len(pieces) + 1, shown)
  <2>1. PICK at : Laid(at) /\ \E k \in 1..(Len(pieces) + 1) : Walked(at, k)
    BY <1>1, <1>5 DEF RenderInv
  <2>2. PICK k \in 1..(Len(pieces) + 1) : Walked(at, k)
    BY <2>1
  <2>3. ptr = at[k] /\ StackSays(ifs, k)
    BY <2>2 DEF Walked
  <2>4. PICK shown : Shows(out, lost, k, shown)
    BY <2>2 DEF Walked
  <2>5. PICK m \in k..(Len(pieces) + 1) : Ahead(at, k, m)
    BY <1>4, <1>5, <2>1, <2>3, AheadIs
  <2>6. m = Len(pieces) + 1 /\ Texts(k, m)
    <3>1. PICK x, y : x = NextPercent /\ y = Len(input) /\ y \in Nat /\ x > y
      BY <1>1, <1>4, CharIs
    <3>2. m # Len(pieces) + 1 => x <= y
      BY <2>5, <3>1 DEF Ahead
    <3>3. m # Len(pieces) + 1 => x \in Int
      BY <1>4, <2>3, <2>5, <3>1, PercentIs DEF Ahead
    <3> QED
      BY <2>5, <3>1, <3>2, <3>3 DEF Ahead
  <2>7. at[m] - 1 = Len(input)
    <3>1. at[m] = Len(input) + 1 /\ Len(input) \in Nat
      BY <1>4, <2>1, <2>6, CharIs DEF Laid
    <3> QED
      BY <3>1
  <2>8. b \in BOOLEAN /\ (b => Visible(k)) /\ (~ b => ~ Visible(k) \/ Level(k) > Depth)
    BY <1>2, <1>4, <2>3, IfSetSays
  <2>9. \E more : Shows(out \o TextShown(b, SubSeq(input, at[k], at[m] - 1)), lost, m, more)
    BY <1>4, <2>1, <2>4, <2>6, <2>8, ShowsText
  <2> QED
    BY <1>1, <1>2, <2>3, <2>6, <2>7, <2>9
<1>6. (WellNested => \E shown : Shows(out, lost, Len(pieces) + 1, shown))'
  <2>1. ASSUME WellNested PROVE \E shown : Shows(out, lost, Len(pieces) + 1, shown)'
    <3>1. PICK k : k = Len(pieces) + 1
      OBVIOUS
    <3>2. PICK shown : Shows(out', lost', k, shown)
      BY <1>5, <2>1, <3>1
    <3>3. Shows(out, lost, k, shown)'
      BY <1>1, <3>2, SameShows
    <3> QED
      BY <1>1, <3>1, <3>3
  <2> QED
    BY <1>3, <2>1
<1>7. args'
  BY <1>1 DEF RenderInv
<1> QED
  BY <1>1, <1>3, <1>6, <1>7 DEF RenderInv

(* No '%' is plain text in a template that is well nested. *)
LEMMA PlainKeepsRenderInv == ScanInv /\ RenderInv /\ PlainPercent => RenderInv'
<1> SUFFICES ASSUME ScanInv, RenderInv, PlainPercent PROVE RenderInv'
  OBVIOUS
<1>1. /\ pc = "scan" /\ pc' = pc /\ NextPercent <= Len(input) /\ Char(ptr_tag) # "<"
      /\ pieces' = pieces /\ input' = input /\ operators' = operators /\ args' = args
  BY DEF PlainPercent, given
<1>2. IsTemplate' /\ (\E at : Laid(at))' /\ (WellNested' <=> WellNested)
  BY <1>1, SameTemplate
<1>3. IsTemplate /\ IsSeq(input)
  BY DEF ScanInv, RenderInv
<1>4. ~ WellNested
  <2> SUFFICES ASSUME WellNested PROVE FALSE
    OBVIOUS
  <2>1. PICK at : Laid(at) /\ \E k \in 1..(Len(pieces) + 1) : Walked(at, k)
    BY <1>1 DEF RenderInv
  <2>2. PICK k \in 1..(Len(pieces) + 1) : Walked(at, k)
    BY <2>1
  <2>3. ptr = at[k]
    BY <2>2 DEF Walked
  <2>4. PICK m \in k..(Len(pieces) + 1) : Ahead(at, k, m)
    BY <1>3, <2>1, <2>3, AheadIs
  <2>5. NextPercent = Len(input) + 1
    BY <1>1, <2>4 DEF Ahead
  <2>6. Len(input) \in Nat
    BY <1>3, CharIs
  <2> QED
    BY <1>1, <2>5, <2>6
<1>5. args'
  BY <1>1 DEF RenderInv
<1> QED
  BY <1>1, <1>2, <1>4, <1>5 DEF RenderInv

(* The tag of a turn of the loop, and what it does. *)
Taken(tag) ==
    /\ \E before, shown \in pi_template_if_set(ifs) :
         out' = out \o TextShown(before, SubSeq(input, ptr, ptr_tag - 1))
                    \o TextShown(shown /\ Outputs(tag), tag.said)
    /\ StackAfter(tag, ifs, ifs')
    /\ \E room \in Rooms : LearnsTo(tag.learned, room, map', lost')

(* Each of the three symbols is the only one it can be. *)
LEMMA TakenIs ==
  ASSUME TagFound,
         NEW first, first = pi_template_get_symbol(ptr_tag + 2),
         NEW second, second = pi_template_get_symbol(first.end),
         NEW tag, tag = pi_template_lookup_symbol(first.name, second.name)
  PROVE  Taken(tag)
<1> DEFINE Does(t) ==
      /\ \E before, shown \in pi_template_if_set(ifs) :
           /\ LengthBeforeTag < 0 => ~ before
           /\ out' = out \o TextShown(before, SubSeq(input, ptr, ptr_tag - 1))
                         \o TextShown(shown /\ Outputs(t), t.said)
      /\ ifs' = CASE t.type = operator_type_If    -> pi_template_push_if(ifs, t.said)
                  [] t.type = operator_type_Else  -> pi_template_push_else(ifs)
                  [] t.type = operator_type_EndIf -> pi_template_pop_if(ifs)
                  [] OTHER                        -> ifs
      /\ \E room \in Rooms : Learn(t.learned, room)
<1>1. \E f \in {pi_template_get_symbol(ptr_tag + 2)} :
      \E s \in {pi_template_get_symbol(f.end)} :
      \E t \in {pi_template_lookup_symbol(f.name, s.name)} : Does(t)
  BY Zenon DEF TagFound
<1> HIDE DEF Does
<1>2. Does(tag)
  BY <1>1, Zenon
<1>3. \E before, shown \in pi_template_if_set(ifs) :
        out' = out \o TextShown(before, SubSeq(input, ptr, ptr_tag - 1))
                   \o TextShown(shown /\ Outputs(tag), tag.said)
  BY <1>2, Zenon DEF Does
<1>4. StackAfter(tag, ifs, ifs')
  BY <1>2, Zenon DEF Does, StackAfter
<1>5. \E room \in Rooms : Learn(tag.learned, room)
  BY <1>2, Zenon DEF Does
<1>6. \A room : Learn(tag.learned, room) => LearnsTo(tag.learned, room, map', lost')
  BY DEF Learn, LearnsTo
<1>7. \E room \in Rooms : LearnsTo(tag.learned, room, map', lost')
  BY <1>5, <1>6, Zenon
<1> QED
  BY <1>3, <1>4, <1>7, Zenon DEF Taken

(* The text before a tag, and the tag. *)
LEMMA TagKeepsRenderInv == ScanInv /\ RenderInv /\ TagFound => RenderInv'
<1> SUFFICES ASSUME ScanInv, RenderInv, TagFound PROVE RenderInv'
  OBVIOUS
<1>1. /\ pc = "scan" /\ pc' = pc /\ NextPercent <= Len(input)
      /\ pieces' = pieces /\ input' = input /\ ptr' = AfterTag(ptr_tag)
      /\ operators' = operators /\ args' = args
  BY DEF TagFound, given
<1>2. IsTemplate' /\ (\E at : Laid(at))' /\ (WellNested' <=> WellNested)
  BY <1>1, SameTemplate
<1>3. IsTemplate /\ IsSeq(input) /\ ifs \in Stacks /\ MapOk(map) /\ OperatorsIn(map)
      /\ operators \subseteq OperatorNames
  BY <1>1 DEF ScanInv, RenderInv
<1>4. ASSUME WellNested
      PROVE  (\E at : Laid(at) /\ \E k \in 1..(Len(pieces) + 1) : Walked(at, k))'
  <2>1. PICK at : Laid(at) /\ \E k \in 1..(Len(pieces) + 1) : Walked(at, k)
    BY <1>1, <1>4 DEF RenderInv
  <2>2. PICK k \in 1..(Len(pieces) + 1) : Walked(at, k)
    BY <2>1
  <2>3. ptr = at[k] /\ StackSays(ifs, k) /\ MapSays(map, lost, k)
    BY <2>2 DEF Walked
  <2>4. PICK shown : Shows(out, lost, k, shown)
    BY <2>2 DEF Walked
  <2>5. PICK m \in k..(Len(pieces) + 1) : Ahead(at, k, m)
    BY <1>3, <1>4, <2>1, <2>3, AheadIs
  <2>6. m # Len(pieces) + 1
    <3>1. Len(input) \in Nat
      BY <1>3, CharIs
    <3> QED
      BY <1>1, <2>5, <3>1 DEF Ahead
  <2>7. /\ Texts(k, m) /\ m \in DOMAIN pieces /\ IsTag(m) /\ ptr_tag = at[m]
        /\ TagLaid(at[m], at[m + 1], Inner(m), Len(Inner(m)))
    BY <2>5, <2>6 DEF Ahead
  <2>8. k \in Nat \ {0} /\ m \in Nat /\ k <= m /\ m + 1 \in 1..(Len(pieces) + 1)
    BY <1>3, <2>7, PiecesAre
  <2>9. Level(m) = Level(k) /\ (Visible(m) <=> Visible(k)) /\ StackSays(ifs, m)
    <3>1. \A j \in k..(m - 1) : Quiet(j)
      BY <2>7 DEF Texts, Quiet, Opens, Turns, Closes
    <3>2. Level(m) = Level(k) /\ \A level : BranchTaken(m, level) = BranchTaken(k, level)
      BY <1>3, <2>8, <3>1, QuietRun
    <3>3. StackSays(ifs, m)
      BY <1>3, <2>3, <2>8, <3>1, StackStays
    <3> QED
      BY <3>2, <3>3 DEF Visible
  <2>10. MapSays(map, lost, m)
    BY <1>3, <2>3, <2>7, <2>8, MapStaysInText
  <2>11. PICK first : first = pi_template_get_symbol(ptr_tag + 2)
    OBVIOUS
  <2>12. PICK second : second = pi_template_get_symbol(first.end)
    OBVIOUS
  <2>13. PICK tag : tag = pi_template_lookup_symbol(first.name, second.name)
    OBVIOUS
  <2>14. Taken(tag)
    BY <2>11, <2>12, <2>13, TakenIs
  <2>15. Reads(first.name, second.name, m)
    <3>1. first = pi_template_get_symbol(at[m] + 2)
      BY <2>7, <2>11
    <3> QED
      BY <1>3, <2>7, <2>12, <3>1, TagSymbols DEF Reads
  <2>16. TagSays(tag, m)
    <3>1. MissingIn(map)
      BY <2>3 DEF MapSays
    <3> QED
      BY <1>3, <2>7, <2>13, <2>15, <3>1, TagSaysIs
  <2>17. ptr' = at[m + 1]
    BY <1>1, <1>3, <2>7, BehindTag
  <2>18. StackSays(ifs', m + 1)
    BY <1>3, <1>4, <2>7, <2>9, <2>14, <2>16, TagKeepsStack DEF Taken
  <2>19. MapSays(map', lost', m + 1) /\ lost \subseteq lost'
    <3>1. PICK room \in Rooms : LearnsTo(tag.learned, room, map', lost')
      BY <2>14 DEF Taken
    <3>2. room \in BOOLEAN
      BY RoomsAssumption
    <3> QED
      BY <1>3, <2>7, <2>10, <2>16, <3>1, <3>2, TagKeepsMap
  <2>20. \E more : Shows(out', lost', m + 1, more)
    <3>1. PICK before \in pi_template_if_set(ifs), seen \in pi_template_if_set(ifs) :
            out' = out \o TextShown(before, SubSeq(input, ptr, ptr_tag - 1))
                       \o TextShown(seen /\ Outputs(tag), tag.said)
      BY <2>14 DEF Taken
    <3>2. /\ before \in BOOLEAN /\ (before => Visible(k)) /\ (~ before => ~ Visible(k) \/ Level(k) > Depth)
          /\ seen \in BOOLEAN /\ (seen => Visible(m)) /\ (~ seen => ~ Visible(m) \/ Level(m) > Depth)
      BY <1>3, <2>3, <2>9, IfSetSays
    <3>3. PICK text : text = out \o TextShown(before, SubSeq(input, at[k], at[m] - 1))
      OBVIOUS
    <3>4. PICK some : Shows(text, lost, m, some)
      BY <1>3, <2>1, <2>4, <2>7, <3>2, <3>3, ShowsText
    <3>5. PICK part \in BOOLEAN :
            /\ TextShown(seen /\ Outputs(tag), tag.said) = IF part THEN Meaning(m) ELSE <<>>
            /\ part => Visible(m)
            /\ Visible(m) /\ ~ NeedNot(m, lost) => part
      BY <1>3, <2>7, <2>10, <2>16, <3>2, TagShows
    <3>6. PICK more : Shows(text \o (IF part THEN Meaning(m) ELSE <<>>), lost, m + 1, more)
      BY <1>3, <2>7, <3>4, <3>5, ShowsTag
    <3>7. out' = text \o (IF part THEN Meaning(m) ELSE <<>>)
      BY <2>3, <2>7, <3>1, <3>3, <3>5
    <3>8. Shows(out', lost, m + 1, more)
      BY <3>6, <3>7
    <3> QED
      BY <2>19, <3>8, ShowsStill
  <2>21. PICK h : h = m + 1
    OBVIOUS
  <2>22. Walked(at, h)'
    <3>1. PICK more : Shows(out', lost', h, more)
      BY <2>20, <2>21
    <3> QED
      BY <1>1, <2>17, <2>18, <2>19, <2>21, <3>1, SameWalked
  <2>23. Laid(at)' /\ h \in 1..(Len(pieces') + 1)
    BY <1>1, <2>1, <2>8, <2>21, SameLayout
  <2> QED
    BY <2>22, <2>23
<1>5. args'
  BY <1>1 DEF RenderInv
<1> QED
  BY <1>1, <1>2, <1>4, <1>5 DEF RenderInv

LEMMA RenderInvNext == ScanInv /\ RenderInv /\ [Next]_vars => RenderInv'
<1> SUFFICES ASSUME ScanInv, RenderInv, [Next]_vars PROVE RenderInv'
  OBVIOUS
<1>1. CASE UNCHANGED vars
  <2>1. /\ pieces' = pieces /\ input' = input /\ ptr' = ptr /\ out' = out /\ ifs' = ifs
        /\ map' = map /\ lost' = lost /\ pc' = pc /\ operators' = operators /\ args' = args
    BY <1>1 DEF vars, given
  <2>2. IsTemplate' /\ (\E at : Laid(at))' /\ (WellNested' <=> WellNested)
    BY <2>1, SameTemplate
  <2>3. ASSUME pc = "scan", WellNested
        PROVE  (\E at : Laid(at) /\ \E k \in 1..(Len(pieces) + 1) : Walked(at, k))'
    <3>1. PICK at : Laid(at) /\ \E k \in 1..(Len(pieces) + 1) : Walked(at, k)
      BY <2>3 DEF RenderInv
    <3>2. PICK k \in 1..(Len(pieces) + 1) : Walked(at, k)
      BY <3>1
    <3>3. Walked(at, k)'
      BY <2>1, <3>2, SameWalked DEF Walked
    <3>4. Laid(at)' /\ k \in 1..(Len(pieces') + 1)
      BY <2>1, <3>1, SameLayout
    <3> QED
      BY <3>3, <3>4
  <2>4. ASSUME pc = "dino_template_no_error", args, WellNested
        PROVE  (\E shown : Shows(out, lost, Len(pieces) + 1, shown))'
    <3>1. PICK k : k = Len(pieces) + 1
      OBVIOUS
    <3>2. PICK shown : Shows(out, lost, k, shown)
      BY <2>4, <3>1 DEF RenderInv
    <3>3. Shows(out, lost, k, shown)'
      BY <2>1, <3>2, SameShows
    <3> QED
      BY <2>1, <3>1, <3>3
  <2> QED
    BY <2>1, <2>2, <2>3, <2>4 DEF RenderInv
<1> QED
  BY <1>1, BufferKeepsRenderInv, MissingKeepsRenderInv, FileKeepsRenderInv, FinishKeepsRenderInv,
     PlainKeepsRenderInv, TagKeepsRenderInv DEF Next

(* dino_template_generate_buffer renders every template that is well nested   *)
(* piece by piece: each piece that stands under conditions that hold is shown   *)
(* and no other, for any depth of the stack, any nesting beyond it, any hash,    *)
(* whatever operators there was no memory for (their tags do nothing) and        *)
(* whatever names there was none for.  Only what lies deeper than the stack,     *)
(* and a name that was lost, may be missing.  A file whose callbacks are NULL    *)
(* is answered with no text at all.                                             *)
THEOREM RendersAsConditionsNest == Spec => []RendersAsNested
<1>1. RenderInv => RendersAsNested
  <2> SUFFICES ASSUME RenderInv, pc = "dino_template_no_error", args => WellNested
               PROVE  LET visible == {i \in DOMAIN pieces : args /\ Visible(i)}
                          free    == {i \in visible : Undetermined(i)}
                      IN  \E some \in SUBSET free : out = Rendered((visible \ free) \cup some)
    BY DEF RendersAsNested
  <2>1. PICK shown :
          /\ shown \subseteq DOMAIN pieces /\ out = Rendered(shown)
          /\ \A i \in shown : args /\ Visible(i)
          /\ \A i \in DOMAIN pieces : args /\ Visible(i) /\ ~ NeedNot(i, lost) => i \in shown
    <3>1. CASE args
      <4>1. PICK shown : Shows(out, lost, Len(pieces) + 1, shown)
        BY <3>1 DEF RenderInv
      <4>2. Len(pieces) + 1 - 1 = Len(pieces) /\ DOMAIN pieces = 1..Len(pieces)
        BY PiecesAre DEF RenderInv
      <4>3. /\ shown \subseteq DOMAIN pieces /\ out = Rendered(shown)
            /\ \A i \in shown : args /\ Visible(i)
            /\ \A i \in DOMAIN pieces : args /\ Visible(i) /\ ~ NeedNot(i, lost) => i \in shown
        BY <3>1, <4>1, <4>2 DEF Shows
      <4> QED
        BY <4>3, Zenon
    <3>2. CASE ~ args
      <4>1. out = <<>>
        BY <3>2 DEF RenderInv
      <4>2. Shows(<<>>, lost, 1, {})
        BY ShowsNothingYet DEF RenderInv
      <4>3. out = Rendered({})
        BY <4>1, <4>2 DEF Shows
      <4> QED
        BY <3>2, <4>3
    <3> QED
      BY <3>1, <3>2
  <2>2. \A i : NeedNot(i, lost) <=> Undetermined(i)
    BY DEF NeedNot, Undetermined
  <2> DEFINE visible == {i \in DOMAIN pieces : args /\ Visible(i)}
             free    == {i \in visible : Undetermined(i)}
             some    == shown \cap free
  <2>3. shown = (visible \ free) \cup some
    BY <2>1, <2>2
  <2>4. some \in SUBSET free
    OBVIOUS
  <2> QED
    BY <2>1, <2>3, <2>4
<1>2. Spec => []RenderInv
  <2>1. Init /\ [][Next]_vars /\ []ScanInv => []RenderInv
    BY RenderInvInit, RenderInvNext, PTL
  <2> QED
    BY <2>1, ScanInvHolds, PTL DEF Spec
<1> QED
  BY <1>1, <1>2, PTL
=============================================================================
