---------------------------- MODULE StrMapProofs ----------------------------
(* For every set of names and values, every number of buckets and every hash: *)
(* the map stores a name once, gives back what it took, and is what Params     *)
(* promises.  The loops over the buckets are recursive functions; what they     *)
(* compute is proved by going down from the last bucket.                        *)
EXTENDS StrMap, RecursionLemmas, SequenceTheorems

-----------------------------------------------------------------------------
(* One bucket. *)

Stored == [key : Key, value : Seq(Text) \ {<<>>}]

(* The pairs of bucket b, no key twice. *)
BucketOk(bucket, b) ==
    /\ bucket \in Seq(Stored)
    /\ \A i, j \in DOMAIN bucket :
         /\ Hash[bucket[i].key] = b
         /\ bucket[i].key = bucket[j].key => i = j

(* What dino_strmap_put does to a bucket, and to the buckets. *)
ValueReplaced(new, bucket, j, value) == new = [bucket EXCEPT ![j].value = value]

PairAdded(new, bucket, k, value) == new = Append(bucket, [key |-> k, value |-> value])

BucketSet(new_buckets, bs, h, new) == new_buckets = [bs EXCEPT ![h] = new]

ValueIn(bucket, k) ==
    LET j == get_pair(bucket, k) IN IF j = 0 THEN <<>> ELSE bucket[j].value

(* new holds value for k, and for any other name what bucket holds. *)
HoldsFor(new, bucket, k, value) ==
    ValueIn(new, k) = value /\ \A d : d # k => ValueIn(new, d) = ValueIn(bucket, d)

(* get_pair finds the one pair with the key. *)
LEMMA PairIs ==
  ASSUME NEW bucket, NEW b, BucketOk(bucket, b), NEW k
  PROVE  /\ \A j \in DOMAIN bucket : bucket[j].key = k => get_pair(bucket, k) = j
         /\ get_pair(bucket, k) # 0 =>
              get_pair(bucket, k) \in DOMAIN bucket /\ bucket[get_pair(bucket, k)].key = k
<1> DEFINE hits == {j \in DOMAIN bucket : bucket[j].key = k}
<1>1. DOMAIN bucket = 1..Len(bucket) /\ Len(bucket) \in Nat
  BY DEF BucketOk
<1>2. ASSUME NEW j \in hits PROVE get_pair(bucket, k) = j
  <2>1. hits = {j}
    BY <1>2 DEF BucketOk
  <2>2. j <= j
    BY <1>1, <1>2
  <2> QED
    BY <2>1, <2>2 DEF get_pair
<1>3. hits = {} => get_pair(bucket, k) = 0
  BY DEF get_pair
<1> QED
  BY <1>1, <1>2, <1>3

(* What is stored under a key, without the pair. *)
LEMMA ValueIs ==
  ASSUME NEW bucket, NEW b, BucketOk(bucket, b), NEW k
  PROVE  /\ \A j \in DOMAIN bucket :
              bucket[j].key = k => ValueIn(bucket, k) = bucket[j].value /\ ValueIn(bucket, k) # <<>>
         /\ (\A j \in DOMAIN bucket : bucket[j].key # k) =>
              ValueIn(bucket, k) = <<>> /\ get_pair(bucket, k) = 0
         /\ get_pair(bucket, k) # 0 <=> ValueIn(bucket, k) # <<>>
<1>1. /\ DOMAIN bucket = 1..Len(bucket) /\ Len(bucket) \in Nat
      /\ \A j \in DOMAIN bucket : bucket[j] \in Stored /\ j # 0
  BY DEF BucketOk
<1>2. \A j \in DOMAIN bucket : bucket[j].value # <<>>
  BY <1>1 DEF Stored
<1>3. \A j \in DOMAIN bucket :
         bucket[j].key = k => ValueIn(bucket, k) = bucket[j].value /\ ValueIn(bucket, k) # <<>>
  BY <1>1, <1>2, PairIs DEF ValueIn
<1>4. get_pair(bucket, k) # 0 => ValueIn(bucket, k) # <<>>
  BY <1>3, PairIs
<1>5. get_pair(bucket, k) = 0 => ValueIn(bucket, k) = <<>>
  BY DEF ValueIn
<1>6. (\A j \in DOMAIN bucket : bucket[j].key # k) => get_pair(bucket, k) = 0
  BY PairIs
<1> QED
  BY <1>3, <1>4, <1>5, <1>6

LEMMA ValueOfPair ==
  ASSUME NEW bucket, NEW b, BucketOk(bucket, b), NEW i \in DOMAIN bucket
  PROVE  ValueIn(bucket, bucket[i].key) = bucket[i].value
  BY ValueIs

(* dino_strmap_put of a key that is there. *)
LEMMA Replaced ==
  ASSUME NEW bucket, NEW b, BucketOk(bucket, b), NEW k \in Key, NEW value \in Seq(Text) \ {<<>>},
         NEW j, j = get_pair(bucket, k), j # 0,
         NEW new, ValueReplaced(new, bucket, j, value)
  PROVE  /\ BucketOk(new, b) /\ Len(new) = Len(bucket) /\ (new = <<>> <=> bucket = <<>>)
         /\ HoldsFor(new, bucket, k, value)
<1>1. j \in DOMAIN bucket /\ bucket[j].key = k
  BY PairIs
<1>2. /\ DOMAIN bucket = 1..Len(bucket) /\ Len(bucket) \in Nat /\ bucket \in Seq(Stored)
      /\ \A i \in DOMAIN bucket : bucket[i] \in Stored
  BY DEF BucketOk
<1> DEFINE p == [bucket[j] EXCEPT !.value = value]
<1>3. p \in Stored /\ p.key = k /\ p.value = value
  BY <1>1, <1>2 DEF Stored
<1>4. new = [bucket EXCEPT ![j] = p]
  BY DEF ValueReplaced
<1> HIDE DEF p
<1>5. /\ new \in Seq(Stored) /\ Len(new) = Len(bucket) /\ DOMAIN new = DOMAIN bucket
      /\ new[j] = p /\ \A i \in DOMAIN bucket : i # j => new[i] = bucket[i]
  BY <1>1, <1>2, <1>3, <1>4
<1>6. \A i \in DOMAIN new : new[i].key = bucket[i].key
  BY <1>1, <1>3, <1>5
<1>7. BucketOk(new, b)
  BY <1>5, <1>6 DEF BucketOk
<1>8. ValueIn(new, k) = value
  <2>1. j \in DOMAIN new /\ new[j].key = k /\ new[j].value = value
    BY <1>1, <1>3, <1>5
  <2> QED
    BY <1>7, <2>1, ValueOfPair
<1>9. ASSUME NEW d, d # k PROVE ValueIn(new, d) = ValueIn(bucket, d)
  <2>1. CASE \E i \in DOMAIN bucket : bucket[i].key = d
    <3>1. PICK i \in DOMAIN bucket : bucket[i].key = d
      BY <2>1
    <3>2. i # j /\ new[i] = bucket[i] /\ i \in DOMAIN new
      BY <1>1, <1>5, <1>9, <3>1
    <3>3. ValueIn(bucket, d) = bucket[i].value
      BY <3>1, ValueIs
    <3>4. ValueIn(new, d) = new[i].value
      BY <1>7, <3>1, <3>2, ValueOfPair
    <3> QED
      BY <3>2, <3>3, <3>4
  <2>2. CASE \A i \in DOMAIN bucket : bucket[i].key # d
    <3>1. \A i \in DOMAIN new : new[i].key # d
      BY <1>5, <1>6, <2>2
    <3>2. ValueIn(bucket, d) = <<>>
      BY <2>2, ValueIs
    <3>3. ValueIn(new, d) = <<>>
      BY <1>7, <3>1, ValueIs
    <3> QED
      BY <3>2, <3>3
  <2> QED
    BY <2>1, <2>2
<1>10. new = <<>> <=> bucket = <<>>
  BY <1>2, <1>5
<1> QED
  BY <1>5, <1>7, <1>8, <1>9, <1>10 DEF HoldsFor

(* dino_strmap_put of a new key. *)
LEMMA Added ==
  ASSUME NEW bucket, NEW b, BucketOk(bucket, b), NEW k \in Key, NEW value \in Seq(Text) \ {<<>>},
         Hash[k] = b, get_pair(bucket, k) = 0,
         NEW new, PairAdded(new, bucket, k, value)
  PROVE  /\ BucketOk(new, b) /\ Len(new) = Len(bucket) + 1 /\ new # <<>>
         /\ HoldsFor(new, bucket, k, value)
<1> DEFINE p == [key |-> k, value |-> value]
<1>1. p \in Stored /\ p.key = k /\ p.value = value
  BY DEF Stored
<1>2. /\ DOMAIN bucket = 1..Len(bucket) /\ Len(bucket) \in Nat /\ bucket \in Seq(Stored)
  BY DEF BucketOk
<1>3. \A i \in DOMAIN bucket : bucket[i].key # k
  <2> SUFFICES ASSUME NEW i \in DOMAIN bucket, bucket[i].key = k PROVE FALSE
    OBVIOUS
  <2>1. get_pair(bucket, k) = i
    BY PairIs
  <2> QED
    BY <1>2, <2>1
<1>4. new = Append(bucket, p)
  BY DEF PairAdded
<1> HIDE DEF p
<1>5. /\ new \in Seq(Stored) /\ Len(new) = Len(bucket) + 1 /\ DOMAIN new = 1..(Len(bucket) + 1)
      /\ new[Len(bucket) + 1] = p /\ \A i \in DOMAIN bucket : new[i] = bucket[i]
  BY <1>1, <1>2, <1>4
<1>6. BucketOk(new, b)
  BY <1>1, <1>2, <1>3, <1>5 DEF BucketOk
<1>7. ValueIn(new, k) = value
  <2>1. Len(bucket) + 1 \in DOMAIN new /\ new[Len(bucket) + 1].key = k
    BY <1>1, <1>2, <1>5
  <2>2. new[Len(bucket) + 1].value = value
    BY <1>1, <1>2, <1>5
  <2> QED
    BY <1>6, <2>1, <2>2, ValueOfPair
<1>8. ASSUME NEW d, d # k PROVE ValueIn(new, d) = ValueIn(bucket, d)
  <2>1. CASE \E i \in DOMAIN bucket : bucket[i].key = d
    <3>1. PICK i \in DOMAIN bucket : bucket[i].key = d
      BY <2>1
    <3>2. new[i] = bucket[i] /\ i \in DOMAIN new
      BY <1>2, <1>5
    <3>3. ValueIn(bucket, d) = bucket[i].value
      BY <3>1, ValueIs
    <3>4. ValueIn(new, d) = new[i].value
      BY <1>6, <3>1, <3>2, ValueOfPair
    <3> QED
      BY <3>2, <3>3, <3>4
  <2>2. CASE \A i \in DOMAIN bucket : bucket[i].key # d
    <3>1. \A i \in DOMAIN new : new[i].key # d
      BY <1>1, <1>2, <1>5, <1>8, <2>2
    <3>2. ValueIn(bucket, d) = <<>>
      BY <2>2, ValueIs
    <3>3. ValueIn(new, d) = <<>>
      BY <1>6, <3>1, ValueIs
    <3> QED
      BY <3>2, <3>3
  <2> QED
    BY <2>1, <2>2
<1>9. new # <<>>
  BY <1>2, <1>5
<1> QED
  BY <1>5, <1>6, <1>7, <1>8, <1>9 DEF HoldsFor

-----------------------------------------------------------------------------
(* What the loops over the buckets compute. *)

Buckets == [Bucket -> Seq(Stored)]

BlocksIn(bucket) == IF bucket = <<>> THEN 0 ELSE 2 * Len(bucket) + 1

(* f is the sum that dino_strmap_delete frees from each bucket on. *)
Frees(f, bs) ==
    \A n \in 0..Capacity :
        /\ f[n] \in Nat
        /\ f[n] = IF n = Capacity THEN 2 ELSE BlocksIn(bs[n]) + f[n + 1]

LEMMA FreesExists ==
  ASSUME NEW bs \in Buckets
  PROVE  \E f : /\ f = [n \in 0..Capacity |->
                         IF n = Capacity THEN 2
                         ELSE (IF bs[n] = <<>> THEN 0 ELSE 2 * Len(bs[n]) + 1) + f[n + 1]]
                /\ f \in [0..Capacity -> Nat]
<1> DEFINE step == [i \in 0..(Capacity - 1) |-> [x \in Nat |-> BlocksIn(bs[i]) + x]]
<1>1. Capacity \in Nat /\ \A i \in 0..(Capacity - 1) : BlocksIn(bs[i]) \in Nat
  BY HashAssumption DEF BlocksIn, Buckets, Bucket
<1>2. step \in [0..(Capacity - 1) -> [Nat -> Nat]]
  BY <1>1
<1>3. \A i \in 0..(Capacity - 1), x \in Nat : step[i][x] = BlocksIn(bs[i]) + x
  OBVIOUS
<1> HIDE DEF step
<1>4. PICK f \in [0..Capacity -> Nat] : Descends(f, Capacity, 2, step)
  <2>1. Capacity \in Nat /\ 2 \in Nat
    BY <1>1
  <2> QED
    BY <1>2, <2>1, DownwardRecursion
<1>5. ASSUME NEW n \in 0..Capacity
      PROVE  f[n] = IF n = Capacity THEN 2
                    ELSE (IF bs[n] = <<>> THEN 0 ELSE 2 * Len(bs[n]) + 1) + f[n + 1]
  <2>1. n # Capacity => n \in 0..(Capacity - 1) /\ f[n + 1] \in Nat
    BY <1>1
  <2> QED
    BY <1>3, <1>4, <2>1 DEF BlocksIn, Descends
<1> QED
  BY <1>5

LEMMA FreedFromIs ==
  ASSUME NEW bs \in Buckets, NEW f,
         f = CHOOSE g : g = [n \in 0..Capacity |->
                               IF n = Capacity THEN 2
                               ELSE (IF bs[n] = <<>> THEN 0 ELSE 2 * Len(bs[n]) + 1) + g[n + 1]]
  PROVE  Frees(f, bs)
<1> DEFINE Eq(g) == g = [n \in 0..Capacity |->
                           IF n = Capacity THEN 2
                           ELSE (IF bs[n] = <<>> THEN 0 ELSE 2 * Len(bs[n]) + 1) + g[n + 1]]
<1>1. PICK e : Eq(e)
  BY FreesExists
<1>2. Eq(f)
  BY <1>1
<1>3. Capacity \in Nat /\ \A i \in 0..(Capacity - 1) : BlocksIn(bs[i]) \in Nat
  BY HashAssumption DEF BlocksIn, Buckets, Bucket
<1>4. \A n \in 0..Capacity : f[n] = IF n = Capacity THEN 2 ELSE BlocksIn(bs[n]) + f[n + 1]
  BY <1>2 DEF BlocksIn
<1> DEFINE S == {n \in 0..Capacity : f[n] \in Nat}
<1>5. \A n \in 0..Capacity : n \in S
  <2>1. Capacity \in S
    BY <1>3, <1>4
  <2>2. \A n \in 0..(Capacity - 1) : n + 1 \in S => n \in S
    BY <1>3, <1>4
  <2> HIDE DEF S
  <2> QED
    BY <1>3, <2>1, <2>2, DownToZero
<1> QED
  BY <1>4, <1>5 DEF Frees

LEMMA FreedNow ==
  ASSUME buckets \in Buckets PROVE Frees(FreedFrom, buckets)
<1>1. FreedFrom = CHOOSE g : g = [n \in 0..Capacity |->
                           IF n = Capacity THEN 2
                           ELSE (IF buckets[n] = <<>> THEN 0 ELSE 2 * Len(buckets[n]) + 1) + g[n + 1]]
  BY DEF FreedFrom, BlocksOf
<1> QED
  BY <1>1, FreedFromIs

LEMMA FreedThen ==
  ASSUME buckets' \in Buckets PROVE Frees(FreedFrom', buckets')
<1>1. FreedFrom' = CHOOSE g : g = [n \in 0..Capacity |->
                           IF n = Capacity THEN 2
                           ELSE (IF buckets'[n] = <<>> THEN 0 ELSE 2 * Len(buckets'[n]) + 1) + g[n + 1]]
  BY DEF FreedFrom, BlocksOf
<1> QED
  BY <1>1, FreedFromIs

(* One bucket changes; so does the sum. *)
LEMMA FreesChange ==
  ASSUME NEW bs \in Buckets, NEW h \in Bucket, NEW new \in Seq(Stored),
         NEW cs, BucketSet(cs, bs, h, new), NEW f, NEW g, Frees(f, bs), Frees(g, cs)
  PROVE  g[0] = f[0] + BlocksIn(new) - BlocksIn(bs[h])
<1> DEFINE d == BlocksIn(new) - BlocksIn(bs[h])
           S == {n \in 0..Capacity : g[n] = f[n] + (IF n <= h THEN d ELSE 0)}
<1>1. /\ Capacity \in Nat /\ h \in 0..(Capacity - 1) /\ cs[h] = new
      /\ \A i \in 0..(Capacity - 1) : i # h => cs[i] = bs[i]
      /\ \A i \in 0..(Capacity - 1) : BlocksIn(bs[i]) \in Nat /\ BlocksIn(cs[i]) \in Nat
  BY HashAssumption DEF BlocksIn, Buckets, Bucket, BucketSet
<1>2. d \in Int
  BY <1>1
<1>3. d = BlocksIn(cs[h]) - BlocksIn(bs[h])
  BY <1>1
<1> HIDE DEF d
<1>4. Capacity \in S
  BY <1>1, <1>2 DEF Frees
<1>5. ASSUME NEW n \in 0..(Capacity - 1), n + 1 \in S PROVE n \in S
  <2>1. /\ f[n] = BlocksIn(bs[n]) + f[n + 1] /\ g[n] = BlocksIn(cs[n]) + g[n + 1]
        /\ f[n + 1] \in Nat /\ g[n + 1] \in Nat
        /\ g[n + 1] = f[n + 1] + (IF n + 1 <= h THEN d ELSE 0)
    BY <1>1, <1>5 DEF Frees
  <2>2. CASE n = h
    BY <1>1, <1>2, <1>3, <2>1, <2>2, SMTT(30)
  <2>3. CASE n # h
    <3>1. BlocksIn(cs[n]) = BlocksIn(bs[n]) /\ (n <= h <=> n + 1 <= h)
      BY <1>1, <2>3
    <3>2. g[n] = f[n] + (IF n <= h THEN d ELSE 0)
      BY <1>1, <1>2, <2>1, <3>1, SMTT(30)
    <3> QED
      BY <1>1, <3>2
  <2> QED
    BY <2>2, <2>3
<1> HIDE DEF S
<1>6. 0 \in S
  <2>1. \A n \in 0..Capacity : n \in S
    BY <1>1, <1>4, <1>5, DownToZero
  <2> QED
    BY <1>1, <2>1
<1> QED
  BY <1>1, <1>6 DEF S, d

(* w holds every pair of the buckets from n on, and each once. *)
WalkOk(w, bs, n) ==
    /\ w \in Seq(Stored)
    /\ \A i \in DOMAIN w :
         Hash[w[i].key] >= n /\ w[i].value = ValueIn(bs[Hash[w[i].key]], w[i].key)
    /\ \A i, j \in DOMAIN w : w[i].key = w[j].key => i = j
    /\ \A k \in Key :
         Hash[k] >= n /\ ValueIn(bs[Hash[k]], k) # <<>> => \E i \in DOMAIN w : w[i].key = k

LEMMA WalkFromIs ==
  ASSUME buckets \in Buckets
  PROVE  \A n \in 0..Capacity :
            WalkFrom[n] = IF n = Capacity THEN <<>> ELSE buckets[n] \o WalkFrom[n + 1]
<1> DEFINE Eq(g) == g = [n \in 0..Capacity |-> IF n = Capacity THEN <<>> ELSE buckets[n] \o g[n + 1]]
           step == [i \in 0..(Capacity - 1) |-> [x \in Seq(Stored) |-> buckets[i] \o x]]
<1>1. Capacity \in Nat /\ <<>> \in Seq(Stored) /\ \A i \in 0..(Capacity - 1) : buckets[i] \in Seq(Stored)
  BY HashAssumption DEF Buckets, Bucket
<1>2. step \in [0..(Capacity - 1) -> [Seq(Stored) -> Seq(Stored)]]
  BY <1>1, ConcatProperties
<1>3. \A i \in 0..(Capacity - 1), x \in Seq(Stored) : step[i][x] = buckets[i] \o x
  OBVIOUS
<1> HIDE DEF step
<1>4. PICK f \in [0..Capacity -> Seq(Stored)] : Descends(f, Capacity, <<>>, step)
  BY <1>1, <1>2, DownwardRecursion
<1>5. ASSUME NEW n \in 0..Capacity
      PROVE  f[n] = IF n = Capacity THEN <<>> ELSE buckets[n] \o f[n + 1]
  <2>1. n # Capacity => n \in 0..(Capacity - 1) /\ f[n + 1] \in Seq(Stored)
    BY <1>1
  <2> QED
    BY <1>3, <1>4, <2>1 DEF Descends
<1>6. Eq(f)
  BY <1>5
<1>7. WalkFrom = CHOOSE g : Eq(g)
  BY DEF WalkFrom
<1>8. Eq(WalkFrom)
  BY <1>6, <1>7
<1> QED
  BY <1>8

(* The pairs of one bucket more. *)
LEMMA WalkGrows ==
  ASSUME NEW bs \in Buckets, NEW n \in Bucket, BucketOk(bs[n], n), NEW w, WalkOk(w, bs, n + 1)
  PROVE  WalkOk(bs[n] \o w, bs, n)
<1> DEFINE a == bs[n]
           u == a \o w
<1>1. /\ n \in Int /\ a \in Seq(Stored) /\ w \in Seq(Stored) /\ Len(a) \in Nat /\ Len(w) \in Nat
      /\ DOMAIN a = 1..Len(a) /\ DOMAIN w = 1..Len(w)
      /\ \A k \in Key : Hash[k] \in Int
  <2>1. n \in Int /\ \A k \in Key : Hash[k] \in Int
    BY HashAssumption DEF Bucket
  <2>2. a \in Seq(Stored) /\ w \in Seq(Stored)
    BY DEF Buckets, WalkOk
  <2> QED
    BY <2>1, <2>2
<1>2. /\ u \in Seq(Stored) /\ DOMAIN u = 1..(Len(a) + Len(w))
      /\ \A i \in 1..Len(a) : u[i] = a[i]
      /\ \A i \in 1..Len(w) : u[Len(a) + i] = w[i]
  BY <1>1
<1>3. /\ \A i \in DOMAIN a : /\ Hash[a[i].key] = n
                              /\ a[i].value = ValueIn(a, a[i].key)
      /\ \A i, j \in DOMAIN a : a[i].key = a[j].key => i = j
      /\ \A k : ValueIn(a, k) # <<>> => \E i \in DOMAIN a : a[i].key = k
  BY ValueOfPair, ValueIs, ZenonT(60) DEF BucketOk
<1>4. /\ \A i \in DOMAIN w : /\ Hash[w[i].key] >= n + 1
                              /\ w[i].value = ValueIn(bs[Hash[w[i].key]], w[i].key)
      /\ \A i, j \in DOMAIN w : w[i].key = w[j].key => i = j
      /\ \A k \in Key : Hash[k] >= n + 1 /\ ValueIn(bs[Hash[k]], k) # <<>> =>
                          \E i \in DOMAIN w : w[i].key = k
  BY DEF WalkOk
<1>5. \A i \in DOMAIN u :
         \/ (i \in DOMAIN a /\ u[i] = a[i])
         \/ (i - Len(a) \in DOMAIN w /\ u[i] = w[i - Len(a)] /\ i \notin DOMAIN a)
  <2> SUFFICES ASSUME NEW i \in DOMAIN u, i \notin DOMAIN a
               PROVE  i - Len(a) \in DOMAIN w /\ u[i] = w[i - Len(a)]
    BY <1>1, <1>2
  <2>1. i - Len(a) \in 1..Len(w) /\ Len(a) + (i - Len(a)) = i
    BY <1>1, <1>2
  <2> QED
    BY <1>1, <1>2, <2>1
<1>6. \A i \in DOMAIN w : Hash[w[i].key] \in Int /\ Hash[w[i].key] # n
  <2> SUFFICES ASSUME NEW i \in DOMAIN w PROVE Hash[w[i].key] \in Int /\ Hash[w[i].key] # n
    OBVIOUS
  <2>1. w[i] \in Stored
    BY <1>1
  <2>2. Hash[w[i].key] \in Int
    BY <1>1, <2>1 DEF Stored
  <2> QED
    BY <1>1, <1>4, <2>2
<1> HIDE DEF a, u
<1>7. \A i \in DOMAIN u :
         Hash[u[i].key] >= n /\ u[i].value = ValueIn(bs[Hash[u[i].key]], u[i].key)
  BY <1>1, <1>3, <1>4, <1>5, <1>6, SMTT(30) DEF a
<1>8. ASSUME NEW i \in DOMAIN u, NEW j \in DOMAIN u, u[i].key = u[j].key PROVE i = j
  <2>1. CASE i \in DOMAIN a /\ j \in DOMAIN a
    BY <1>3, <1>5, <1>8, <2>1
  <2>2. CASE i \notin DOMAIN a /\ j \notin DOMAIN a
    <3>1. i - Len(a) = j - Len(a)
      BY <1>4, <1>5, <1>8, <2>2
    <3> QED
      BY <1>1, <1>2, <3>1
  <2>3. CASE i \in DOMAIN a /\ j \notin DOMAIN a
    BY <1>3, <1>5, <1>6, <1>8, <2>3
  <2>4. CASE i \notin DOMAIN a /\ j \in DOMAIN a
    BY <1>3, <1>5, <1>6, <1>8, <2>4
  <2> QED
    BY <2>1, <2>2, <2>3, <2>4
<1>9. ASSUME NEW k \in Key, Hash[k] >= n, ValueIn(bs[Hash[k]], k) # <<>>
      PROVE  \E i \in DOMAIN u : u[i].key = k
  <2>1. CASE Hash[k] = n
    <3>1. PICK i \in DOMAIN a : a[i].key = k
      BY <1>3, <1>9, <2>1 DEF a
    <3>2. i \in DOMAIN u /\ u[i] = a[i]
      BY <1>1, <1>2, <3>1
    <3> QED
      BY <3>1, <3>2
  <2>2. CASE Hash[k] # n
    <3>1. Hash[k] >= n + 1
      BY <1>1, <1>9, <2>2
    <3>2. PICK i \in DOMAIN w : w[i].key = k
      BY <1>4, <1>9, <3>1
    <3>3. Len(a) + i \in DOMAIN u /\ u[Len(a) + i] = w[i]
      BY <1>1, <1>2, <3>2
    <3> QED
      BY <3>2, <3>3
  <2> QED
    BY <2>1, <2>2
<1>10. WalkOk(u, bs, n)
  BY <1>2, <1>7, <1>8, <1>9 DEF WalkOk
<1> QED
  BY <1>10 DEF a, u

(* The walk of dino_strmap_get_count and dino_strmap_enum. *)
LEMMA WholeWalk ==
  ASSUME buckets \in Buckets, \A b \in Bucket : BucketOk(buckets[b], b)
  PROVE  WalkOk(WalkFrom[0], buckets, 0)
<1> DEFINE S == {n \in 0..Capacity : WalkOk(WalkFrom[n], buckets, n)}
<1>1. Capacity \in Nat /\ \A k \in Key : Hash[k] \in Nat /\ Hash[k] < Capacity
  BY HashAssumption DEF Bucket
<1>2. Capacity \in S
  <2>1. WalkFrom[Capacity] = <<>>
    BY <1>1, WalkFromIs
  <2>2. WalkOk(<<>>, buckets, Capacity)
    BY <1>1 DEF WalkOk
  <2> QED
    BY <1>1, <2>1, <2>2
<1>3. ASSUME NEW n \in 0..(Capacity - 1), n + 1 \in S PROVE n \in S
  <2>1. n \in Bucket /\ n \in 0..Capacity /\ n # Capacity
    BY <1>1 DEF Bucket
  <2>2. WalkFrom[n] = buckets[n] \o WalkFrom[n + 1]
    BY <2>1, WalkFromIs
  <2>3. WalkOk(WalkFrom[n + 1], buckets, n + 1)
    BY <1>3
  <2>4. WalkOk(buckets[n] \o WalkFrom[n + 1], buckets, n)
    BY <2>1, <2>3, WalkGrows
  <2> QED
    BY <2>1, <2>2, <2>4
<1> HIDE DEF S
<1>4. \A n \in 0..Capacity : n \in S
  BY <1>1, <1>2, <1>3, DownToZero
<1> QED
  BY <1>1, <1>4 DEF S

-----------------------------------------------------------------------------
(* The inductive invariant: every bucket is in order, and the blocks in use   *)
(* are those dino_strmap_delete would free.                                    *)
MapInv ==
    /\ buckets \in Buckets
    /\ \A b \in Bucket : BucketOk(buckets[b], b)
    /\ deleted \in BOOLEAN
    /\ live = IF deleted THEN 0 ELSE FreedFrom[0]

Content == [k \in Key |-> ValueOf(k)]

LEMMA ContentIs ==
  \A k \in Key : Content[k] = ValueIn(buckets[Hash[k]], k) /\ Content[k] = ValueOf(k)
  BY DEF Content, ValueOf, ValueIn

LEMMA MapInvInit == Init => MapInv
<1> SUFFICES ASSUME Init PROVE MapInv
  OBVIOUS
<1>1. buckets = [i \in Bucket |-> <<>>] /\ deleted = FALSE /\ live = 2 /\ Capacity \in Nat
  BY HashAssumption DEF Init
<1>2. buckets \in Buckets /\ \A b \in Bucket : BucketOk(buckets[b], b)
  BY <1>1 DEF Buckets, BucketOk
<1>3. Frees(FreedFrom, buckets)
  BY <1>2, FreedNow
<1> DEFINE S == {n \in 0..Capacity : FreedFrom[n] = 2}
<1>4. Capacity \in S
  BY <1>1, <1>3 DEF Frees
<1>5. ASSUME NEW n \in 0..(Capacity - 1), n + 1 \in S PROVE n \in S
  <2>1. n \in Bucket /\ n \in 0..Capacity /\ n # Capacity
    BY <1>1 DEF Bucket
  <2>2. BlocksIn(buckets[n]) = 0
    BY <1>1, <2>1 DEF BlocksIn
  <2>3. FreedFrom[n] = BlocksIn(buckets[n]) + FreedFrom[n + 1]
    BY <1>3, <2>1 DEF Frees
  <2> QED
    BY <1>5, <2>1, <2>2, <2>3
<1> HIDE DEF S
<1>6. \A n \in 0..Capacity : n \in S
  BY <1>1, <1>4, <1>5, DownToZero
<1>7. FreedFrom[0] = 2
  BY <1>1, <1>6 DEF S
<1> QED
  BY <1>1, <1>2, <1>7 DEF MapInv

(* One bucket changes, and the blocks in use with it. *)
LEMMA BucketChanges ==
  ASSUME MapInv, ~ deleted, NEW k \in Key, NEW new, BucketOk(new, Hash[k]),
         BucketSet(buckets', buckets, Hash[k], new), deleted' = deleted,
         live' = live + BlocksIn(new) - BlocksIn(buckets[Hash[k]])
  PROVE  MapInv'
<1>1. Hash[k] \in Bucket /\ 0 \in 0..Capacity
  BY HashAssumption DEF Bucket
<1>2. new \in Seq(Stored) /\ buckets \in Buckets /\ buckets' \in Buckets
  BY <1>1 DEF BucketOk, MapInv, Buckets, BucketSet
<1>3. \A b \in Bucket : BucketOk(buckets'[b], b)
  BY <1>1, <1>2 DEF MapInv, Buckets, BucketSet
<1>4. FreedFrom'[0] = FreedFrom[0] + BlocksIn(new) - BlocksIn(buckets[Hash[k]])
  <2>1. PICK f : f = FreedFrom /\ Frees(f, buckets)
    BY <1>2, FreedNow
  <2>2. PICK g : g = FreedFrom' /\ Frees(g, buckets')
    BY <1>2, FreedThen
  <2>3. PICK h \in Bucket : h = Hash[k]
    BY <1>1
  <2>4. BucketSet(buckets', buckets, h, new)
    BY <2>3
  <2>5. g[0] = f[0] + BlocksIn(new) - BlocksIn(buckets[h])
    BY <1>2, <2>1, <2>2, <2>4, FreesChange
  <2> QED
    BY <2>1, <2>2, <2>3, <2>5
<1> QED
  BY <1>2, <1>3, <1>4 DEF MapInv

LEMMA ContentChanges ==
  ASSUME buckets \in Buckets, NEW k \in Key, NEW new, NEW value,
         HoldsFor(new, buckets[Hash[k]], k, value), BucketSet(buckets', buckets, Hash[k], new)
  PROVE  Content' = [Content EXCEPT ![k] = value]
<1>1. \A d \in Key : Hash[d] \in Bucket /\ DOMAIN buckets = Bucket
  BY HashAssumption DEF Buckets
<1>2. \A d \in Key : ValueOf(d)' = ValueIn(buckets'[Hash[d]], d) /\ ValueOf(d) = ValueIn(buckets[Hash[d]], d)
  BY DEF ValueOf, ValueIn
<1>3. \A d \in Key : ValueOf(d)' = IF d = k THEN value ELSE ValueOf(d)
  BY <1>1, <1>2 DEF HoldsFor, BucketSet
<1> QED
  BY <1>3 DEF Content

(* dino_strmap_put, whatever memory it finds. *)
LEMMA PutStep ==
  ASSUME MapInv, ~ deleted, NEW op, NEW k \in Key, NEW value \in Seq(Text) \ {<<>>},
         NEW room \in 0..3, put(op, k, value, room), deleted' = deleted
  PROVE  /\ MapInv'
         /\ \/ answer' = [op |-> op, ok |-> FALSE] /\ Content' = Content
            \/ answer' = [op |-> op, ok |-> TRUE] /\ Content' = [Content EXCEPT ![k] = value]
<1>1. PICK h \in Bucket : h = Hash[k]
  BY HashAssumption
<1>2. PICK bucket : bucket = buckets[h]
  OBVIOUS
<1>3. PICK j : j = get_pair(bucket, k)
  OBVIOUS
<1>4. /\ BucketOk(bucket, h) /\ buckets \in Buckets /\ Len(bucket) \in Nat /\ live \in Nat
  <2>1. Frees(FreedFrom, buckets) /\ 0 \in 0..Capacity
    BY FreedNow, HashAssumption DEF MapInv
  <2>2. BucketOk(bucket, h) /\ buckets \in Buckets
    BY <1>2 DEF MapInv
  <2> QED
    BY <2>1, <2>2 DEF MapInv, BucketOk, Frees
<1>5. \/ (UNCHANGED <<buckets, live>> /\ answer' = [op |-> op, ok |-> FALSE])
      \/ /\ j # 0 /\ answer' = [op |-> op, ok |-> TRUE] /\ live' = live
         /\ buckets' = [buckets EXCEPT ![h] = [bucket EXCEPT ![j].value = value]]
      \/ /\ j = 0 /\ answer' = [op |-> op, ok |-> TRUE]
         /\ buckets' = [buckets EXCEPT ![h] = Append(bucket, [key |-> k, value |-> value])]
         /\ live' = live + (IF bucket = <<>> THEN 3 ELSE 2)
  <2>1. CASE ReplaceValue(op, k, value, room)
    BY <1>1, <1>2, <1>3, <2>1 DEF ReplaceValue, Found
  <2>2. CASE AddPair(op, k, value, room)
    BY <1>1, <1>2, <1>3, <1>4, <2>2 DEF AddPair, Found, Released
  <2> QED
    BY <2>1, <2>2 DEF put
<1>6. CASE UNCHANGED <<buckets, live>> /\ answer' = [op |-> op, ok |-> FALSE]
  <2>1. MapInv' /\ Content' = Content
    BY <1>6 DEF MapInv, FreedFrom, BlocksOf, Content, ValueOf
  <2> QED
    BY <1>6, <2>1
<1>7. CASE /\ j # 0 /\ answer' = [op |-> op, ok |-> TRUE] /\ live' = live
           /\ buckets' = [buckets EXCEPT ![h] = [bucket EXCEPT ![j].value = value]]
  <2>1. PICK new : new = [bucket EXCEPT ![j].value = value] /\ ValueReplaced(new, bucket, j, value)
    BY DEF ValueReplaced
  <2>2. /\ BucketOk(new, h) /\ Len(new) = Len(bucket) /\ (new = <<>> <=> bucket = <<>>)
        /\ HoldsFor(new, bucket, k, value)
    BY <1>3, <1>4, <1>7, <2>1, Replaced
  <2>3. BucketSet(buckets', buckets, Hash[k], new)
    BY <1>1, <1>7, <2>1 DEF BucketSet
  <2>4. live' = live + BlocksIn(new) - BlocksIn(bucket)
    <3>1. BlocksIn(new) = BlocksIn(bucket) /\ BlocksIn(bucket) \in Nat
      BY <1>4, <2>2 DEF BlocksIn
    <3>2. live' = live
      BY <1>7
    <3> QED
      BY <1>4, <3>1, <3>2
  <2>5. MapInv'
    BY <1>1, <1>2, <2>2, <2>3, <2>4, BucketChanges
  <2>6. Content' = [Content EXCEPT ![k] = value]
    BY <1>1, <1>2, <1>4, <2>2, <2>3, ContentChanges
  <2> QED
    BY <1>7, <2>5, <2>6
<1>8. CASE /\ j = 0 /\ answer' = [op |-> op, ok |-> TRUE]
           /\ buckets' = [buckets EXCEPT ![h] = Append(bucket, [key |-> k, value |-> value])]
           /\ live' = live + (IF bucket = <<>> THEN 3 ELSE 2)
  <2>1. PICK new : /\ new = Append(bucket, [key |-> k, value |-> value])
                   /\ PairAdded(new, bucket, k, value)
    BY DEF PairAdded
  <2>2. /\ BucketOk(new, h) /\ Len(new) = Len(bucket) + 1 /\ new # <<>>
        /\ HoldsFor(new, bucket, k, value)
    <3>1. Hash[k] = h /\ get_pair(bucket, k) = 0 /\ BucketOk(bucket, h)
      BY <1>1, <1>3, <1>4, <1>8
    <3>2. PairAdded(new, bucket, k, value)
      BY <2>1
    <3> QED
      BY <3>1, <3>2, Added
  <2>3. BucketSet(buckets', buckets, Hash[k], new)
    BY <1>1, <1>8, <2>1 DEF BucketSet
  <2>4. live' = live + BlocksIn(new) - BlocksIn(bucket)
    <3>1. bucket = <<>> => Len(bucket) = 0
      OBVIOUS
    <3> QED
      BY <1>4, <1>8, <2>2, <3>1 DEF BlocksIn
  <2>5. MapInv'
    BY <1>1, <1>2, <2>2, <2>3, <2>4, BucketChanges
  <2>6. Content' = [Content EXCEPT ![k] = value]
    BY <1>1, <1>2, <1>4, <2>2, <2>3, ContentChanges
  <2> QED
    BY <1>8, <2>5, <2>6
<1> QED
  BY <1>5, <1>6, <1>7, <1>8

-----------------------------------------------------------------------------
(* Every call keeps the invariant and does what Params says of it.           *)

LEMMA FoundIs ==
  ASSUME MapInv, NEW k \in Key
  PROVE  /\ Found(k) <=> Content[k] # <<>>
         /\ Content[k] \in Seq(Text)
         /\ Content[k] = ValueOf(k)
<1>1. Hash[k] \in Bucket
  BY HashAssumption
<1>2. PICK bucket : bucket = buckets[Hash[k]] /\ BucketOk(bucket, Hash[k])
  BY <1>1 DEF MapInv
<1>3. Found(k) <=> ValueIn(bucket, k) # <<>>
  BY <1>2, ValueIs DEF Found
<1>4. ValueIn(bucket, k) \in Seq(Text)
  <2>1. CASE \E j \in DOMAIN bucket : bucket[j].key = k
    <3>1. PICK j \in DOMAIN bucket : bucket[j].key = k
      BY <2>1
    <3>2. ValueIn(bucket, k) = bucket[j].value
      BY <1>2, <3>1, ValueIs
    <3>3. bucket[j] \in Stored
      BY <1>2 DEF BucketOk
    <3> QED
      BY <3>2, <3>3 DEF Stored
  <2>2. CASE \A j \in DOMAIN bucket : bucket[j].key # k
    <3>1. ValueIn(bucket, k) = <<>>
      BY <1>2, <2>2, ValueIs
    <3> QED
      BY <3>1
  <2> QED
    BY <2>1, <2>2
<1> QED
  BY <1>2, <1>3, <1>4, ContentIs

(* A call that only reads. *)
LEMMA Unchanged ==
  ASSUME MapInv, UNCHANGED <<buckets, deleted, live>>
  PROVE  MapInv' /\ Content' = Content
  BY DEF MapInv, FreedFrom, BlocksOf, Content, ValueOf

LEMMA PutCall ==
  ASSUME MapInv, NEW k \in Key, NEW v \in Text, NEW room \in 0..3, dino_strmap_put(k, v, room)
  PROVE  MapInv' /\ P!PutValue(k, v)
<1>1. <<v>> \in Seq(Text) \ {<<>>}
  OBVIOUS
<1>2. ~ deleted /\ deleted' = deleted /\ put("put", k, <<v>>, room)
  BY DEF dino_strmap_put
<1>3. /\ MapInv'
      /\ \/ answer' = [op |-> "put", ok |-> FALSE] /\ Content' = Content
         \/ answer' = [op |-> "put", ok |-> TRUE] /\ Content' = [Content EXCEPT ![k] = <<v>>]
  BY <1>1, <1>2, PutStep
<1> QED
  BY <1>3 DEF P!PutValue, P!Refused, Content

LEMMA AddCall ==
  ASSUME MapInv, NEW k \in Key, NEW v \in Text, NEW room \in 0..3, dino_strmap_add(k, v, room)
  PROVE  MapInv' /\ P!AddValue(k, v)
<1>1. CASE v \in Blank
  <2>1. answer' = [op |-> "add", ok |-> TRUE] /\ UNCHANGED <<buckets, deleted, live>>
    BY <1>1 DEF dino_strmap_add
  <2>2. MapInv' /\ Content' = Content
    BY <2>1, Unchanged
  <2> QED
    BY <1>1, <2>1, <2>2 DEF P!AddValue, Content
<1>2. CASE v \notin Blank
  <2>1. PICK value : value = IF Found(k) THEN Append(ValueOf(k), Trim[v]) ELSE <<v>>
    OBVIOUS
  <2>2. ~ deleted /\ deleted' = deleted /\ put("add", k, value, room)
    BY <1>2, <2>1 DEF dino_strmap_add, Joined
  <2>3. value = IF Content[k] # <<>> THEN Append(Content[k], Trim[v]) ELSE <<v>>
    BY <2>1, FoundIs
  <2>4. value \in Seq(Text) \ {<<>>}
    <3>1. Trim[v] \in Text /\ Content[k] \in Seq(Text)
      BY FoundIs, TextAssumption
    <3>2. Append(Content[k], Trim[v]) \in Seq(Text) \ {<<>>}
      BY <3>1
    <3> QED
      BY <2>3, <3>2
  <2>5. /\ MapInv'
        /\ \/ answer' = [op |-> "add", ok |-> FALSE] /\ Content' = Content
           \/ answer' = [op |-> "add", ok |-> TRUE] /\ Content' = [Content EXCEPT ![k] = value]
    BY <2>2, <2>4, PutStep
  <2> QED
    BY <1>2, <2>3, <2>5 DEF P!AddValue, P!Refused, P!Given, Content
<1> QED
  BY <1>1, <1>2

LEMMA GetCall ==
  ASSUME MapInv, NEW k \in Key, dino_strmap_get_value(k)
  PROVE  MapInv' /\ P!GetValue(k)
<1>1. answer' = [op |-> "get", value |-> Content[k]] /\ UNCHANGED <<buckets, deleted, live>>
  BY FoundIs DEF dino_strmap_get_value
<1>2. MapInv' /\ Content' = Content
  BY <1>1, Unchanged
<1> QED
  BY <1>1, <1>2 DEF P!GetValue, Content

LEMMA CopyCall ==
  ASSUME MapInv, NEW k \in Key, NEW given \in BOOLEAN, NEW n \in 0..(MaxJoined + 1),
         dino_strmap_get(k, given, n)
  PROVE  MapInv' /\ P!CopyValue(k)
<1> DEFINE Answer(ok, copy) == [op |-> "copy", given |-> given, n |-> n, ok |-> ok, value |-> copy]
<1>1. PICK value \in Seq(Text) : value = ValueOf(k) /\ value = Content[k] /\ (Found(k) <=> value # <<>>)
  BY FoundIs
<1>2. /\ answer' = IF value = <<>> THEN Answer(0, <<>>)
                   ELSE IF ~ given /\ n = 0 THEN Answer(Len(value) + 1, <<>>)
                   ELSE IF ~ given \/ Len(value) >= n THEN Answer(0, <<>>)
                   ELSE Answer(1, value)
      /\ UNCHANGED <<buckets, deleted, live>>
  BY <1>1 DEF dino_strmap_get
<1>3. MapInv' /\ Content' = Content
  BY <1>2, Unchanged
<1>4. Len(value) \in Nat /\ n \in Int
  BY MaxJoinedAssumption
<1>5. /\ answer'.op = "copy" /\ answer'.given = given /\ answer'.n = n
      /\ answer'.ok = IF value # <<>> /\ ~ given /\ n = 0 THEN Len(value) + 1
                      ELSE IF value # <<>> /\ given /\ Len(value) + 1 <= n THEN 1 ELSE 0
      /\ answer'.value = IF value # <<>> /\ given /\ Len(value) + 1 <= n THEN value ELSE <<>>
  <2>1. Len(value) >= n <=> ~ (Len(value) + 1 <= n)
    BY <1>4
  <2> QED
    BY <1>2, <2>1
<1>6. k \in P!Given <=> value # <<>>
  BY <1>1 DEF P!Given, Content
<1> QED
  BY <1>1, <1>3, <1>5, <1>6 DEF P!CopyValue, Content

(* The walk hands over every name given, once, with its value. *)
LEMMA WalkIs ==
  ASSUME MapInv, NEW w, w = WalkFrom[0]
  PROVE  /\ w \in Seq(Stored)
         /\ \A i \in DOMAIN w : w[i].key \in P!Given /\ w[i].value = Content[w[i].key]
         /\ \A i, j \in DOMAIN w : w[i].key = w[j].key => i = j
         /\ \A k \in P!Given : \E i \in DOMAIN w : w[i].key = k
<1>1. WalkOk(w, buckets, 0)
  BY WholeWalk DEF MapInv
<1>2. \A k \in Key : Hash[k] >= 0
  BY HashAssumption DEF Bucket
<1>3. P!Given = {k \in Key : Content[k] # <<>>}
  BY DEF P!Given, Content
<1>4. ASSUME NEW i \in DOMAIN w PROVE w[i].key \in P!Given /\ w[i].value = Content[w[i].key]
  <2>1. w[i].key \in Key /\ w[i].value # <<>>
    <3>1. w \in Seq(Stored)
      BY <1>1 DEF WalkOk
    <3>2. w[i] \in Stored
      BY <1>4, <3>1
    <3> QED
      BY <3>2 DEF Stored
  <2>2. w[i].value = Content[w[i].key]
    BY <1>1, <1>4, <2>1, ContentIs DEF WalkOk
  <2> QED
    BY <1>3, <2>1, <2>2
<1>5. ASSUME NEW k \in P!Given PROVE \E i \in DOMAIN w : w[i].key = k
  <2>1. k \in Key /\ ValueIn(buckets[Hash[k]], k) # <<>>
    BY <1>3, ContentIs
  <2> QED
    BY <1>1, <1>2, <2>1 DEF WalkOk
<1> QED
  BY <1>1, <1>4, <1>5 DEF WalkOk

LEMMA CountCall ==
  ASSUME MapInv, dino_strmap_get_count
  PROVE  MapInv' /\ P!Count
<1>1. answer' = [op |-> "count", n |-> Len(WalkFrom[0])] /\ UNCHANGED <<buckets, deleted, live>>
  BY DEF dino_strmap_get_count
<1>2. MapInv' /\ Content' = Content
  BY <1>1, Unchanged
<1>3. PICK w : w = WalkFrom[0]
  OBVIOUS
<1>4. PICK G : G = P!Given
  OBVIOUS
<1>5. /\ w \in Seq(Stored)
      /\ \A i \in DOMAIN w : w[i].key \in G
      /\ \A i, j \in DOMAIN w : w[i].key = w[j].key => i = j
      /\ \A k \in G : \E i \in DOMAIN w : w[i].key = k
  BY <1>3, <1>4, WalkIs
<1>6. Len(w) \in Nat /\ DOMAIN w = 1..Len(w)
  BY <1>5
<1> DEFINE at == [i \in 1..Len(w) |-> w[i].key]
<1>7. at \in Bijection(1..Len(w), G)
  <2>1. at \in [1..Len(w) -> G]
    BY <1>5, <1>6
  <2>2. \A i, j \in 1..Len(w) : at[i] = at[j] => i = j
    BY <1>5, <1>6
  <2>3. \A k \in G : \E i \in 1..Len(w) : at[i] = k
    BY <1>5, <1>6
  <2> HIDE DEF at
  <2> QED
    BY <2>1, <2>2, <2>3 DEF Bijection, Injection, Surjection, IsInjective
<1>8. Cardinality(G) = Len(w)
  BY <1>6, <1>7, FS_CountingElements DEF ExistsBijection
<1>9. P!Cardinality(G) = Cardinality(G)
  BY DEF P!Cardinality, Cardinality
<1> QED
  BY <1>1, <1>2, <1>3, <1>4, <1>8, <1>9 DEF P!Count, Content

(* What the callback is handed is the walk, or the walk up to the name it     *)
(* stops at.                                                                   *)
LEMMA EnumCall ==
  ASSUME MapInv, NEW stops \in Key, dino_strmap_enum(stops)
  PROVE  MapInv' /\ P!Enumerate(stops)
<1>1. PICK w : w = WalkFrom[0]
  OBVIOUS
<1> DEFINE hits == {i \in DOMAIN w : w[i].key = stops}
<1>2. /\ answer' = [op |-> "enum",
                    calls |-> IF hits = {} THEN w
                              ELSE SubSeq(w, 1, CHOOSE i \in hits : \A h \in hits : i <= h)]
      /\ UNCHANGED <<buckets, deleted, live>>
  BY <1>1 DEF dino_strmap_enum
<1>3. MapInv' /\ Content' = Content
  BY <1>2, Unchanged
<1>4. /\ w \in Seq(Stored)
      /\ \A i \in DOMAIN w : w[i].key \in P!Given /\ w[i].value = Content[w[i].key]
      /\ \A i, j \in DOMAIN w : w[i].key = w[j].key => i = j
      /\ \A k \in P!Given : \E i \in DOMAIN w : w[i].key = k
  BY <1>1, WalkIs
<1>5. Len(w) \in Nat /\ DOMAIN w = 1..Len(w)
  BY <1>4
<1>6. PICK calls : calls = answer'.calls
  OBVIOUS
<1>7. answer' = [op |-> "enum", calls |-> calls] /\ answer'.op = "enum"
  BY <1>2, <1>6
<1>8. CASE hits = {}
  <2>1. calls = w
    BY <1>2, <1>6, <1>8
  <2>2. {calls[i].key : i \in DOMAIN calls} = P!Given
    BY <1>4, <2>1
  <2>3. P!Enumerates(calls)
    BY <1>4, <2>1 DEF P!Enumerates, Content
  <2> QED
    BY <1>3, <1>6, <1>7, <2>2, <2>3 DEF P!Enumerate, Content
<1>9. CASE hits # {}
  <2>1. PICK m \in DOMAIN w : w[m].key = stops /\ hits = {m}
    BY <1>4, <1>9
  <2>2. (CHOOSE i \in hits : \A h \in hits : i <= h) = m
    BY <1>5, <2>1
  <2>3. calls = SubSeq(w, 1, m)
    BY <1>2, <1>6, <1>9, <2>2
  <2>4. /\ DOMAIN calls = 1..m /\ Len(calls) = m /\ m \in DOMAIN w /\ 1..m \subseteq DOMAIN w
        /\ \A i \in 1..m : calls[i] = w[i]
    BY <1>4, <1>5, <2>1, <2>3
  <2>5. calls # <<>> /\ calls[Len(calls)].key = stops
    BY <1>5, <2>1, <2>4
  <2>6. P!Enumerates(calls)
    BY <1>4, <2>4 DEF P!Enumerates, Content
  <2> QED
    BY <1>3, <1>6, <1>7, <2>5, <2>6 DEF P!Enumerate, Content
<1> QED
  BY <1>8, <1>9

(* To a reader of the parameters, freeing the map is no step. *)
LEMMA DeleteCall ==
  ASSUME MapInv, dino_strmap_delete
  PROVE  MapInv' /\ Content' = Content /\ answer' = answer
<1>1. 0 \in 0..Capacity /\ FreedFrom[0] \in Nat
  BY FreedNow, HashAssumption DEF MapInv, Frees
<1>2. ~ deleted /\ deleted' = TRUE /\ live' = FreedFrom[0] - FreedFrom[0] /\ UNCHANGED <<buckets, answer>>
  BY DEF dino_strmap_delete, MapInv
<1>3. live' = 0
  BY <1>1, <1>2
<1> QED
  BY <1>2, <1>3 DEF MapInv, Content, ValueOf

-----------------------------------------------------------------------------
LEMMA MapStep ==
  ASSUME MapInv, [Next]_vars
  PROVE  MapInv' /\ [P!ParamsNext]_<<Content, answer>>
<1>1. ASSUME NEW k \in Key, NEW v \in Text, NEW room \in 0..3, dino_strmap_add(k, v, room)
      PROVE  MapInv' /\ P!ParamsNext
  BY <1>1, AddCall DEF P!ParamsNext
<1>2. ASSUME NEW k \in Key, NEW v \in Text, NEW room \in 0..3, dino_strmap_put(k, v, room)
      PROVE  MapInv' /\ P!ParamsNext
  BY <1>2, PutCall DEF P!ParamsNext
<1>3. ASSUME NEW k \in Key, dino_strmap_get_value(k)
      PROVE  MapInv' /\ P!ParamsNext
  BY <1>3, GetCall DEF P!ParamsNext
<1>4. ASSUME NEW k \in Key, dino_strmap_enum(k)
      PROVE  MapInv' /\ P!ParamsNext
  BY <1>4, EnumCall DEF P!ParamsNext
<1>5. ASSUME NEW k \in Key, NEW given \in BOOLEAN, NEW n \in 0..(MaxJoined + 1),
             dino_strmap_get(k, given, n)
      PROVE  MapInv' /\ P!ParamsNext
  BY <1>5, CopyCall DEF P!ParamsNext
<1>6. CASE dino_strmap_get_count
  BY <1>6, CountCall DEF P!ParamsNext
<1>7. CASE dino_strmap_delete
  BY <1>7, DeleteCall
<1>8. CASE UNCHANGED vars
  <2>1. UNCHANGED <<buckets, deleted, live>> /\ answer' = answer
    BY <1>8 DEF vars
  <2> QED
    BY <2>1, Unchanged
<1> QED
  BY <1>1, <1>2, <1>3, <1>4, <1>5, <1>6, <1>7, <1>8 DEF Next

(* In every state a call can leave the map in, its buckets are in order and   *)
(* the blocks it holds are those dino_strmap_delete frees.                     *)
THEOREM MapInvHolds == Spec => []MapInv
<1>1. MapInv /\ [Next]_vars => MapInv'
  BY MapStep
<1> QED
  BY MapInvInit, <1>1, PTL DEF Spec

(* dino_strmap.c keeps pairs in its buckets, and never frees more blocks than *)
(* it took.                                                                    *)
THEOREM MapTypeCorrect == Spec => []TypeOK
<1>1. MapInv => TypeOK
  <2> SUFFICES ASSUME MapInv PROVE TypeOK
    OBVIOUS
  <2>1. 0 \in 0..Capacity /\ FreedFrom[0] \in Nat
    BY FreedNow, HashAssumption DEF MapInv, Frees
  <2> QED
    BY <2>1 DEF MapInv, TypeOK, Buckets, Stored
<1> QED
  BY MapInvHolds, <1>1, PTL

(* dino_strmap_put never stores a name twice, nor in another bucket than the  *)
(* one dino_strmap_get looks in, whatever names share a hash and whatever       *)
(* allocations fail.                                                           *)
THEOREM KeysAreStoredOnce == Spec => []KeysStoredOnce
<1>1. MapInv => KeysStoredOnce
  BY DEF MapInv, KeysStoredOnce, BucketOk
<1> QED
  BY MapInvHolds, <1>1, PTL

(* dino_strmap_delete gives back every block the map has taken, whatever       *)
(* calls came before and whichever of their allocations failed.                *)
THEOREM DeleteGivesAllBack == Spec => []NothingLeftAfterDelete
<1>1. MapInv => NothingLeftAfterDelete
  BY DEF MapInv, NothingLeftAfterDelete
<1> QED
  BY MapInvHolds, <1>1, PTL

(* Every call of dino_strmap.c does what Params promises of it: the buckets,   *)
(* the hash and the growing of the lists cannot be seen through the calls.     *)
THEOREM MapImplementsParams == Spec => ImplementsParams
<1>1. Init => P!ParamsInit
  <2> SUFFICES ASSUME Init PROVE P!ParamsInit
    OBVIOUS
  <2>1. ASSUME NEW k \in Key PROVE ValueOf(k) = <<>>
    <3>1. buckets[Hash[k]] = <<>>
      BY HashAssumption DEF Init
    <3>2. get_pair(buckets[Hash[k]], k) = 0
      BY <3>1 DEF get_pair
    <3> QED
      BY <3>2 DEF ValueOf
  <2> QED
    BY <2>1 DEF P!ParamsInit, P!NoAnswer, Init
<1>2. MapInv /\ [Next]_vars => [P!ParamsNext]_<<[k \in Key |-> ValueOf(k)], answer>>
  BY MapStep DEF Content
<1> QED
  BY MapInvHolds, <1>1, <1>2, PTL DEF Spec, ImplementsParams, P!ParamsSpec

=============================================================================
