--------------------------- MODULE RecursionLemmas ---------------------------
(* Going up or down a range of naturals: what the loops of the library, which *)
(* the models write as recursive functions, are reasoned about with.  All of    *)
(* it rests on a set of naturals having a least element.                        *)
EXTENDS Integers, FiniteSetTheorems, WellFoundedInduction, TLAPS

(* A set of naturals that is not empty has a least element. *)
LEMMA LeastOf ==
  ASSUME NEW S \in SUBSET Nat, S # {}
  PROVE  \E k \in S : \A n \in S : k <= n
<1> DEFINE Below(k) == S \cap 0..k
           Cuts == {Below(k) : k \in S}
<1>1. IsWellFoundedOn(StrictSubsetOrdering(Nat), FiniteSubsetsOf(Nat))
  BY FS_StrictSubsetOrderingWellFounded
<1>2. \A k \in S : Below(k) \subseteq Nat /\ IsFiniteSet(Below(k))
  <2> TAKE k \in S
  <2>1. Below(k) \in SUBSET Nat /\ k \in Nat /\ \A n \in Below(k) : n <= k
    OBVIOUS
  <2> QED
    BY <2>1, FS_BoundedSetOfNaturals
<1>3. Cuts \subseteq FiniteSubsetsOf(Nat) /\ Cuts # {}
  BY <1>2 DEF FiniteSubsetsOf
<1>4. PICK X \in Cuts : \A Y \in Cuts : <<Y, X>> \notin StrictSubsetOrdering(Nat)
  BY <1>1, <1>3, WFMin
<1>5. PICK k \in S : X = Below(k)
  OBVIOUS
<1>6. ASSUME NEW n \in S, n < k PROVE FALSE
  <2>1. Below(n) \subseteq Below(k) /\ k \in Below(k) /\ k \notin Below(n)
    BY <1>6
  <2>2. <<Below(n), Below(k)>> \in StrictSubsetOrdering(Nat)
    BY <2>1 DEF StrictSubsetOrdering
  <2> QED
    BY <1>4, <1>5, <2>2
<1> QED
  BY <1>6

(* Going down from C, every number is reached. *)
LEMMA DownToZero ==
  ASSUME NEW C \in Nat, NEW S, C \in S, \A n \in 0..(C - 1) : n + 1 \in S => n \in S
  PROVE  \A n \in 0..C : n \in S
<1> DEFINE B == {m \in 0..C : C - m \notin S}
<1> SUFFICES B = {}
  <2> SUFFICES ASSUME NEW n \in 0..C, n \notin S, B = {} PROVE FALSE
    OBVIOUS
  <2>1. C - n \in 0..C /\ C - (C - n) = n
    OBVIOUS
  <2>2. C - n \in B
    BY <2>1
  <2> QED
    BY <2>2
<1> SUFFICES ASSUME B # {} PROVE FALSE
  OBVIOUS
<1>1. PICK m \in B : \A n \in B : m <= n
  <2>1. B \in SUBSET Nat
    OBVIOUS
  <2> HIDE DEF B
  <2> QED
    BY <2>1, LeastOf
<1>2. m # 0 /\ m - 1 \in 0..C
  BY C - 0 = C
<1>3. m - 1 \notin B
  BY <1>1
<1>4. C - (m - 1) \in S /\ C - m \in 0..(C - 1) /\ C - (m - 1) = (C - m) + 1
  BY <1>2, <1>3
<1> QED
  BY <1>4

(* A function that is given at C, and below by its value one place above. *)
Descends(f, C, z, step) == \A n \in 0..C : f[n] = IF n = C THEN z ELSE step[n][f[n + 1]]

LEMMA DownwardRecursion ==
  ASSUME NEW C \in Nat, NEW X, NEW z \in X, NEW step \in [0..(C - 1) -> [X -> X]]
  PROVE  \E f \in [0..C -> X] : Descends(f, C, z, step)
<1> DEFINE Good(f, n) ==
             /\ f \in [n..C -> X]
             /\ \A i \in n..C : f[i] = IF i = C THEN z ELSE step[i][f[i + 1]]
           S == {n \in 0..C : \E f : Good(f, n)}
<1>1. C \in S
  <2>1. Good([i \in C..C |-> z], C)
    OBVIOUS
  <2>2. C \in 0..C
    OBVIOUS
  <2> HIDE DEF Good
  <2> QED
    BY <2>1, <2>2
<1>2. ASSUME NEW n \in 0..(C - 1), n + 1 \in S PROVE n \in S
  <2>1. PICK f : Good(f, n + 1)
    BY <1>2
  <2> DEFINE g == [i \in n..C |-> IF i = n THEN step[n][f[n + 1]] ELSE f[i]]
  <2>2. f[n + 1] \in X /\ step[n][f[n + 1]] \in X
    BY <2>1
  <2>3. g \in [n..C -> X]
    BY <2>1, <2>2
  <2>4. ASSUME NEW i \in n..C PROVE g[i] = IF i = C THEN z ELSE step[i][g[i + 1]]
    <3>1. CASE i = n
      BY <3>1
    <3>2. CASE i # n
      <4>1. i \in (n + 1)..C /\ g[i] = f[i] /\ (i # C => g[i + 1] = f[i + 1])
        BY <3>2
      <4> QED
        BY <2>1, <4>1
    <3> QED
      BY <3>1, <3>2
  <2>5. Good(g, n)
    BY <2>3, <2>4
  <2>6. n \in 0..C
    OBVIOUS
  <2> HIDE DEF Good
  <2> QED
    BY <2>5, <2>6
<1> HIDE DEF S
<1>3. 0 \in S
  BY <1>1, <1>2, DownToZero
<1>4. PICK f : Good(f, 0)
  BY <1>3 DEF S
<1> QED
  BY <1>4 DEF Descends

(* Going up from 0, every number is reached. *)
LEMMA UpFromZero ==
  ASSUME NEW C \in Nat, NEW S, 0 \in S, \A n \in 1..C : n - 1 \in S => n \in S
  PROVE  \A n \in 0..C : n \in S
<1> DEFINE B == {m \in 0..C : m \notin S}
<1> SUFFICES ASSUME B # {} PROVE FALSE
  OBVIOUS
<1>1. PICK m \in B : \A n \in B : m <= n
  <2>1. B \in SUBSET Nat
    OBVIOUS
  <2> HIDE DEF B
  <2> QED
    BY <2>1, LeastOf
<1>2. m \in 1..C /\ m - 1 \in 0..C
  OBVIOUS
<1>3. m - 1 \notin B
  BY <1>1, <1>2
<1> QED
  BY <1>2, <1>3

(* A function that is given at 0, and above by its value one place below. *)
Ascends(f, C, z, step) == \A n \in 0..C : f[n] = IF n = 0 THEN z ELSE step[n][f[n - 1]]

LEMMA UpwardRecursion ==
  ASSUME NEW C \in Nat, NEW X, NEW z \in X, NEW step \in [1..C -> [X -> X]]
  PROVE  \E f \in [0..C -> X] : Ascends(f, C, z, step)
<1> DEFINE down == [i \in 0..(C - 1) |-> step[C - i]]
<1>1. down \in [0..(C - 1) -> [X -> X]]
  OBVIOUS
<1>2. \A i \in 0..(C - 1) : down[i] = step[C - i]
  OBVIOUS
<1> HIDE DEF down
<1>3. PICK g \in [0..C -> X] : Descends(g, C, z, down)
  BY <1>1, DownwardRecursion
<1> DEFINE f == [n \in 0..C |-> g[C - n]]
<1>4. f \in [0..C -> X]
  OBVIOUS
<1>5. ASSUME NEW n \in 0..C PROVE f[n] = IF n = 0 THEN z ELSE step[n][f[n - 1]]
  <2>1. CASE n = 0
    BY <1>3, <2>1 DEF Descends
  <2>2. CASE n # 0
    <3>1. C - n \in 0..(C - 1) /\ C - n \in 0..C /\ C - n # C /\ C - (C - n) = n
      BY <2>2
    <3>2. n - 1 \in 0..C /\ (C - n) + 1 = C - (n - 1)
      BY <2>2
    <3>3. g[C - n] = down[C - n][g[(C - n) + 1]]
      BY <1>3, <3>1 DEF Descends
    <3> QED
      BY <1>2, <2>2, <3>1, <3>2, <3>3
  <2> QED
    BY <2>1, <2>2
<1> HIDE DEF f
<1> QED
  BY <1>4, <1>5 DEF Ascends
=============================================================================
