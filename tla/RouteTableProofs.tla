-------------------------- MODULE RouteTableProofs --------------------------
(* For every set of methods, names, paths and URLs and every length of the   *)
(* CONFIG block: what the table holds when the server starts, and that a     *)
(* route once reached by a request is not taken over by a later one.          *)
EXTENDS RouteTable, RecursionLemmas

Route == {NewRoute(l) : l \in RouteLine}

(* The table is the routes of the lines run so far, all of them admissible;  *)
(* the block ends after its last line or at one whose name list_find knows.   *)
TableInv ==
    /\ script \in Seq(RouteLine)
    /\ line \in 1..(Len(script) + 1)
    /\ pc \in {"config", "serving"}
    /\ list = [i \in 1..(line - 1) |-> NewRoute(script[i])]
    /\ Admissible(line - 1)
    /\ pc = "serving" /\ line <= Len(script) => list_find(list, script[line].name)

LEMMA TableInvInit == Init => TableInv
<1> SUFFICES ASSUME Init PROVE TableInv
  OBVIOUS
<1>1. PICK n \in 0..MaxLines : script \in [1..n -> RouteLine]
  BY DEF Init
<1>2. script \in Seq(RouteLine) /\ Len(script) = n
  BY <1>1, MaxLinesAssumption
<1>3. line = 1 /\ pc = "config" /\ list = <<>>
  BY DEF Init
<1>4. list = [i \in 1..(line - 1) |-> NewRoute(script[i])]
  BY <1>3
<1>5. Admissible(line - 1)
  BY <1>3 DEF Admissible
<1> QED
  BY <1>2, <1>3, <1>4, <1>5 DEF TableInv

(* list_find on the table of the first lines, in terms of the lines. *)
LEMMA FindsEarlierLine ==
  ASSUME TableInv, line <= Len(script)
  PROVE  list_find(list, script[line].name) <=>
           \E i \in 1..(line - 1) :
              StartsWith(script[line].name, <<script[i].method>> \o script[i].name)
<1>1. DOMAIN list = 1..(line - 1)
  BY DEF TableInv
<1>2. \A i \in 1..(line - 1) : list[i].name = <<script[i].method>> \o script[i].name
  BY DEF TableInv, NewRoute, PrefixedName
<1> QED
  BY <1>1, <1>2 DEF list_find

LEMMA TableInvStep == TableInv /\ [Next]_vars => TableInv'
<1> SUFFICES ASSUME TableInv, [Next]_vars PROVE TableInv'
  OBVIOUS
<1> USE DEF TableInv
<1>1. CASE add_method_to_site
  <2>1. CASE list_find(list, script[line].name)
    BY <1>1, <2>1 DEF add_method_to_site, Admissible
  <2>2. CASE ~ list_find(list, script[line].name)
    <3>1. /\ list' = Append(list, NewRoute(script[line]))
          /\ line' = line + 1 /\ line <= Len(script)
          /\ script' = script /\ pc' = "config"
      BY <1>1, <2>2 DEF add_method_to_site, list_add_new_item
    <3>2. list' = [i \in 1..(line' - 1) |-> NewRoute(script'[i])]
      BY <3>1
    <3>3. Admissible(line - 1)'
      BY <2>2, <3>1, FindsEarlierLine DEF Admissible
    <3> QED
      BY <3>1, <3>2, <3>3
  <2> QED
    BY <2>1, <2>2
<1>2. CASE DINO_CONFIG_END
  BY <1>2 DEF DINO_CONFIG_END, Admissible
<1>3. ASSUME NEW method \in Method, NEW url \in Url, NEW given \in Given, Dispatch(method, url, given)
      PROVE  TableInv'
  BY <1>3 DEF Dispatch, Admissible
<1>4. CASE UNCHANGED vars
  BY <1>4 DEF vars, Admissible
<1> QED
  BY <1>1, <1>2, <1>3, <1>4 DEF Next

(* TableInv is an invariant of the specification. *)
THEOREM TableInvHolds == Spec => []TableInv
  BY TableInvInit, TableInvStep, PTL DEF Spec

LEMMA TableInvImplies == TableInv => TableIsLongestAdmissiblePrefix
<1> SUFFICES ASSUME TableInv, pc = "serving"
             PROVE  /\ list = [i \in 1..Len(list) |-> NewRoute(script[i])]
                    /\ Len(list) = Max({k \in 0..Len(script) : Admissible(k)})
  BY DEF TableIsLongestAdmissiblePrefix
<1> DEFINE S == {k \in 0..Len(script) : Admissible(k)}
<1>1. line \in Nat /\ line >= 1 /\ Len(script) \in Nat /\ line <= Len(script) + 1
  BY DEF TableInv
<1>2. Len(list) = line - 1
  BY <1>1 DEF TableInv
<1>3. line - 1 \in S
  BY <1>1 DEF TableInv
<1>4. \A k \in S : k <= line - 1
  <2> SUFFICES ASSUME NEW k \in S, k >= line PROVE FALSE
    BY <1>1
  <2>1. line <= Len(script) /\ line \in 1..k
    BY <1>1
  <2>2. PICK i \in 1..(line - 1) :
            StartsWith(script[line].name, <<script[i].method>> \o script[i].name)
    BY <2>1, FindsEarlierLine DEF TableInv
  <2> QED
    BY <2>1, <2>2 DEF Admissible
<1>5. \A m \in S : (\A k \in S : k <= m) => m = line - 1
  BY <1>1, <1>3, <1>4
<1>6. Max(S) = line - 1
  <2>1. Max(S) \in S /\ \A k \in S : k <= Max(S)
    BY <1>3, <1>4 DEF Max
  <2> QED
    BY <2>1, <1>5
<1> QED
  BY <1>2, <1>6 DEF TableInv

(* The table the server starts with is exactly the longest admissible run of *)
(* the block's first lines (add_method_to_site, and the break of the macros). *)
THEOREM TableIsPrefix == Spec => []TableIsLongestAdmissiblePrefix
  BY TableInvHolds, TableInvImplies, PTL

-----------------------------------------------------------------------------
(* A set of naturals that is not empty has its minimum. *)
LEMMA MinOfNats ==
  ASSUME NEW S, S \subseteq Nat, S # {}
  PROVE  Min(S) \in S /\ \A k \in S : Min(S) <= k
<1>1. \E k \in S : \A n \in S : k <= n
  BY LeastOf
<1> QED
  BY <1>1 DEF Min

(* A number above all the elements of a set does not change its minimum. *)
LEMMA MinWithLarger ==
  ASSUME NEW n \in Nat, NEW H, H \subseteq 1..n, H # {}, NEW L, H \subseteq L,
         \A i \in L : i \in H \/ i = n + 1
  PROVE  Min(L) = Min(H)
<1>1. H \subseteq Nat /\ L \subseteq Nat /\ L # {}
  <2>1. \A i \in 1..n : i \in Nat
    OBVIOUS
  <2>2. H \subseteq Nat
    BY <2>1
  <2>3. n + 1 \in Nat
    OBVIOUS
  <2> QED
    BY <2>2, <2>3, Zenon
<1>2. PICK h : h = Min(H)
  OBVIOUS
<1>3. PICK l : l = Min(L)
  OBVIOUS
<1>4. h \in H /\ \A k \in H : h <= k
  BY <1>1, <1>2, MinOfNats
<1>5. l \in L /\ \A k \in L : l <= k
  BY <1>1, <1>3, MinOfNats
<1>6. l = h
  BY <1>1, <1>4, <1>5
<1> QED
  BY <1>2, <1>3, <1>6

(* A route added at the tail leaves the route a request finds as it is. *)
LEMMA AppendKeepsHit ==
  ASSUME NEW T, NEW routes \in Seq(T), NEW route \in T, NEW method, NEW url,
         list_method_find(routes, method, url) # 0
  PROVE  list_method_find(Append(routes, route), method, url)
           = list_method_find(routes, method, url)
<1> DEFINE more  == Append(routes, route)
           hits  == {i \in DOMAIN routes : Serves(routes[i], method, url)}
           later == {i \in DOMAIN more : Serves(more[i], method, url)}
<1>1. hits # {} /\ list_method_find(routes, method, url) = Min(hits)
  BY DEF list_method_find
<1>2. hits \subseteq later /\ \A i \in later : i \in hits \/ i = Len(routes) + 1
  OBVIOUS
<1>3. Len(routes) \in Nat /\ hits \subseteq 1..Len(routes)
  OBVIOUS
<1>4. list_method_find(more, method, url) = Min(later)
  BY <1>1, <1>2 DEF list_method_find
<1> HIDE DEF hits, later
<1>5. Min(later) = Min(hits)
  BY <1>1, <1>2, <1>3, MinWithLarger
<1> QED
  BY <1>1, <1>4, <1>5

(* No later ROUTE line takes a request away from the route that serves it.   *)
THEOREM RoutesAreNotTakenOver == Spec => DispatchStable
<1>1. ASSUME TableInv, [Next]_vars, list' # list, NEW method \in Method, NEW url \in Url,
             list_method_find(list, method, url) # 0
      PROVE  list_method_find(list', method, url) = list_method_find(list, method, url)
  <2>1. list \in Seq(Route)
    BY <1>1 DEF TableInv, Route
  <2>2. add_method_to_site
    BY <1>1 DEF Next, DINO_CONFIG_END, Dispatch, vars
  <2>3. list' = Append(list, NewRoute(script[line])) /\ script[line] \in RouteLine
    BY <1>1, <2>2 DEF add_method_to_site, list_add_new_item, TableInv
  <2> QED
    BY <1>1, <2>1, <2>3, AppendKeepsHit DEF Route
<1>2. TableInv /\ [Next]_vars =>
        [\A method \in Method, url \in Url :
           list_method_find(list, method, url) # 0 =>
             list_method_find(list', method, url) = list_method_find(list, method, url)]_list
  BY <1>1
<1> QED
  BY <1>2, TableInvHolds, PTL DEF Spec, DispatchStable

-----------------------------------------------------------------------------
(* What Picked keeps. *)

(* How many of the places lie up to n. *)
Rank(places, n) == Cardinality(places \cap 1..n)

LEMMA RankIs ==
  ASSUME NEW places, NEW n \in Nat
  PROVE  /\ Rank(places, n) \in Nat
         /\ Rank(places, 0) = 0
         /\ n + 1 \in places => Rank(places, n + 1) = Rank(places, n) + 1
         /\ n + 1 \notin places => Rank(places, n + 1) = Rank(places, n)
         /\ \A i \in places \cap 1..n : Rank(places, i) \in 1..Rank(places, n)
<1> DEFINE upto(m) == places \cap 1..m
<1>1. \A m \in Nat : IsFiniteSet(upto(m)) /\ Cardinality(upto(m)) \in Nat
  <2> TAKE m \in Nat
  <2>1. IsFiniteSet(1..m)
    BY FS_Interval
  <2>2. IsFiniteSet(upto(m))
    BY <2>1, FS_Subset
  <2> QED
    BY <2>2, FS_CardinalityType
<1>2. upto(0) = {}
  OBVIOUS
<1>3. n + 1 \in places => upto(n + 1) = upto(n) \cup {n + 1} /\ n + 1 \notin upto(n)
  OBVIOUS
<1>4. n + 1 \notin places => upto(n + 1) = upto(n)
  OBVIOUS
<1>5. \A i \in upto(n) : i \in Nat /\ i \in upto(i) /\ upto(i) \in SUBSET upto(n)
  OBVIOUS
<1>6. \A m : Rank(places, m) = Cardinality(upto(m))
  BY DEF Rank
<1> HIDE DEF upto
<1>7. n + 1 \in places => Cardinality(upto(n + 1)) = Cardinality(upto(n)) + 1
  BY <1>1, <1>3, FS_AddElement
<1>8. ASSUME NEW i \in upto(n) PROVE Cardinality(upto(i)) \in 1..Cardinality(upto(n))
  <2>1. Cardinality(upto(i)) <= Cardinality(upto(n))
    BY <1>1, <1>5, FS_Subset
  <2>2. Cardinality(upto(i)) # 0
    BY <1>1, <1>5, FS_EmptySet
  <2> QED
    BY <1>1, <1>5, <2>1, <2>2
<1>9. Cardinality(upto(0)) = 0
  BY <1>2, FS_EmptySet
<1>10. n + 1 \notin places => Cardinality(upto(n + 1)) = Cardinality(upto(n))
  BY <1>4
<1>11. places \cap 1..n = upto(n)
  BY DEF upto
<1> QED
  BY <1>1, <1>6, <1>7, <1>8, <1>9, <1>10, <1>11

LEMMA PickedIs ==
  ASSUME NEW T, NEW s \in Seq(T), NEW places, NEW S, \A i \in places \cap 1..Len(s) : s[i] \in S
  PROVE  /\ Picked(s, places) \in Seq(S)
         /\ Len(Picked(s, places)) = Rank(places, Len(s))
         /\ \A i \in places \cap 1..Len(s) : Picked(s, places)[Rank(places, i)] = s[i]
<1> DEFINE L == Len(s)
           Eq(g) == g = [n \in 0..Len(s) |->
                           IF n = 0 THEN <<>>
                           ELSE IF n \in places THEN Append(g[n - 1], s[n]) ELSE g[n - 1]]
           step == [n \in 1..L |-> [x \in Seq(T) |-> IF n \in places THEN Append(x, s[n]) ELSE x]]
<1>1. L \in Nat /\ \A n \in 1..L : s[n] \in T
  OBVIOUS
<1>2. step \in [1..L -> [Seq(T) -> Seq(T)]]
  <2>1. ASSUME NEW n \in 1..L, NEW x \in Seq(T)
        PROVE  (IF n \in places THEN Append(x, s[n]) ELSE x) \in Seq(T)
    BY <1>1
  <2> QED
    BY <2>1
<1>3. \A n \in 1..L, x \in Seq(T) : step[n][x] = IF n \in places THEN Append(x, s[n]) ELSE x
  OBVIOUS
<1> HIDE DEF step
<1>4. PICK f \in [0..L -> Seq(T)] : Ascends(f, L, <<>>, step)
  <2>1. <<>> \in Seq(T)
    OBVIOUS
  <2> QED
    BY <1>1, <1>2, <2>1, UpwardRecursion
<1>5. ASSUME NEW n \in 0..L
      PROVE  f[n] = IF n = 0 THEN <<>>
                    ELSE IF n \in places THEN Append(f[n - 1], s[n]) ELSE f[n - 1]
  <2>1. n # 0 => n \in 1..L /\ f[n - 1] \in Seq(T)
    BY <1>1
  <2> QED
    BY <1>3, <1>4, <2>1 DEF Ascends
<1>6. Eq(f)
  BY <1>5
<1>7. PICK kept : kept = (CHOOSE g : Eq(g)) /\ Picked(s, places) = kept[L]
  BY DEF Picked
<1>8. Eq(kept)
  BY <1>6, <1>7
<1>9. ASSUME NEW n \in 0..L
       PROVE  kept[n] = IF n = 0 THEN <<>>
                        ELSE IF n \in places THEN Append(kept[n - 1], s[n]) ELSE kept[n - 1]
  BY <1>8
<1> HIDE DEF Eq
<1> DEFINE Good(n) == /\ kept[n] \in Seq(S)
                      /\ Len(kept[n]) = Rank(places, n)
                      /\ \A i \in places \cap 1..n : kept[n][Rank(places, i)] = s[i]
           G == {n \in 0..L : Good(n)}
<1>10. 0 \in G
  <2>1. kept[0] = <<>>
    BY <1>1, <1>9
  <2>2. Rank(places, 0) = 0
    BY RankIs
  <2>3. <<>> \in Seq(S) /\ Len(<<>>) = 0 /\ places \cap 1..0 = {} /\ 0 \in 0..L
    BY <1>1
  <2>4. Good(0)
    BY <2>1, <2>2, <2>3
  <2> QED
    BY <2>3, <2>4
<1>11. ASSUME NEW n \in 1..L, n - 1 \in G PROVE n \in G
  <2>1. PICK m \in Nat : m = n - 1 /\ m + 1 = n /\ m \in 0..L
    BY <1>1
  <2>2. PICK old : old = kept[m] /\ old \in Seq(S) /\ Len(old) = Rank(places, m)
                   /\ \A i \in places \cap 1..m : old[Rank(places, i)] = s[i]
    BY <1>11, <2>1
  <2>3. kept[n] = IF n \in places THEN Append(old, s[n]) ELSE old
    <3>1. n \in 0..L /\ n # 0
      BY <1>1
    <3> QED
      BY <1>9, <2>1, <2>2, <3>1
  <2>4. CASE n \notin places
    <3>1. Rank(places, n) = Rank(places, m) /\ places \cap 1..n = places \cap 1..m
      BY <2>1, <2>4, RankIs
    <3> QED
      BY <2>2, <2>3, <2>4, <3>1
  <2>5. CASE n \in places
    <3>1. /\ Rank(places, n) = Rank(places, m) + 1 /\ Rank(places, m) \in Nat
          /\ \A i \in places \cap 1..m : Rank(places, i) \in 1..Rank(places, m)
      BY <2>1, <2>5, RankIs
    <3>2. s[n] \in S
      BY <2>5
    <3>3. /\ kept[n] \in Seq(S) /\ Len(kept[n]) = Rank(places, n)
          /\ kept[n][Rank(places, n)] = s[n]
          /\ \A j \in 1..Rank(places, m) : kept[n][j] = old[j]
      BY <2>2, <2>3, <2>5, <3>1, <3>2
    <3>4. ASSUME NEW i \in places \cap 1..n PROVE kept[n][Rank(places, i)] = s[i]
      <4>1. i = n \/ i \in places \cap 1..m
        BY <2>1
      <4> QED
        BY <2>2, <3>1, <3>3, <4>1
    <3> QED
      BY <3>3, <3>4
  <2> QED
    BY <2>4, <2>5
<1> HIDE DEF G
<1>12. \A n \in 0..L : n \in G
  BY <1>1, <1>10, <1>11, UpFromZero
<1>13. Good(L)
  BY <1>1, <1>12 DEF G
<1> QED
  BY <1>7, <1>13

(* What bind_url_params leaves in the map: under each name what the request   *)
(* gave, then the pieces at the places of that name, from left to right.       *)
PlacesOf(stack, p) == {i \in 1..Len(stack) : stack[i] = p}

HoldsAll(value, before, stack, url, p) ==
    /\ Len(value) = Len(before) + Rank(PlacesOf(stack, p), Len(stack))
    /\ \A i \in DOMAIN before : value[i] = before[i]
    /\ \A i \in PlacesOf(stack, p) :
         value[Len(before) + Rank(PlacesOf(stack, p), i)] = url[i]

(* The last element of a sequence appended to, and those before it. *)
LEMMA AppendedLast ==
  ASSUME NEW T, NEW s \in Seq(T), NEW e \in T, NEW k \in Nat, Len(s) = k
  PROVE  /\ Len(Append(s, e)) = k + 1
         /\ Append(s, e)[k + 1] = e
         /\ \A j \in 1..k : Append(s, e)[j] = s[j]
OBVIOUS

LEMMA BoundIs ==
  ASSUME NEW T, NEW given \in [ParamSegment -> Seq(T)], NEW S, NEW stack \in Seq(S),
         NEW url, \A i \in 1..Len(stack) : url[i] \in T,
         NEW p \in ParamSegment
  PROVE  HoldsAll(bind_url_params(given, stack, url)[p], given[p], stack, url, p)
<1> PICK value : value = bind_url_params(given, stack, url)[p]
  OBVIOUS
<1> DEFINE L == Len(stack)
           X == [ParamSegment -> Seq(T)]
           Eq(g) == g = [n \in 0..Len(stack) |->
                           IF n = 0 THEN given
                           ELSE IF stack[n] \in ParamSegment
                                THEN dino_strmap_add(g[n - 1], stack[n], url[n]) ELSE g[n - 1]]
           step == [n \in 1..L |-> [x \in X |-> IF stack[n] \in ParamSegment
                                                THEN dino_strmap_add(x, stack[n], url[n]) ELSE x]]
<1>1. L \in Nat /\ \A n \in 1..L : url[n] \in T
  OBVIOUS
<1>2. ASSUME NEW x \in X, NEW key \in ParamSegment, NEW added \in T
      PROVE  /\ dino_strmap_add(x, key, added) \in X
             /\ dino_strmap_add(x, key, added)[key] = Append(x[key], added)
             /\ \A k \in ParamSegment : k # key => dino_strmap_add(x, key, added)[k] = x[k]
  <2>1. Append(x[key], added) \in Seq(T)
    OBVIOUS
  <2> QED
    BY <2>1 DEF dino_strmap_add
<1>3. step \in [1..L -> [X -> X]]
  <2>1. ASSUME NEW n \in 1..L, NEW x \in X
        PROVE  (IF stack[n] \in ParamSegment THEN dino_strmap_add(x, stack[n], url[n]) ELSE x) \in X
    BY <1>1, <1>2
  <2> HIDE DEF X
  <2> QED
    BY <2>1
<1>4. \A n \in 1..L, x \in X :
        step[n][x] = IF stack[n] \in ParamSegment THEN dino_strmap_add(x, stack[n], url[n]) ELSE x
  OBVIOUS
<1> HIDE DEF step
<1>5. PICK f \in [0..L -> X] : Ascends(f, L, given, step)
  BY <1>1, <1>3, UpwardRecursion
<1>6. ASSUME NEW n \in 0..L
      PROVE  f[n] = IF n = 0 THEN given
                    ELSE IF stack[n] \in ParamSegment
                         THEN dino_strmap_add(f[n - 1], stack[n], url[n]) ELSE f[n - 1]
  <2> HIDE DEF X
  <2>1. n # 0 => n \in 1..L /\ n - 1 \in 0..L
    BY <1>1
  <2>2. n # 0 => f[n - 1] \in X
    BY <2>1
  <2> QED
    BY <1>4, <1>5, <2>1, <2>2 DEF Ascends
<1>7. Eq(f)
  BY <1>6
<1>8. PICK bound : bound = (CHOOSE g : Eq(g)) /\ value = bound[L][p]
  BY DEF bind_url_params
<1>9. Eq(bound)
  BY <1>7, <1>8
<1>10. ASSUME NEW n \in 0..L
       PROVE  bound[n] = IF n = 0 THEN given
                         ELSE IF stack[n] \in ParamSegment
                              THEN dino_strmap_add(bound[n - 1], stack[n], url[n]) ELSE bound[n - 1]
  BY <1>9
<1> HIDE DEF Eq, X
<1>11. PICK places, G0 : places = PlacesOf(stack, p) /\ G0 = Len(given[p])
  OBVIOUS
<1>12. given[p] \in Seq(T) /\ G0 \in Nat /\ DOMAIN given[p] = 1..G0
  BY <1>11
<1> DEFINE Good(n) ==
             /\ bound[n] \in X
             /\ Len(bound[n][p]) = G0 + Rank(places, n)
             /\ \A i \in 1..G0 : bound[n][p][i] = given[p][i]
             /\ \A i \in places \cap 1..n : bound[n][p][G0 + Rank(places, i)] = url[i]
           G == {n \in 0..L : Good(n)}
<1>13. 0 \in G
  <2>1. bound[0] = given /\ Rank(places, 0) = 0 /\ places \cap 1..0 = {} /\ 0 \in 0..L
    BY <1>1, <1>10, RankIs
  <2>2. Good(0)
    BY <1>11, <1>12, <2>1 DEF X
  <2> QED
    BY <2>1, <2>2
<1>14. ASSUME NEW n \in 1..L, n - 1 \in G PROVE n \in G
  <2>1. PICK m \in Nat : m = n - 1 /\ m + 1 = n /\ m \in 0..L
    BY <1>1
  <2>2. PICK old : /\ old = bound[m] /\ old \in X
                   /\ Len(old[p]) = G0 + Rank(places, m)
                   /\ \A i \in 1..G0 : old[p][i] = given[p][i]
                   /\ \A i \in places \cap 1..m : old[p][G0 + Rank(places, i)] = url[i]
    BY <1>14, <2>1
  <2>3. bound[n] = IF stack[n] \in ParamSegment THEN dino_strmap_add(old, stack[n], url[n]) ELSE old
    <3>1. n \in 0..L /\ n # 0
      BY <1>1
    <3> QED
      BY <1>10, <2>1, <2>2, <3>1
  <2>4. bound[n] \in X
    BY <1>1, <1>2, <2>2, <2>3
  <2>5. old[p] \in Seq(T)
    BY <2>2 DEF X
  <2>6. n \in places <=> stack[n] = p
    BY <1>11 DEF PlacesOf
  <2>7. CASE stack[n] # p
    <3>1. bound[n][p] = old[p]
      BY <1>1, <1>2, <2>2, <2>3, <2>7
    <3>2. Rank(places, n) = Rank(places, m) /\ places \cap 1..n = places \cap 1..m
      BY <2>1, <2>6, <2>7, RankIs
    <3>3. Good(n)
      BY <2>2, <2>4, <3>1, <3>2
    <3> QED
      BY <3>3
  <2>8. CASE stack[n] = p
    <3>1. bound[n][p] = Append(old[p], url[n]) /\ url[n] \in T
      <4>1. url[n] \in T /\ old \in X /\ p \in ParamSegment
        BY <1>1, <2>2
      <4>2. bound[n] = dino_strmap_add(old, p, url[n])
        BY <2>3, <2>8
      <4> QED
        BY <1>2, <4>1, <4>2
    <3>2. /\ Rank(places, n) = Rank(places, m) + 1 /\ Rank(places, m) \in Nat
          /\ \A i \in places \cap 1..m : Rank(places, i) \in 1..Rank(places, m)
      BY <2>1, <2>6, <2>8, RankIs
    <3>3. /\ Len(bound[n][p]) = G0 + Rank(places, n)
          /\ bound[n][p][G0 + Rank(places, n)] = url[n]
          /\ \A j \in 1..(G0 + Rank(places, m)) : bound[n][p][j] = old[p][j]
      <4>1. PICK k, s : k = G0 + Rank(places, m) /\ s = old[p]
        OBVIOUS
      <4>2. k \in Nat /\ s \in Seq(T) /\ Len(s) = k /\ G0 + Rank(places, n) = k + 1
        <5>1. s \in Seq(T) /\ Len(s) = k
          BY <2>2, <2>5, <4>1
        <5>2. k \in Nat /\ G0 + Rank(places, n) = k + 1
          BY <1>12, <3>2, <4>1
        <5> QED
          BY <5>1, <5>2
      <4>3. /\ Len(Append(s, url[n])) = k + 1
            /\ Append(s, url[n])[k + 1] = url[n]
            /\ \A j \in 1..k : Append(s, url[n])[j] = s[j]
        BY <3>1, <4>2, AppendedLast
      <4> QED
        BY <3>1, <4>1, <4>2, <4>3
    <3>4. \A i \in 1..G0 : bound[n][p][i] = given[p][i]
      <4>1. \A i \in 1..G0 : i \in 1..(G0 + Rank(places, m))
        BY <1>12, <3>2
      <4> QED
        BY <2>2, <3>3, <4>1
    <3>5. ASSUME NEW i \in places \cap 1..n PROVE bound[n][p][G0 + Rank(places, i)] = url[i]
      <4>1. i = n \/ i \in places \cap 1..m
        BY <2>1
      <4>2. CASE i = n
        BY <3>3, <4>2
      <4>3. CASE i \in places \cap 1..m
        <5>1. G0 + Rank(places, i) \in 1..(G0 + Rank(places, m))
          BY <1>12, <3>2, <4>3
        <5> QED
          BY <2>2, <3>3, <4>3, <5>1
      <4> QED
        BY <4>1, <4>2, <4>3
    <3>6. Good(n)
      BY <2>4, <3>3, <3>4, <3>5
    <3> QED
      BY <3>6
  <2> QED
    BY <2>7, <2>8
<1> HIDE DEF G
<1>15. \A n \in 0..L : n \in G
  BY <1>1, <1>13, <1>14, UpFromZero
<1>16. Good(L)
  BY <1>1, <1>15 DEF G
<1>17. places \cap 1..L = places
  BY <1>11 DEF PlacesOf
<1> QED
  BY <1>8, <1>11, <1>12, <1>16, <1>17 DEF HoldsAll

(* A parsed path is the pieces of the path, none of them empty. *)
LEMMA ParsedPath ==
  ASSUME NEW path \in Path
  PROVE  stack_ptr_parse(path) \in Seq(Pieces)
<1>1. path \in Seq(Range(path))
  BY PathAssumption
<1>2. \A i \in DOMAIN path : path[i] \in Range(path)
  BY DEF Range
<1> DEFINE places == {i \in DOMAIN path : path[i] # ""}
<1>3. \A i \in places \cap 1..Len(path) : path[i] \in Pieces
  BY <1>2 DEF Pieces, PathPieces
<1> HIDE DEF places
<1>4. Picked(path, places) \in Seq(Pieces)
  BY <1>1, <1>3, PickedIs
<1> QED
  BY <1>4 DEF stack_ptr_parse, places, NotEmpty

-----------------------------------------------------------------------------
(* The latest request, and the route that serves it. *)
LastInv ==
    \/ last.route = 0
    \/ /\ pc = "serving"
       /\ last.route \in DOMAIN list
       /\ \E method \in Method : Serves(list[last.route], method, last.url)
       /\ last.given \in Given
       /\ last.params = bind_url_params(last.given, list[last.route].stack, last.url)

(* list_method_find returns a route that serves the request, or none. *)
LEMMA FindIs ==
  ASSUME NEW T, NEW routes \in Seq(T), NEW method, NEW url,
         list_method_find(routes, method, url) # 0
  PROVE  /\ list_method_find(routes, method, url) \in DOMAIN routes
         /\ Serves(routes[list_method_find(routes, method, url)], method, url)
         /\ \A i \in DOMAIN routes :
              Serves(routes[i], method, url) => list_method_find(routes, method, url) <= i
<1> DEFINE hits == {i \in DOMAIN routes : Serves(routes[i], method, url)}
<1>1. hits # {} /\ list_method_find(routes, method, url) = Min(hits)
  BY DEF list_method_find
<1>2. hits \subseteq Nat
  OBVIOUS
<1>3. Min(hits) \in hits /\ \A k \in hits : Min(hits) <= k
  BY <1>1, <1>2, MinOfNats
<1> QED
  BY <1>1, <1>3

LEMMA TableIsSeq ==
  ASSUME TableInv
  PROVE  /\ list \in Seq(Route) /\ Len(list) = line - 1 /\ DOMAIN list = 1..(line - 1)
         /\ \A i \in DOMAIN list : list[i].method \in Method /\ list[i].stack \in Seq(Pieces)
<1>1. list \in Seq(Route) /\ Len(list) = line - 1 /\ DOMAIN list = 1..(line - 1)
  BY DEF TableInv, Route
<1>2. ASSUME NEW i \in DOMAIN list PROVE list[i].method \in Method /\ list[i].stack \in Seq(Pieces)
  <2>1. PICK l \in RouteLine : list[i] = NewRoute(l)
    BY <1>1 DEF Route
  <2>2. l.path \in Path /\ l.method \in Method
    BY DEF RouteLine
  <2> QED
    BY <2>1, <2>2, ParsedPath DEF NewRoute
<1> QED
  BY <1>1, <1>2

LEMMA LastInvStep ==
  ASSUME TableInv, LastInv, [Next]_vars
  PROVE  LastInv'
<1>1. CASE add_method_to_site
  <2>1. last' = last /\ pc = "config"
    BY <1>1 DEF add_method_to_site
  <2> QED
    BY <2>1 DEF LastInv
<1>2. CASE DINO_CONFIG_END
  BY <1>2 DEF DINO_CONFIG_END, LastInv
<1>3. ASSUME NEW method \in Method, NEW url \in Url, NEW given \in Given, Dispatch(method, url, given)
      PROVE  LastInv'
  <2>1. PICK route : route = list_method_find(list, method, url)
    OBVIOUS
  <2>2. /\ last' = [url |-> url, route |-> route, given |-> given,
                    params |-> IF route = 0 THEN given
                               ELSE bind_url_params(given, list[route].stack, url)]
        /\ pc = "serving" /\ pc' = pc /\ list' = list
    BY <1>3, <2>1 DEF Dispatch
  <2>3. route # 0 => route \in DOMAIN list /\ Serves(list[route], method, url)
    BY <2>1, TableIsSeq, FindIs
  <2> QED
    BY <2>2, <2>3 DEF LastInv
<1>4. CASE UNCHANGED vars
  BY <1>4 DEF vars, LastInv
<1> QED
  BY <1>1, <1>2, <1>3, <1>4 DEF Next

(* Every request dispatched was found a route that serves it, or none.        *)
THEOREM LastInvHolds == Spec => []LastInv
<1>1. Init => LastInv
  BY DEF Init, LastInv, NoRequest
<1>2. TableInv /\ LastInv /\ [Next]_vars => LastInv'
  BY LastInvStep
<1> QED
  BY <1>1, <1>2, TableInvHolds, PTL DEF Spec

(* The table holds a route for each line run, of pieces that are not empty    *)
(* (add_method_to_site, stack_ptr_parse), and dispatch finds one of it.         *)
THEOREM TableTypeCorrect == Spec => []TypeOK
<1>1. TableInv /\ LastInv => TypeOK
  <2> SUFFICES ASSUME TableInv, LastInv PROVE TypeOK
    OBVIOUS
  <2>1. line \in 1..(Len(script) + 1) /\ pc \in {"config", "serving"} /\ Len(script) \in Nat
    BY DEF TableInv
  <2>2. last.route \in 0..Len(list)
    BY <2>1, TableIsSeq DEF LastInv
  <2>3. \A i \in DOMAIN list :
          list[i].method \in Method /\ \A k \in DOMAIN list[i].stack : list[i].stack[k] \in Pieces
    BY TableIsSeq
  <2> QED
    BY <2>1, <2>2, <2>3, TableIsSeq DEF TypeOK
<1> QED
  BY <1>1, TableInvHolds, LastInvHolds, PTL

(* Whatever the request gave under the same names, what bind_url_params leaves *)
(* in the map of parameters, with the route's pattern, gives back the whole     *)
(* URL but for the pieces under '*', for every pattern and every URL.            *)
THEOREM BindingLosesNothing == Spec => []UrlRecoverable
<1>1. TableInv /\ LastInv => UrlRecoverable
  <2> SUFFICES ASSUME TableInv, LastInv, last.route # 0,
                      NEW stack, stack = list[last.route].stack
               PROVE  /\ Len(last.url) = Len(stack)
                      /\ \A p \in ParamSegment :
                           /\ Len(last.params[p]) = Len(last.given[p]) + BoundInAll(stack, p)
                           /\ \A i \in DOMAIN last.given[p] : last.params[p][i] = last.given[p][i]
                      /\ \A k \in DOMAIN stack :
                           stack[k] \notin StarSegment =>
                             last.url[k] =
                               IF stack[k] \in ParamSegment
                               THEN LET value == last.params[stack[k]]
                                    IN  value[Len(value) - BoundInAll(stack, stack[k]) + Bound(stack, k)]
                               ELSE stack[k]
    BY DEF UrlRecoverable
  <2>1. PICK url, given, params : url = last.url /\ given = last.given /\ params = last.params
    OBVIOUS
  <2>2. /\ stack \in Seq(Pieces) /\ Len(stack) = Len(url)
        /\ \A k \in DOMAIN stack : SegmentMatches(stack[k], url[k])
        /\ given \in Given /\ params = bind_url_params(given, stack, url)
    BY <2>1, TableIsSeq DEF LastInv, Serves
  <2>3. Len(stack) \in Nat /\ DOMAIN stack = 1..Len(stack)
    BY <2>2
  <2>4. PICK T : T = STRING \cup {url[i] : i \in 1..Len(stack)}
    OBVIOUS
  <2>5. given \in [ParamSegment -> Seq(T)] /\ \A i \in 1..Len(stack) : url[i] \in T
    <3>1. given \in [ParamSegment -> Seq(STRING)] /\ STRING \subseteq T
      BY <2>2, <2>4, GivenAssumption
    <3>2. \A A, B : A \subseteq B => Seq(A) \subseteq Seq(B)
      <4> SUFFICES ASSUME NEW A, NEW B, A \subseteq B, NEW s \in Seq(A) PROVE s \in Seq(B)
        OBVIOUS
      <4>1. Len(s) \in Nat /\ DOMAIN s = 1..Len(s) /\ s = [i \in 1..Len(s) |-> s[i]]
        OBVIOUS
      <4>2. \A i \in 1..Len(s) : s[i] \in B
        OBVIOUS
      <4> QED
        BY <4>1, <4>2
    <3> QED
      BY <2>4, <3>1, <3>2
  <2>6. ASSUME NEW p \in ParamSegment
        PROVE  /\ Len(params[p]) = Len(given[p]) + Rank(PlacesOf(stack, p), Len(stack))
               /\ \A i \in DOMAIN given[p] : params[p][i] = given[p][i]
               /\ \A i \in PlacesOf(stack, p) :
                    params[p][Len(given[p]) + Rank(PlacesOf(stack, p), i)] = url[i]
    <3>1. given \in [ParamSegment -> Seq(T)] /\ stack \in Seq(Pieces)
      BY <2>2, <2>5
    <3>2. \A i \in 1..Len(stack) : url[i] \in T
      BY <2>5
    <3>3. HoldsAll(bind_url_params(given, stack, url)[p], given[p], stack, url, p)
      BY <3>1, <3>2, BoundIs
    <3> QED
      BY <2>2, <3>3 DEF HoldsAll
  <2>7. ASSUME NEW p, NEW n \in 0..Len(stack)
        PROVE  {i \in 1..n : stack[i] = p} = PlacesOf(stack, p) \cap 1..n
    BY <2>3 DEF PlacesOf
  <2>8. \A p : BoundInAll(stack, p) = Rank(PlacesOf(stack, p), Len(stack))
    <3> TAKE p
    <3>1. Len(stack) \in 0..Len(stack)
      BY <2>3
    <3>2. {i \in 1..Len(stack) : stack[i] = p} = PlacesOf(stack, p) \cap 1..Len(stack)
      BY <2>7, <3>1
    <3> QED
      BY <3>2 DEF BoundInAll, Rank
  <2>9. \A k \in 1..Len(stack) : Bound(stack, k) = Rank(PlacesOf(stack, stack[k]), k)
    <3> TAKE k \in 1..Len(stack)
    <3>1. k \in 0..Len(stack)
      BY <2>3
    <3>2. {i \in 1..k : stack[i] = stack[k]} = PlacesOf(stack, stack[k]) \cap 1..k
      BY <2>7, <3>1
    <3> QED
      BY <3>2 DEF Bound, Rank
  <2>10. ASSUME NEW k \in DOMAIN stack, stack[k] \notin StarSegment
         PROVE  url[k] = IF stack[k] \in ParamSegment
                         THEN LET value == params[stack[k]]
                              IN  value[Len(value) - BoundInAll(stack, stack[k]) + Bound(stack, k)]
                         ELSE stack[k]
    <3>1. CASE stack[k] \in ParamSegment
      <4>1. PICK p \in ParamSegment : p = stack[k]
        BY <3>1
      <4>2. PICK all, upto, before : /\ all = Rank(PlacesOf(stack, p), Len(stack))
                                     /\ upto = Rank(PlacesOf(stack, p), k)
                                     /\ before = Len(given[p])
        OBVIOUS
      <4>3. all \in Nat /\ upto \in Nat /\ before \in Nat
        BY <2>3, <2>5, <4>2, RankIs
      <4>4. Len(params[p]) = before + all /\ params[p][before + upto] = url[k]
        <5>1. k \in PlacesOf(stack, p)
          BY <2>3, <4>1 DEF PlacesOf
        <5> QED
          BY <2>6, <4>2, <5>1
      <4>5. (before + all) - all + upto = before + upto
        BY <4>3
      <4>6. BoundInAll(stack, p) = all /\ Bound(stack, k) = upto
        BY <2>3, <2>8, <2>9, <4>1, <4>2
      <4> QED
        BY <3>1, <4>1, <4>4, <4>5, <4>6
    <3>2. CASE stack[k] \notin ParamSegment
      BY <2>2, <2>10, <3>2 DEF SegmentMatches, Wild
    <3> QED
      BY <3>1, <3>2
  <2>11. \A p \in ParamSegment :
            /\ Len(params[p]) = Len(given[p]) + BoundInAll(stack, p)
            /\ \A i \in DOMAIN given[p] : params[p][i] = given[p][i]
    <3> TAKE p \in ParamSegment
    <3>1. BoundInAll(stack, p) = Rank(PlacesOf(stack, p), Len(stack))
      BY <2>8
    <3> QED
      BY <2>6, <3>1
  <2>12. \A k \in DOMAIN stack : stack[k] \notin StarSegment =>
            url[k] = IF stack[k] \in ParamSegment
                     THEN LET value == params[stack[k]]
                          IN  value[Len(value) - BoundInAll(stack, stack[k]) + Bound(stack, k)]
                     ELSE stack[k]
    BY <2>10
  <2>13. Len(url) = Len(stack)
    BY <2>2
  <2> QED
    BY <2>1, <2>11, <2>12, <2>13, Zenon
<1> QED
  BY <1>1, TableInvHolds, LastInvHolds, PTL

-----------------------------------------------------------------------------
(* A request for a route that no earlier route hides.                         *)
LEMMA UnhiddenIsFound ==
  ASSUME TableInv, NEW i \in DOMAIN list, \A j \in 1..(i - 1) : ~ HiddenBy(list[i], list[j])
  PROVE  \E url \in Url : list_method_find(list, list[i].method, url) = i
<1>1. PICK stack : stack = list[i].stack
  OBVIOUS
<1>2. PICK piece : piece \notin Pieces /\ \A path \in Path : RequestFor(stack_ptr_parse(path), piece) \in Url
  BY UrlAssumption DEF Pieces, stack_ptr_parse
<1>3. PICK url : url = RequestFor(stack, piece)
  OBVIOUS
<1>4. url \in Url
  <2>1. PICK l \in RouteLine : list[i] = NewRoute(l)
    BY TableIsSeq DEF Route
  <2>2. l.path \in Path /\ stack = stack_ptr_parse(l.path)
    BY <1>1, <2>1 DEF RouteLine, NewRoute
  <2> QED
    BY <1>2, <1>3, <2>2
<1>5. stack \in Seq(Pieces) /\ Len(url) = Len(stack) /\ DOMAIN stack = 1..Len(stack)
  <2>1. stack \in Seq(Pieces)
    BY <1>1, TableIsSeq
  <2>2. DOMAIN stack = 1..Len(stack) /\ Len(stack) \in Nat
    BY <2>1
  <2>3. url = [k \in 1..Len(stack) |-> IF stack[k] \in Wild THEN piece ELSE stack[k]]
    BY <1>3, <2>2 DEF RequestFor
  <2> QED
    BY <2>1, <2>2, <2>3
<1>6. \A k \in DOMAIN stack : url[k] = IF stack[k] \in Wild THEN piece ELSE stack[k]
  BY <1>3 DEF RequestFor
<1>7. Serves(list[i], list[i].method, url)
  BY <1>1, <1>5, <1>6 DEF Serves, SegmentMatches
<1>8. PICK found : found = list_method_find(list, list[i].method, url)
  OBVIOUS
<1>9. i \in Nat /\ DOMAIN list \subseteq Nat \ {0}
  BY TableIsSeq DEF TableInv
<1>10. found # 0
  <2>1. PICK hits : hits = {j \in DOMAIN list : Serves(list[j], list[i].method, url)}
    OBVIOUS
  <2>2. hits # {} /\ hits \subseteq Nat \ {0}
    BY <1>7, <1>9, <2>1
  <2>3. found = Min(hits)
    BY <1>8, <2>1, <2>2 DEF list_method_find
  <2>4. Min(hits) \in hits
    BY <2>2, MinOfNats
  <2> QED
    BY <2>2, <2>3, <2>4
<1>11. /\ found \in DOMAIN list /\ Serves(list[found], list[i].method, url)
       /\ found <= i
  BY <1>7, <1>8, <1>10, TableIsSeq, FindIs
<1>12. found = i
  <2> SUFFICES ASSUME found # i PROVE FALSE
    OBVIOUS
  <2>1. found \in 1..(i - 1)
    BY <1>9, <1>11
  <2>2. PICK earlier : earlier = list[found].stack
    OBVIOUS
  <2>3. earlier \in Seq(Pieces)
    BY <1>11, <2>2, TableIsSeq
  <2>4. /\ list[found].method = list[i].method /\ Len(earlier) = Len(stack)
        /\ \A k \in DOMAIN earlier : earlier[k] \in Wild \/ earlier[k] = url[k]
    BY <1>5, <1>11, <2>2 DEF Serves, SegmentMatches
  <2>5. ASSUME NEW k \in DOMAIN stack
        PROVE  earlier[k] \in Wild \/ earlier[k] = stack[k]
    <3>1. k \in DOMAIN earlier
      BY <1>5, <2>3, <2>4
    <3>2. earlier[k] # piece
      BY <1>2, <2>3, <3>1
    <3> QED
      BY <1>6, <2>4, <3>1, <3>2
  <2>6. HiddenBy(list[i], list[found])
    BY <1>1, <2>2, <2>4, <2>5 DEF HiddenBy
  <2> QED
    BY <2>1, <2>6
<1> QED
  BY <1>4, <1>8, <1>12

(* A hidden route never gets a request: what matches it matches the other.    *)
LEMMA HiddenIsNotFound ==
  ASSUME TableInv, NEW i \in DOMAIN list, NEW j \in 1..(i - 1), HiddenBy(list[i], list[j]),
         NEW url, list_method_find(list, list[i].method, url) = i
  PROVE  FALSE
<1>1. i \in Nat /\ i # 0 /\ j \in DOMAIN list /\ j < i
  BY TableIsSeq DEF TableInv
<1>2. /\ Serves(list[i], list[i].method, url)
      /\ \A k \in DOMAIN list : Serves(list[k], list[i].method, url) => i <= k
  BY <1>1, TableIsSeq, FindIs
<1>3. PICK stack, earlier : stack = list[i].stack /\ earlier = list[j].stack
  OBVIOUS
<1>4. stack \in Seq(Pieces) /\ earlier \in Seq(Pieces)
  BY <1>1, <1>3, TableIsSeq
<1>5. /\ Len(earlier) = Len(stack) /\ Len(stack) = Len(url) /\ list[j].method = list[i].method
      /\ \A k \in DOMAIN stack : /\ earlier[k] \in Wild \/ earlier[k] = stack[k]
                                 /\ SegmentMatches(stack[k], url[k])
  BY <1>2, <1>3 DEF HiddenBy, Serves
<1>6. DOMAIN earlier = DOMAIN stack
  BY <1>4, <1>5
<1>7. \A k \in DOMAIN earlier : SegmentMatches(earlier[k], url[k])
  BY <1>5, <1>6 DEF SegmentMatches
<1>8. Serves(list[j], list[i].method, url)
  BY <1>3, <1>5, <1>7 DEF Serves
<1> QED
  BY <1>1, <1>2, <1>8

(* For every table: a route is out of reach exactly if one earlier route      *)
(* covers it; several that cover it only together never hide it                *)
(* (list_method_find).                                                          *)
THEOREM HiddenByOneRouteOnly == Spec => []ReachableUnlessHidden
<1>1. TableInv => ReachableUnlessHidden
  BY UnhiddenIsFound, HiddenIsNotFound DEF ReachableUnlessHidden
<1> QED
  BY <1>1, TableInvHolds, PTL
=============================================================================
