--------------------------- MODULE DinoStringProofs ---------------------------
(* For every width of size_t, every first size and every string appended:     *)
(* the text stays in its buffer but for the known overruns, and is what was     *)
(* appended.  First the arithmetic, then the buffers, then each call.           *)
EXTENDS DinoString, RecursionLemmas, SequenceTheorems

-----------------------------------------------------------------------------
(* The arithmetic of size_t. *)

Modulus == Pow2[Width]

LEMMA PowersOfTwo ==
  /\ Pow2[0] = 1
  /\ \A n \in 1..Width : n - 1 \in 0..Width /\ Pow2[n] = 2 * Pow2[n - 1]
  /\ \A n \in 0..Width : Pow2[n] \in Nat /\ Pow2[n] >= 1
<1> DEFINE X == {x \in Nat : x >= 1}
           Eq(g) == g = [n \in 0..Width |-> IF n = 0 THEN 1 ELSE 2 * g[n - 1]]
           step == [n \in 1..Width |-> [x \in X |-> 2 * x]]
<1>1. Width \in Nat /\ Width >= 1
  BY WidthAssumption
<1>2. step \in [1..Width -> [X -> X]] /\ 1 \in X
  <2>1. \A x \in X : 2 * x \in X
    OBVIOUS
  <2> QED
    BY <2>1
<1>3. \A n \in 1..Width, x \in X : step[n][x] = 2 * x
  OBVIOUS
<1> HIDE DEF step, X
<1>4. PICK f \in [0..Width -> X] : Ascends(f, Width, 1, step)
  BY <1>1, <1>2, UpwardRecursion
<1>5. ASSUME NEW n \in 0..Width PROVE f[n] = IF n = 0 THEN 1 ELSE 2 * f[n - 1]
  <2>1. n # 0 => n \in 1..Width /\ n - 1 \in 0..Width
    BY <1>1
  <2>2. n # 0 => f[n - 1] \in X
    BY <2>1
  <2>3. f[n] = IF n = 0 THEN 1 ELSE step[n][f[n - 1]]
    BY <1>4 DEF Ascends
  <2> QED
    BY <1>3, <2>1, <2>2, <2>3
<1>6. Eq(f)
  BY <1>5
<1>7. PICK P : P = (CHOOSE g : Eq(g)) /\ Pow2 = P
  BY DEF Pow2
<1>8. Eq(P)
  BY <1>6, <1>7
<1>9. \A n \in 0..Width : P[n] = IF n = 0 THEN 1 ELSE 2 * P[n - 1]
  BY <1>8
<1> HIDE DEF Eq
<1> DEFINE S == {n \in 0..Width : P[n] \in Nat /\ P[n] >= 1}
<1>10. 0 \in S
  BY <1>1, <1>9
<1>11. ASSUME NEW n \in 1..Width, n - 1 \in S PROVE n \in S
  <2>1. n \in 0..Width /\ n # 0
    BY <1>1
  <2>2. P[n] = 2 * P[n - 1] /\ P[n - 1] \in Nat /\ P[n - 1] >= 1
    BY <1>9, <1>11, <2>1
  <2> QED
    BY <2>1, <2>2
<1> HIDE DEF S
<1>12. \A n \in 0..Width : n \in S
  BY <1>1, <1>10, <1>11, UpFromZero
<1>13. \A n \in 1..Width : n \in 0..Width /\ n # 0 /\ n - 1 \in 0..Width
  BY <1>1
<1>14. 0 \in 0..Width
  BY <1>1
<1> QED
  BY <1>7, <1>9, <1>12, <1>13, <1>14 DEF S

LEMMA ModulusIs ==
  /\ Modulus \in Nat /\ Modulus >= 2 /\ SIZE_MAX = Modulus - 1
  /\ \E h \in Nat : Modulus = 2 * h
  /\ 2 * (MaxSize + MaxLength) < Modulus /\ MaxSize \in Nat /\ MaxLength \in Nat
<1>1. Width \in 1..Width /\ Width \in 0..Width
  BY WidthAssumption
<1>2. PICK h \in Nat : Pow2[Width] = 2 * h /\ h >= 1
  BY <1>1, PowersOfTwo
<1> QED
  BY <1>2, MaxSizeAssumption, MaxLengthAssumption DEF Modulus, SIZE_MAX

LEMMA PlusIs ==
  /\ \A a, b \in Nat : a + b < Modulus => Plus(a, b) = a + b
  /\ \A a, b \in Nat : Modulus <= a + b /\ a + b < 2 * Modulus => Plus(a, b) = a + b - Modulus
<1>1. ASSUME NEW m \in Nat, NEW n \in Nat, m >= 1, n < m PROVE n % m = n
  BY <1>1
<1>2. ASSUME NEW m \in Nat, NEW n \in Nat, m >= 1, m <= n, n < 2 * m PROVE n % m = n - m
  BY <1>2
<1>3. PICK m \in Nat : m = Modulus /\ m = Pow2[Width] /\ m >= 1
  BY ModulusIs DEF Modulus
<1>4. ASSUME NEW a \in Nat, NEW b \in Nat
      PROVE  /\ a + b < m => Plus(a, b) = a + b
             /\ m <= a + b /\ a + b < 2 * m => Plus(a, b) = a + b - m
  <2>0. PICK n \in Nat : n = a + b
    OBVIOUS
  <2>1. PICK r : n = a + b /\ r = n % m /\ Plus(a, b) = r
    BY <1>3, <2>0 DEF Plus
  <2>2. CASE n < m
    BY <1>1, <1>3, <2>1, <2>2
  <2>3. CASE m <= n /\ n < 2 * m
    <3>1. r = n - m
      BY <1>2, <1>3, <2>1, <2>3
    <3> QED
      BY <2>1, <2>3, <3>1
  <2>4. CASE ~ (n < m) /\ ~ (m <= n /\ n < 2 * m)
    BY <2>1, <2>4
  <2> QED
    BY <2>2, <2>3, <2>4
<1> QED
  BY <1>3, <1>4

LEMMA MinusIs ==
  \A a, b \in Nat : a < Modulus /\ b < Modulus =>
    Minus(a, b) = IF b <= a THEN a - b ELSE a - b + Modulus
<1>1. ASSUME NEW m \in Nat, NEW n \in Nat, m >= 1, n < m PROVE n % m = n
  BY <1>1
<1>2. ASSUME NEW m \in Nat, NEW n \in Int, m >= 1, - m < n, n < 0 PROVE n % m = n + m
  BY <1>2
<1>3. PICK m \in Nat : m = Modulus /\ m = Pow2[Width] /\ m >= 1
  BY ModulusIs DEF Modulus
<1>4. ASSUME NEW a \in Nat, NEW b \in Nat, a < m, b < m
      PROVE  Minus(a, b) = IF b <= a THEN a - b ELSE a - b + m
  <2>1. a - b \in Int /\ Minus(a, b) = (a - b) % m
    BY <1>3 DEF Minus
  <2>2. CASE b <= a
    BY <1>1, <1>3, <1>4, <2>1, <2>2
  <2>3. CASE ~ (b <= a)
    BY <1>2, <1>3, <1>4, <2>1, <2>3
  <2> QED
    BY <2>2, <2>3
<1> QED
  BY <1>3, <1>4

-----------------------------------------------------------------------------
(* The buffers. *)

Byte == Char \cup {Nul}

(* A string whose text lies in its buffer, with nothing behind it. *)
Good(s) ==
    /\ s \in [live : BOOLEAN, size : Nat, position : Nat, bytes : Seq(Byte),
              fault : {"none", "overrun"}]
    /\ s.size < Modulus /\ s.position <= s.size /\ Len(s.bytes) = s.size
    /\ \A i \in 1..s.size : s.bytes[i] \in (IF i <= s.position THEN Char ELSE {Nul})

(* The string t is s in a buffer of n bytes. *)
Moved(t, s, n) ==
    /\ Good(t) /\ t.size = n /\ Text(t) = Text(s)
    /\ t.position = s.position /\ t.live = s.live /\ t.fault = s.fault

(* The string t is s with src appended, in a buffer of n bytes. *)
Appended(t, s, src, n) ==
    /\ Good(t) /\ t.size = n /\ Text(t) = Text(s) \o src
    /\ t.position = s.position + Len(src) /\ t.live = s.live /\ t.fault = s.fault

Overrun(t) == Good(t) /\ t.fault = "overrun"

LEMMA GoodIs ==
  ASSUME NEW s, Good(s)
  PROVE  /\ s.size \in Nat /\ s.position \in Nat /\ s.position <= s.size /\ s.size < Modulus
         /\ s.live \in BOOLEAN /\ s.fault \in {"none", "overrun"}
         /\ s.bytes \in Seq(Byte) /\ Len(s.bytes) = s.size
         /\ \A i \in 1..s.size : s.bytes[i] \in (IF i <= s.position THEN Char ELSE {Nul})
  BY DEF Good

LEMMA JoinIs ==
  ASSUME NEW a \in Seq(Byte), NEW b \in Seq(Byte)
  PROVE  /\ a \o b \in Seq(Byte) /\ Len(a \o b) = Len(a) + Len(b)
         /\ \A i \in 1..Len(a) : (a \o b)[i] = a[i]
         /\ \A i \in (Len(a) + 1)..(Len(a) + Len(b)) : (a \o b)[i] = b[i - Len(a)]
<1>1. /\ a \o b \in Seq(Byte) /\ Len(a \o b) = Len(a) + Len(b)
      /\ \A i \in 1..(Len(a) + Len(b)) : (a \o b)[i] = IF i <= Len(a) THEN a[i] ELSE b[i - Len(a)]
  BY ConcatProperties
<1>2. Len(a) \in Nat /\ Len(b) \in Nat
  OBVIOUS
<1>3. \A i \in 1..Len(a) : i \in 1..(Len(a) + Len(b)) /\ i <= Len(a)
  BY <1>2
<1>4. \A i \in (Len(a) + 1)..(Len(a) + Len(b)) : i \in 1..(Len(a) + Len(b)) /\ ~ (i <= Len(a))
  BY <1>2
<1> QED
  BY <1>1, <1>3, <1>4

LEMMA RestIs ==
  ASSUME NEW s \in Seq(Byte), NEW q \in Nat, q <= Len(s)
  PROVE  /\ SubSeq(s, q + 1, Len(s)) \in Seq(Byte)
         /\ Len(SubSeq(s, q + 1, Len(s))) = Len(s) - q
         /\ \A i \in 1..(Len(s) - q) :
              q + i \in 1..Len(s) /\ SubSeq(s, q + 1, Len(s))[i] = s[q + i]
<1>1. Len(s) \in Nat /\ \A i \in 1..Len(s) : s[i] \in Byte
  BY ElementOfSeq
<1>2. \A i \in (q + 1)..Len(s) : s[i] \in Byte
  BY <1>1
<1> QED
  BY <1>1, <1>2, SubSeqProperties

LEMMA ZerosIs ==
  ASSUME NEW n \in Nat
  PROVE  /\ Zeros(n) \in Seq({Nul}) /\ Len(Zeros(n)) = n
         /\ \A i \in 1..n : Zeros(n)[i] = Nul
  BY DEF Zeros

LEMMA TextIs ==
  ASSUME NEW s, Good(s)
  PROVE  /\ Text(s) \in Seq(Char) /\ Len(Text(s)) = s.position
         /\ \A i \in 1..s.position : Text(s)[i] = s.bytes[i]
<1>1. /\ s.size \in Nat /\ s.position \in Nat /\ s.position <= s.size
      /\ s.bytes \in Seq(Byte) /\ Len(s.bytes) = s.size
      /\ \A i \in 1..s.size : s.bytes[i] \in (IF i <= s.position THEN Char ELSE {Nul})
  BY GoodIs
<1>2. \A i \in 1..s.position : s.bytes[i] \in Char
  BY <1>1
<1>3. PICK u : u = SubSeq(s.bytes, 1, s.position)
  OBVIOUS
<1>4. u \in Seq(Char) /\ Len(u) = s.position /\ \A i \in 1..s.position : u[i] = s.bytes[i]
  <2>1. \A i \in 1..s.position : s.bytes[i] \in Char
    BY <1>2
  <2>2. u = [i \in 1..s.position |-> s.bytes[i]]
    BY <1>1, <1>3
  <2> QED
    BY <1>1, <2>1, <2>2
<1> QED
  BY <1>3, <1>4 DEF Text

(* A text is told by the bytes up to the position. *)
LEMMA TextFrom ==
  ASSUME NEW t, Good(t), NEW u \in Seq(Char), Len(u) = t.position,
         \A i \in 1..t.position : t.bytes[i] = u[i]
  PROVE  Text(t) = u
<1>1. PICK v : v = Text(t)
  OBVIOUS
<1>2. /\ v \in Seq(Char) /\ Len(v) = t.position /\ t.position \in Nat
      /\ \A i \in 1..t.position : v[i] = t.bytes[i]
  BY <1>1, TextIs, GoodIs
<1>3. v = u
  BY <1>2, SeqEqual
<1> QED
  BY <1>1, <1>3

(* A larger buffer holds the same text. *)
LEMMA ResizeIs ==
  ASSUME NEW s, Good(s), NEW n \in Nat, s.size <= n, n < Modulus, NEW room \in BOOLEAN
  PROVE  Moved(dino_string_resize(s, n, room), s, IF room THEN n ELSE s.size)
<1>1. PICK t : t = dino_string_resize(s, n, room)
  OBVIOUS
<1>2. CASE ~ room
  BY <1>1, <1>2 DEF dino_string_resize, Moved
<1>3. CASE room
  <2>1. s.size \in Nat /\ s.position \in Nat /\ s.position <= s.size /\ n - s.position \in Nat
    BY GoodIs
  <2>2. PICK a : a = Text(s) /\ a \in Seq(Char) /\ Len(a) = s.position
    BY TextIs
  <2>3. PICK z : /\ z = Zeros(n - s.position) /\ z \in Seq({Nul}) /\ Len(z) = n - s.position
                 /\ \A i \in 1..(n - s.position) : z[i] = Nul
    BY <2>1, ZerosIs
  <2>4. PICK b : b = a \o z
    OBVIOUS
  <2>5. PICK q \in Nat, m \in Nat :
          /\ q = s.position /\ m = n - q /\ q <= n /\ Len(a) = q /\ Len(z) = m
          /\ a \in Seq(Byte) /\ z \in Seq(Byte)
    BY <2>1, <2>2, <2>3 DEF Byte
  <2>6. /\ b \in Seq(Byte) /\ Len(b) = n
        /\ \A i \in 1..s.position : b[i] = a[i]
        /\ \A i \in (s.position + 1)..n : b[i] = z[i - s.position]
    <3>1. /\ b \in Seq(Byte) /\ Len(b) = n
          /\ \A i \in 1..q : b[i] = a[i]
          /\ \A i \in (q + 1)..n : b[i] = z[i - q]
      <4>1. /\ b \in Seq(Byte) /\ Len(b) = Len(a) + Len(z)
            /\ \A i \in 1..Len(a) : b[i] = a[i]
            /\ \A i \in (Len(a) + 1)..(Len(a) + Len(z)) : b[i] = z[i - Len(a)]
        BY <2>4, <2>5, JoinIs
      <4>2. Len(a) = q /\ Len(a) + Len(z) = n
        BY <2>5
      <4> QED
        BY <4>1, <4>2
    <3> QED
      BY <2>5, <3>1
  <2>7. /\ \A i \in 1..s.position : b[i] \in Char
        /\ \A i \in (s.position + 1)..n : b[i] = Nul
    <3>1. \A i \in 1..s.position : a[i] \in Char
      BY <2>1, <2>2
    <3>2. \A i \in (s.position + 1)..n : i - s.position \in 1..(n - s.position)
      BY <2>1
    <3> QED
      BY <2>3, <2>6, <3>1, <3>2
  <2>8. t = [s EXCEPT !.size = n, !.bytes = b]
    BY <1>1, <1>3, <2>2, <2>3, <2>4 DEF dino_string_resize
  <2>9. /\ t \in [live : BOOLEAN, size : Nat, position : Nat, bytes : Seq(Byte),
                  fault : {"none", "overrun"}]
        /\ t.size = n /\ t.bytes = b /\ t.position = s.position /\ t.live = s.live /\ t.fault = s.fault
    BY <2>6, <2>8 DEF Good
  <2>10. \A i \in 1..n : b[i] \in (IF i <= s.position THEN Char ELSE {Nul})
    BY <2>1, <2>7
  <2>11. Good(t)
    BY <2>1, <2>6, <2>9, <2>10 DEF Good
  <2>12. Text(t) = a
    BY <2>2, <2>6, <2>9, <2>11, TextFrom
  <2> QED
    BY <1>1, <1>3, <2>2, <2>9, <2>11, <2>12 DEF Moved
<1> QED
  BY <1>2, <1>3

(* A copy that fits, and one that does not. *)
LEMMA CopyIs ==
  ASSUME NEW s, Good(s), NEW src \in Seq(Char), s.position + Len(src) <= s.size
  PROVE  Appended(CopyIn(s, src, Len(src)), s, src, s.size)
<1>1. PICK t : t = CopyIn(s, src, Len(src))
  OBVIOUS
<1>2. PICK p \in Nat, n \in Nat, q \in Nat :
        /\ p = s.position /\ n = s.size /\ q = p + Len(src) /\ p <= q /\ q <= n
        /\ n < Modulus /\ s.bytes \in Seq(Byte) /\ Len(s.bytes) = n
        /\ \A i \in 1..n : s.bytes[i] \in (IF i <= p THEN Char ELSE {Nul})
  <2>1. Len(src) \in Nat
    OBVIOUS
  <2> QED
    BY <2>1, GoodIs, SMTT(30)
<1>3. PICK a : a = Text(s) /\ a \in Seq(Char) /\ Len(a) = p
  BY <1>2, TextIs
<1>4. PICK rest : rest = SubSeq(s.bytes, q + 1, n)
  OBVIOUS
<1>5. /\ rest \in Seq(Byte) /\ Len(rest) = n - q
      /\ \A i \in 1..(n - q) : rest[i] = Nul
  <2>1. /\ rest \in Seq(Byte) /\ Len(rest) = n - q
        /\ \A i \in 1..(n - q) : q + i \in 1..n /\ rest[i] = s.bytes[q + i]
    <3>1. PICK sb \in Seq(Byte) : sb = s.bytes /\ n = Len(sb)
      BY <1>2
    <3>2. rest = SubSeq(sb, q + 1, Len(sb)) /\ q <= Len(sb)
      BY <1>2, <1>4, <3>1
    <3>3. /\ rest \in Seq(Byte) /\ Len(rest) = Len(sb) - q
          /\ \A i \in 1..(Len(sb) - q) : q + i \in 1..Len(sb) /\ rest[i] = sb[q + i]
      BY <3>2, RestIs
    <3> QED
      BY <3>1, <3>3
  <2>2. \A i \in 1..(n - q) : ~ (q + i <= p)
    BY <1>2
  <2> QED
    BY <1>2, <2>1, <2>2
<1>6. PICK u : u = a \o src
  OBVIOUS
<1>7. u \in Seq(Char) /\ u \in Seq(Byte) /\ Len(u) = q
  BY <1>2, <1>3, <1>6 DEF Byte
<1>8. PICK b : b = u \o rest
  OBVIOUS
<1>9. /\ b \in Seq(Byte) /\ Len(b) = n
      /\ \A i \in 1..q : b[i] = u[i]
      /\ \A i \in (q + 1)..n : b[i] = rest[i - q]
  <2>1. Len(u) = q /\ Len(u) + Len(rest) = n /\ u \in Seq(Byte) /\ rest \in Seq(Byte)
    <3>1. Len(u) = q /\ Len(rest) = n - q
      BY <1>5, <1>7
    <3>2. q + (n - q) = n
      OBVIOUS
    <3> QED
      BY <1>5, <1>7, <3>1, <3>2
  <2>2. /\ b \in Seq(Byte) /\ Len(b) = Len(u) + Len(rest)
        /\ \A i \in 1..Len(u) : b[i] = u[i]
        /\ \A i \in (Len(u) + 1)..(Len(u) + Len(rest)) : b[i] = rest[i - Len(u)]
    BY <1>8, <2>1, JoinIs
  <2> QED
    BY <2>1, <2>2
<1>10. \A i \in 1..n : b[i] \in (IF i <= q THEN Char ELSE {Nul})
  <2> SUFFICES ASSUME NEW i \in 1..n
               PROVE  b[i] \in (IF i <= q THEN Char ELSE {Nul})
    OBVIOUS
  <2>1. CASE i <= q
    <3>1. i \in 1..q /\ u[i] \in Char
      BY <1>7, <2>1
    <3> QED
      BY <1>9, <2>1, <3>1
  <2>2. CASE ~ (i <= q)
    <3>1. i \in (q + 1)..n /\ i - q \in 1..(n - q)
      BY <2>2
    <3>2. b[i] = Nul
      BY <1>5, <1>9, <3>1
    <3> QED
      BY <2>2, <3>2
  <2> QED
    BY <2>1, <2>2
<1>11. t = [s EXCEPT !.position = q, !.bytes = b]
  <2>1. ~ (s.position + Len(src) > s.size)
    BY <1>2
  <2> QED
    BY <1>1, <1>2, <1>3, <1>4, <1>6, <1>8, <2>1 DEF CopyIn
<1>12. /\ t \in [live : BOOLEAN, size : Nat, position : Nat, bytes : Seq(Byte),
                fault : {"none", "overrun"}]
       /\ t.size = n /\ t.bytes = b /\ t.position = q /\ t.live = s.live /\ t.fault = s.fault
  <2>1. s \in [live : BOOLEAN, size : Nat, position : Nat, bytes : Seq(Byte),
               fault : {"none", "overrun"}]
    BY DEF Good
  <2> QED
    BY <1>2, <1>9, <1>11, <2>1
<1>13. Good(t)
  BY <1>2, <1>9, <1>10, <1>12 DEF Good
<1>14. Text(t) = u
  <2>1. Len(u) = t.position /\ \A i \in 1..t.position : t.bytes[i] = u[i]
    BY <1>7, <1>9, <1>12
  <2> QED
    BY <1>7, <1>13, <2>1, TextFrom
<1> QED
  BY <1>1, <1>2, <1>3, <1>6, <1>12, <1>13, <1>14 DEF Appended

LEMMA OverrunIs ==
  ASSUME NEW s, Good(s), NEW src, NEW length \in Nat, s.position + length > s.size
  PROVE  Overrun(CopyIn(s, src, length)) /\ CopyIn(s, src, length).live = s.live
<1>1. CopyIn(s, src, length) = [s EXCEPT !.fault = "overrun"]
  BY DEF CopyIn, Faulted
<1>2. Good([s EXCEPT !.fault = "overrun"])
  BY DEF Good
<1>3. /\ [s EXCEPT !.fault = "overrun"].fault = "overrun"
      /\ [s EXCEPT !.fault = "overrun"].live = s.live
  BY DEF Good
<1> QED
  BY <1>1, <1>2, <1>3 DEF Overrun

-----------------------------------------------------------------------------
(* How far a buffer grows. *)

(* What is left of a buffer that is full to the brim is all of size_t. *)
LEMMA RemainingIs ==
  ASSUME NEW s, Good(s)
  PROVE  /\ CharsRemaining(s) = IF s.position < s.size THEN s.size - s.position - 1 ELSE Modulus - 1
         /\ CharsRemaining(s) \in Nat /\ CharsRemaining(s) < Modulus
<1>1. PICK n \in Nat, p \in Nat : n = s.size /\ p = s.position /\ p <= n /\ n < Modulus
  BY GoodIs
<1>2. Modulus \in Nat /\ Modulus >= 2
  BY ModulusIs
<1>3. Minus(n, p) = n - p /\ n - p \in Nat /\ n - p < Modulus
  BY <1>1, <1>2, MinusIs
<1>4. PICK m \in Nat : m = n - p /\ m = Minus(n, p) /\ m < Modulus
  BY <1>3
<1>5. Minus(m, 1) = IF 1 <= m THEN m - 1 ELSE m - 1 + Modulus
  BY <1>2, <1>4, MinusIs
<1>6. CharsRemaining(s) = Minus(m, 1)
  BY <1>1, <1>4 DEF CharsRemaining
<1> QED
  BY <1>1, <1>2, <1>4, <1>5, <1>6

(* Doubling a size that is not 0 reaches what is needed before it wraps. *)
LEMMA DoublingIs ==
  ASSUME NEW size \in Nat, size >= 1, 2 * size < Modulus,
         NEW need \in Nat, need < Modulus, 2 * need < Modulus \/ need <= 2 * size,
         NEW D, D = {k \in 1..Width : (size * Pow2[k]) % Pow2[Width] >= need},
         NEW grown, grown = (size * Pow2[Min(D)]) % Pow2[Width]
  PROVE  /\ D # {}
         /\ grown \in Nat /\ need <= grown /\ size <= grown /\ grown < Modulus
         /\ need <= 2 * size => grown = 2 * size
<1> DEFINE K == {k \in 1..Width : size * Pow2[k] >= need}
<1>1. ASSUME NEW m \in Nat, NEW n \in Nat, m >= 1, n < m PROVE n % m = n
  BY <1>1
<1>2. PICK m \in Nat : m = Modulus /\ m = Pow2[Width] /\ m >= 2
  BY ModulusIs DEF Modulus
<1>3. Width \in Nat /\ Width >= 1 /\ 1..Width \in SUBSET Nat
  BY WidthAssumption
<1>4. \A k \in 1..Width : Pow2[k] \in Nat /\ size * Pow2[k] \in Nat
  <2>1. \A k \in 1..Width : Pow2[k] \in Nat
    BY <1>3, PowersOfTwo
  <2>2. \A x \in Nat : size * x \in Nat
    OBVIOUS
  <2> QED
    BY <2>1, <2>2
<1>5. K \in SUBSET Nat /\ K # {}
  <2>1. size * m >= m
    BY <1>2
  <2>2. size * Pow2[Width] >= need
    BY <1>2, <2>1
  <2> QED
    BY <1>3, <2>2
<1>6. PICK k \in K : \A j \in K : k <= j
  <2> HIDE DEF K
  <2> QED
    BY <1>5, LeastOf
<1>7. PICK x \in Nat : x = size * Pow2[k] /\ x >= need /\ k \in 1..Width
  BY <1>4
<1>8. /\ x < m /\ size <= x
      /\ need <= 2 * size => x = 2 * size
  <2>1. Pow2[1] = 2 /\ 1 \in 1..Width
    <3>1. 1 \in 1..Width /\ 1 - 1 = 0
      BY <1>3
    <3> QED
      BY <3>1, PowersOfTwo
  <2>2. CASE k = 1
    <3>1. x = 2 * size
      BY <1>7, <2>1, <2>2
    <3> QED
      BY <1>2, <3>1
  <2>3. CASE k # 1
    <3>1. k - 1 \in 1..Width /\ k - 1 < k
      BY <1>3, <1>7, <2>3
    <3>2. PICK y \in Nat : y = Pow2[k - 1] /\ Pow2[k] = 2 * y
      BY <1>4, <1>7, <3>1, PowersOfTwo
    <3>3. PICK z \in Nat : z = size * y
      OBVIOUS
    <3>4. ~ (z >= need)
      <4>1. k - 1 \notin K
        BY <1>6, <1>3, <3>1
      <4> QED
        BY <3>1, <3>2, <3>3, <4>1
    <3>5. x = 2 * z
      <4>1. size * (2 * y) = 2 * (size * y)
        OBVIOUS
      <4> QED
        BY <1>7, <3>2, <3>3, <4>1
    <3>6. ~ (2 * size >= need)
      <4>1. 1 \notin K
        BY <1>6, <1>7, <2>3
      <4>2. ~ (size * Pow2[1] >= need)
        BY <2>1, <4>1
      <4> QED
        BY <2>1, <4>2
    <3> QED
      BY <1>2, <1>7, <3>4, <3>5, <3>6
  <2> QED
    BY <2>2, <2>3
<1>9. k \in D
  <2>1. x % m = x
    BY <1>1, <1>2, <1>8
  <2> QED
    BY <1>2, <1>7, <2>1
<1>10. ASSUME NEW j \in D PROVE k <= j
  <2>1. j \in 1..Width
    OBVIOUS
  <2>2. PICK y \in Nat : y = size * Pow2[j] /\ y % m >= need
    BY <1>2, <1>4, <2>1
  <2>3. CASE y < m
    <3>1. y % m = y
      BY <1>1, <1>2, <2>3
    <3>2. j \in K
      BY <2>1, <2>2, <3>1
    <3> QED
      BY <1>6, <3>2
  <2>4. CASE ~ (y < m)
    <3>1. j \in K
      BY <1>2, <2>1, <2>2, <2>4
    <3> QED
      BY <1>6, <3>1
  <2> QED
    BY <2>3, <2>4
<1>11. Min(D) = k
  <2>1. D \subseteq 1..Width
    OBVIOUS
  <2>2. \A j \in D : j \in Nat
    BY <2>1
  <2>3. PICK least : least = Min(D)
    OBVIOUS
  <2>4. least \in D /\ \A j \in D : least <= j
    BY <1>9, <1>10, <2>3 DEF Min
  <2> QED
    BY <1>9, <1>10, <2>2, <2>3, <2>4
<1>12. grown = x
  <2>1. x % m = x
    BY <1>1, <1>2, <1>8
  <2> QED
    BY <1>2, <1>7, <1>11, <2>1
<1> QED
  BY <1>2, <1>7, <1>8, <1>9, <1>12

(* Unless there is no memory, the buffer grows to hold what is needed. *)
LEMMA MakeRoomIs ==
  ASSUME NEW s, Good(s), s.position < s.size, 2 * s.size < Modulus, NEW room \in BOOLEAN,
         NEW length \in Nat, ~ (CharsRemaining(s) >= length),
         NEW need \in Nat, need = Plus(s.size, Minus(length, CharsRemaining(s))),
         need < Modulus, 2 * need < Modulus \/ need <= 2 * s.size
  PROVE  \E n \in Nat :
           /\ need <= n /\ (need <= 2 * s.size => n = 2 * s.size)
           /\ Moved(MakeRoom(s, length, room), s, IF room THEN n ELSE s.size)
<1>1. PICK size \in Nat : size = s.size /\ size >= 1 /\ 2 * size < Modulus
  BY GoodIs
<1>2. PICK D : D = Doublings(s, length)
  OBVIOUS
<1>3. D = {k \in 1..Width : (size * Pow2[k]) % Pow2[Width] >= need}
  BY <1>1, <1>2 DEF Doublings
<1>4. PICK grown : grown = (size * Pow2[Min(D)]) % Pow2[Width]
  OBVIOUS
<1>5. 2 * need < Modulus \/ need <= 2 * size
  BY <1>1
<1>6. /\ D # {}
      /\ grown \in Nat /\ need <= grown /\ size <= grown /\ grown < Modulus
      /\ need <= 2 * size => grown = 2 * size
  BY <1>1, <1>3, <1>4, <1>5, DoublingIs
<1>7. MakeRoom(s, length, room) = dino_string_resize(s, grown, room)
  BY <1>1, <1>2, <1>4, <1>6 DEF MakeRoom
<1>8. Moved(dino_string_resize(s, grown, room), s, IF room THEN grown ELSE s.size)
  BY <1>1, <1>6, ResizeIs
<1> QED
  BY <1>1, <1>6, <1>7, <1>8

-----------------------------------------------------------------------------
(* The calls. *)

(* What an append may do to a string: it holds the text, or has overrun. *)
Grown(t, s, src) ==
    /\ Good(t) /\ t.live = s.live
    /\ t.fault = "none" => Text(t) = Text(s) \o src

(* A text moved to a larger buffer, or left where it was, is appended to. *)
LEMMA CopyAfterMoveIs ==
  ASSUME NEW s, Good(s), s.fault = "none", NEW n, NEW t, Moved(t, s, n), NEW src \in Seq(Char)
  PROVE  /\ Grown(CopyIn(t, src, Len(src)), s, src)
         /\ s.position + Len(src) <= n =>
              /\ CopyIn(t, src, Len(src)).fault = "none"
              /\ CopyIn(t, src, Len(src)).position = s.position + Len(src)
              /\ CopyIn(t, src, Len(src)).size = n
         /\ s.position + Len(src) > n => CopyIn(t, src, Len(src)).fault = "overrun"
<1>1. PICK u : u = CopyIn(t, src, Len(src))
  OBVIOUS
<1>2. Len(src) \in Nat /\ s.position \in Nat /\ n \in Nat
  BY GoodIs DEF Moved
<1>3. /\ Good(t) /\ t.size = n /\ Text(t) = Text(s)
      /\ t.position = s.position /\ t.live = s.live /\ t.fault = "none"
  BY DEF Moved
<1>4. CASE s.position + Len(src) <= n
  <2>1. Appended(u, t, src, t.size)
    BY <1>1, <1>3, <1>4, CopyIs
  <2> QED
    BY <1>1, <1>2, <1>3, <1>4, <2>1 DEF Appended, Grown
<1>5. CASE s.position + Len(src) > n
  <2>1. Overrun(u) /\ u.live = t.live
    BY <1>1, <1>2, <1>3, <1>5, OverrunIs
  <2> QED
    BY <1>1, <1>2, <1>3, <1>5, <2>1 DEF Overrun, Grown
<1> QED
  BY <1>2, <1>4, <1>5

LEMMA AppendCharIs ==
  ASSUME NEW s, Good(s), s.fault = "none", 2 * s.size < Modulus,
         NEW ch \in Char, NEW room \in BOOLEAN,
         NEW t, t = dino_string_append_char(s, ch, room)
  PROVE  /\ Grown(t, s, <<ch>>)
         /\ t.fault # "none" => s.position = s.size /\ (s.size = 0 \/ ~ room)
<1>1. PICK size \in Nat, position \in Nat : size = s.size /\ position = s.position /\ position <= size
  BY GoodIs
<1>2. PICK src \in Seq(Char) : src = <<ch>> /\ Len(src) = 1
  <2>1. <<ch>> \in Seq(Char) /\ Len(<<ch>>) = 1
    OBVIOUS
  <2> QED
    BY <2>1
<1>3. Plus(size, size) = 2 * size /\ 2 * size \in Nat /\ size <= 2 * size
  BY <1>1, PlusIs
<1>4. CASE position = size
  <2>1. PICK n \in Nat : n = (IF room THEN 2 * size ELSE size)
    OBVIOUS
  <2>2. PICK u : u = dino_string_resize(s, 2 * size, room)
    OBVIOUS
  <2>3. Moved(u, s, n)
    BY <1>1, <1>3, <2>1, <2>2, ResizeIs
  <2>4. t = CopyIn(u, src, Len(src))
    BY <1>1, <1>2, <1>3, <1>4, <2>2 DEF dino_string_append_char, dino_string_buffer_double_size
  <2>5. /\ Grown(t, s, src)
        /\ s.position + Len(src) <= n => t.fault = "none"
    BY <2>3, <2>4, CopyAfterMoveIs
  <2>6. room /\ size # 0 => s.position + Len(src) <= n
    BY <1>1, <1>2, <1>4, <2>1
  <2> QED
    BY <1>1, <1>2, <1>4, <2>5, <2>6
<1>5. CASE position # size
  <2>1. Moved(s, s, size)
    BY <1>1 DEF Moved
  <2>2. t = CopyIn(s, src, Len(src))
    BY <1>1, <1>2, <1>5 DEF dino_string_append_char
  <2>3. s.position + Len(src) <= size
    BY <1>1, <1>2, <1>5
  <2>4. /\ Grown(t, s, src)
        /\ s.position + Len(src) <= size => t.fault = "none"
    BY <2>1, <2>2, CopyAfterMoveIs
  <2> QED
    BY <1>2, <2>3, <2>4
<1> QED
  BY <1>4, <1>5

(* append_str keeps a byte for the terminator, unless the buffer was full to *)
(* the brim before, or there is no memory.                                     *)
LEMMA AppendStringIs ==
  ASSUME NEW s, Good(s), s.fault = "none", NEW src \in Seq(Char),
         2 * s.size < Modulus, NEW need \in Nat, need = s.position + 1 + Len(src), need < Modulus,
         s.position < s.size => 2 * need < Modulus \/ need <= 2 * s.size, NEW room \in BOOLEAN,
         NEW t, t = dino_string_append_str(s, src, room)
  PROVE  /\ Grown(t, s, src)
         /\ t.fault # "none" => s.position = s.size \/ ~ room
         /\ s.position + Len(src) <= s.size => t.fault = "none"
         /\ t.fault = "none" /\ t.position = t.size =>
              (s.position = s.size /\ s.size = t.size) \/ ~ room
<1>1. PICK size \in Nat, position \in Nat, length \in Nat :
        /\ size = s.size /\ position = s.position /\ length = Len(src) /\ position <= size
        /\ 2 * size < Modulus /\ need = position + 1 + length
        /\ position < size => 2 * need < Modulus \/ need <= 2 * size
  <2>1. Len(src) \in Nat
    OBVIOUS
  <2> QED
    BY <2>1, GoodIs
<1>2. PICK r \in Nat : /\ r = CharsRemaining(s) /\ r < Modulus
                       /\ r = IF position < size THEN size - position - 1 ELSE Modulus - 1
  BY <1>1, RemainingIs
<1>3. Modulus \in Nat /\ Modulus >= 2
  BY ModulusIs
<1>4. PICK u : u = MakeRoom(s, length, room)
  OBVIOUS
<1>5. t = IF u.fault # "none" THEN u ELSE CopyIn(u, src, Len(src))
  BY <1>1, <1>4 DEF dino_string_append_str, dino_string_append_str_length
<1>6. CASE r >= length
  <2>1. Moved(s, s, size)
    BY <1>1 DEF Moved
  <2>2. t = CopyIn(s, src, Len(src))
    <3>1. u = s
      BY <1>2, <1>4, <1>6 DEF MakeRoom
    <3> QED
      BY <1>5, <3>1
  <2>3. /\ Grown(t, s, src)
        /\ position + length <= size =>
             t.fault = "none" /\ t.position = position + length /\ t.size = size
        /\ position + length > size => t.fault = "overrun"
    BY <1>1, <2>1, <2>2, CopyAfterMoveIs
  <2>4. position < size => position + length < size
    BY <1>2, <1>6
  <2>5. position + length <= size \/ position + length > size
    OBVIOUS
  <2> QED
    BY <1>1, <2>3, <2>4, <2>5, SMTT(30)
<1>7. CASE ~ (r >= length)
  <2>1. position < size
    BY <1>1, <1>2, <1>3, <1>7
  <2>3. need = Plus(size, Minus(length, r))
    <3>1. length < Modulus
      BY <1>1, <1>3
    <3>2. Minus(length, r) = length - r
      BY <1>1, <1>2, <1>7, <3>1, MinusIs
    <3>3. PICK m \in Nat : m = length - r /\ size + m = need
      <4>1. r = size - position - 1 /\ r < length /\ need = position + 1 + length
        BY <1>1, <1>2, <1>7, <2>1
      <4>2. length - r \in Nat /\ size + (length - r) = need
        BY <4>1
      <4> QED
        BY <4>2
    <3>4. Plus(size, m) = need
      BY <3>3, PlusIs
    <3> QED
      BY <3>2, <3>3, <3>4
  <2>4. PICK n \in Nat : need <= n /\ Moved(u, s, IF room THEN n ELSE size)
    <3>1. /\ s.position < s.size /\ 2 * s.size < Modulus
          /\ 2 * need < Modulus \/ need <= 2 * s.size
      BY <1>1, <2>1
    <3>2. need = Plus(s.size, Minus(length, CharsRemaining(s)))
      BY <1>1, <1>2, <2>3
    <3>3. ~ (CharsRemaining(s) >= length)
      BY <1>2, <1>7
    <3>4. need < Modulus
      OBVIOUS
    <3>5. \E n \in Nat :
            /\ need <= n /\ (need <= 2 * s.size => n = 2 * s.size)
            /\ Moved(MakeRoom(s, length, room), s, IF room THEN n ELSE s.size)
      BY <3>1, <3>2, <3>3, <3>4, MakeRoomIs
    <3> QED
      BY <1>1, <1>4, <3>5
  <2>5. PICK end \in Nat : end = (IF room THEN n ELSE size) /\ Moved(u, s, end)
    BY <2>4
  <2>6. t = CopyIn(u, src, Len(src))
    BY <1>5, <2>5 DEF Moved
  <2>7. /\ Grown(t, s, src)
        /\ position + length <= end =>
             t.fault = "none" /\ t.position = position + length /\ t.size = end
    BY <1>1, <2>5, <2>6, CopyAfterMoveIs, SMTT(30)
  <2>8. room => position + length < end
    BY <1>1, <2>4, <2>5
  <2>9. position + length < end => position + length <= end /\ position + length # end
    OBVIOUS
  <2>10. room => t.fault = "none" /\ t.position # t.size
    BY <2>7, <2>8, <2>9
  <2>11. s.position + Len(src) <= s.size => t.fault = "none"
    <3>1. ~ room => end = size
      BY <2>5
    <3>2. s.position + Len(src) = position + length /\ s.size = size
      BY <1>1
    <3> QED
      BY <2>7, <2>10, <3>1, <3>2
  <2> QED
    BY <2>7, <2>10, <2>11
<1> QED
  BY <1>6, <1>7

(* The length of -1 makes no room that is worth mentioning, and overruns. *)
LEMMA AppendBelowZeroIs ==
  ASSUME NEW s, Good(s), s.fault = "none", 2 * s.size < Modulus, NEW room \in BOOLEAN,
         NEW t, t = dino_string_append_str_length(s, <<>>, SIZE_MAX, room)
  PROVE  Overrun(t) /\ t.live = s.live
<1>1. PICK size \in Nat, position \in Nat, length \in Nat :
        /\ size = s.size /\ position = s.position /\ length = SIZE_MAX /\ position <= size
        /\ 2 * size < Modulus /\ length = Modulus - 1
  BY GoodIs, ModulusIs
<1>2. PICK r \in Nat : /\ r = CharsRemaining(s) /\ r < Modulus
                       /\ r = IF position < size THEN size - position - 1 ELSE Modulus - 1
  BY <1>1, RemainingIs
<1>3. PICK half \in Nat : Modulus = 2 * half /\ half >= 1
  BY ModulusIs
<1>4. PICK u : u = MakeRoom(s, length, room)
  OBVIOUS
<1>5. t = IF u.fault # "none" THEN u ELSE CopyIn(u, <<>>, length)
  BY <1>1, <1>4 DEF dino_string_append_str_length
<1>6. \E n \in Nat : n <= 2 * size /\ (position = size => n = size) /\ Moved(u, s, n)
  <2>1. CASE position = size
    <3>1. CharsRemaining(s) >= length
      BY <1>1, <1>2, <1>3, <2>1
    <3>2. u = s
      BY <1>4, <3>1 DEF MakeRoom
    <3> QED
      BY <1>1, <3>2 DEF Moved
  <2>2. CASE position # size
    <3>1. position < size
      BY <1>1, <2>2
    <3>2. PICK m \in Nat : /\ m = Modulus /\ r = size - position - 1 /\ length = m - 1
                           /\ 2 * size < m
      BY <1>1, <1>2, <1>3, <3>1
    <3>3. Minus(length, r) = length - r
      <4>1. r <= length /\ length < m
        BY <3>1, <3>2
      <4> QED
        BY <1>2, <3>2, <4>1, MinusIs
    <3>4. PICK more \in Nat : more = length - r /\ size + more = m + position
      <4>1. length - r \in Nat /\ size + (length - r) = m + position
        BY <3>1, <3>2
      <4> QED
        BY <4>1
    <3>5. Plus(size, more) = position
      <4>1. m <= size + more /\ size + more < 2 * m
        BY <3>1, <3>2, <3>4
      <4>2. Plus(size, more) = size + more - m
        BY <3>2, <4>1, PlusIs
      <4> QED
        BY <3>2, <3>4, <4>2
    <3>6. position = Plus(s.size, Minus(length, CharsRemaining(s)))
      BY <1>1, <1>2, <3>3, <3>4, <3>5
    <3>7. /\ s.position < s.size /\ 2 * s.size < Modulus /\ ~ (CharsRemaining(s) >= length)
          /\ position < Modulus /\ position <= 2 * s.size
      BY <1>1, <1>2, <3>1, <3>2, SMTT(30)
    <3>8. \E n \in Nat :
            /\ position <= n /\ (position <= 2 * s.size => n = 2 * s.size)
            /\ Moved(MakeRoom(s, length, room), s, IF room THEN n ELSE s.size)
      BY <3>6, <3>7, MakeRoomIs
    <3> QED
      BY <1>1, <1>4, <2>2, <3>7, <3>8
  <2> QED
    BY <2>1, <2>2
<1>7. PICK n \in Nat : n <= 2 * size /\ (position = size => n = size) /\ Moved(u, s, n)
  BY <1>6
<1>8. Good(u) /\ u.fault = "none" /\ u.position = position /\ u.size = n /\ u.live = s.live
  BY <1>1, <1>7 DEF Moved
<1>9. position + length > n
  BY <1>1, <1>3, <1>7
<1>10. t = CopyIn(u, <<>>, length)
  BY <1>5, <1>8
<1> QED
  BY <1>8, <1>9, <1>10, OverrunIs

(* A fresh buffer, and one set back to its start. *)
LEMMA BlankIs ==
  ASSUME NEW n \in Nat, n < Modulus, NEW live \in BOOLEAN, NEW s,
         s = [live |-> live, size |-> n, position |-> 0, bytes |-> Zeros(n), fault |-> "none"]
  PROVE  Good(s) /\ Text(s) = <<>> /\ s.live = live /\ s.size = n /\ s.position = 0 /\ s.fault = "none"
<1>2. Zeros(n) \in Seq(Byte) /\ Len(Zeros(n)) = n /\ \A i \in 1..n : Zeros(n)[i] = Nul
  BY ZerosIs DEF Byte
<1>3. s.position = 0 /\ s.bytes = Zeros(n) /\ s.fault = "none" /\ s.live = live /\ s.size = n
  OBVIOUS
<1>4. Good(s)
  BY <1>2, <1>3 DEF Good
<1>5. Text(s) = <<>>
  <2>1. <<>> \in Seq(Char) /\ Len(<<>>) = 0
    BY EmptySeq
  <2>2. PICK u \in Seq(Char) : u = <<>> /\ Len(u) = 0
    BY <2>1
  <2>3. Len(u) = s.position /\ \A i \in 1..s.position : s.bytes[i] = u[i]
    BY <1>3, <2>2
  <2> QED
    BY <1>4, <2>2, <2>3, TextFrom
<1> QED
  BY <1>3, <1>4, <1>5

-----------------------------------------------------------------------------
(* Every step, and what it keeps. *)

Sound(s) == Good(s) /\ (~ s.live => s = NoString)

(* The invariant; all of it is about the string. *)
StringInv == Sound(str)

(* A call c that takes the string s to t does not surprise. *)
KnownOverrun(s, t, c) ==
    t.fault # "none" =>
        /\ s.live
        /\ \/ s.position = s.size /\ (s.size = 0 \/ c.op = "append string")
           \/ ~ c.room
           \/ c.length = SIZE_MAX

KnownFilling(s, t, c) == Full(t) /\ ~ Full(s) => c.op = "append char" \/ ~ c.room

KnownText(s, t, c) ==
    t.fault = "none" =>
        \/ /\ c.op = "create" /\ ~ s.live
           /\ t.live = TRUE /\ Text(t) = c.text
        \/ /\ c.op \in {"append char", "append string"} /\ s.live
           /\ t.live = TRUE /\ Text(t) = Text(s) \o c.text
        \/ c.op = "reset" /\ s.live /\ t.live = TRUE /\ Text(t) = <<>>
        \/ c.op = "delete" /\ s.live /\ t.live = FALSE /\ Text(t) = <<>>

Expected(s, t, c) ==
    Sound(t) /\ KnownOverrun(s, t, c) /\ KnownFilling(s, t, c) /\ KnownText(s, t, c)

LEMMA GrownText ==
  ASSUME NEW s, Good(s), s.live, NEW t, NEW c, Grown(t, s, c.text),
         c.op = "append char" \/ c.op = "append string"
  PROVE  KnownText(s, t, c) /\ Sound(t)
<1>1. Good(t) /\ t.live = s.live /\ s.live = TRUE
  BY GoodIs DEF Grown
<1> QED
  BY <1>1 DEF Grown, KnownText, Sound

LEMMA StringsAre ==
  ASSUME NEW src \in Strings
  PROVE  src \in Seq(Char) /\ Len(src) \in Nat /\ Len(src) <= MaxLength
<1>1. PICK n \in 0..MaxLength : src \in [1..n -> Char]
  BY DEF Strings
<1>2. n \in Nat /\ n <= MaxLength
  BY MaxLengthAssumption
<1> QED
  BY <1>1, <1>2

LEMMA NoStringIs ==
  Good(NoString) /\ Text(NoString) = <<>> /\ NoString.live = FALSE /\ NoString.size = 0
  /\ NoString.position = 0 /\ NoString.fault = "none"
<1>1. PICK s : s = NoString
  OBVIOUS
<1>3. Zeros(0) = <<>>
  BY ZerosIs, EmptySeq DEF Zeros
<1>4. s = [live |-> FALSE, size |-> 0, position |-> 0, bytes |-> Zeros(0), fault |-> "none"]
  BY <1>1, <1>3 DEF NoString
<1>5. 0 \in Nat /\ 0 < Modulus /\ FALSE \in BOOLEAN
  BY ModulusIs
<1> QED
  BY <1>1, <1>4, <1>5, BlankIs, ZenonT(60)

LEMMA SoundIs ==
  ASSUME StringInv
  PROVE  /\ Good(str) /\ (~ str.live => str = NoString)
         /\ MayGrow => str.live /\ str.fault = "none" /\ 2 * (str.size + MaxLength) < Modulus
                       /\ 2 * str.size < Modulus
<1>1. Good(str) /\ (~ str.live => str = NoString)
  BY DEF StringInv, Sound
<1>2. MayGrow => str.live /\ str.fault = "none" /\ str.size <= MaxSize
  BY DEF MayGrow
<1>3. str.size \in Nat
  BY <1>1, GoodIs
<1> QED
  BY <1>1, <1>2, <1>3, ModulusIs

LEMMA NewIs ==
  ASSUME StringInv, New
  PROVE  Expected(str, str', call')
<1>1. ~ str.live /\ str = NoString
  BY SoundIs DEF New
<1>2. str.position = 0 /\ str.size = 0
  BY <1>1, NoStringIs
<1>3. CASE \E n \in Sizes : str' = dino_string_new_with_size(n) /\ Called("create", <<>>, n, TRUE)
  <2>1. PICK n \in Sizes :
          /\ str' = dino_string_new_with_size(n)
          /\ call' = [op |-> "create", text |-> <<>>, length |-> n, room |-> TRUE]
    BY <1>3 DEF Called
  <2>2. PICK m \in Nat : m = n /\ m < Modulus
    BY ModulusIs, SizesAssumption
  <2>3. PICK t : t = str' /\ t = [live |-> TRUE, size |-> m, position |-> 0, bytes |-> Zeros(m),
                                  fault |-> "none"]
    BY <2>1, <2>2 DEF dino_string_new_with_size
  <2>4. /\ Good(t) /\ Text(t) = <<>> /\ t.live = TRUE
        /\ t.size = m /\ t.position = 0 /\ t.fault = "none"
    <3>1. t = [live |-> TRUE, size |-> m, position |-> 0, bytes |-> Zeros(m), fault |-> "none"]
      BY <2>3
    <3>2. m < Modulus
      BY <2>2
    <3> QED
      BY <3>1, <3>2, BlankIs
  <2>5. ~ Full(t)
    BY <2>4 DEF Full
  <2> QED
    BY <1>1, <2>1, <2>3, <2>4, <2>5 DEF Expected, Sound, KnownOverrun, KnownFilling, KnownText
<1>4. CASE \E string \in Strings, room \in Rooms :
             /\ str' = dino_string_new_with_str(string, room)
             /\ Called("create", string, Len(string), room)
  <2>1. PICK string \in Strings, room \in Rooms :
          /\ str' = dino_string_new_with_str(string, room)
          /\ call' = [op |-> "create", text |-> string, length |-> Len(string), room |-> room]
    BY <1>4 DEF Called
  <2>2. PICK n \in Nat : n = Len(string) /\ n <= MaxLength /\ string \in Seq(Char)
    BY StringsAre
  <2>3. PICK s : s = [live |-> TRUE, size |-> n, position |-> 0, bytes |-> Zeros(n), fault |-> "none"]
    OBVIOUS
  <2>4. n < Modulus /\ 2 * n < Modulus /\ 1 < Modulus
    BY <2>2, ModulusIs
  <2>5. /\ Good(s) /\ Text(s) = <<>> /\ s.live = TRUE
        /\ s.size = n /\ s.position = 0 /\ s.fault = "none"
    BY <2>3, <2>4, BlankIs
  <2>6. PICK t : t = str' /\ t = dino_string_append_str(s, string, room)
    BY <2>1, <2>2, <2>3 DEF dino_string_new_with_str, dino_string_new_with_size
  <2>7. /\ Grown(t, s, string) /\ t.fault = "none"
        /\ t.fault = "none" /\ t.position = t.size =>
             (s.position = s.size /\ s.size = t.size) \/ ~ room
    <3>1. room \in BOOLEAN
      BY RoomsAssumption
    <3>2. PICK need \in Nat : need = s.position + 1 + Len(string) /\ need = n + 1
      BY <2>2, <2>5
    <3>3. need < Modulus /\ (s.position < s.size => need <= 2 * s.size) /\ 2 * s.size < Modulus
      <4>1. n = 0 \/ n >= 1
        OBVIOUS
      <4> QED
        BY <2>4, <2>5, <3>2, <4>1, ModulusIs
    <3>4. s.position + Len(string) <= s.size
      BY <2>2, <2>5
    <3> QED
      BY <2>2, <2>5, <2>6, <3>1, <3>2, <3>3, <3>4, AppendStringIs
  <2>8. Good(t) /\ t.live = TRUE /\ t.fault = "none" /\ Text(t) = string
    <3>1. Text(t) = <<>> \o string
      BY <2>5, <2>7 DEF Grown
    <3>2. <<>> \o string = string
      BY <2>2
    <3> QED
      BY <2>5, <2>7, <3>1, <3>2 DEF Grown
  <2>9. call'.op = "create" /\ call'.room = room /\ call'.text = string
    BY <2>1
  <2>10. Full(t) => ~ room
    BY <2>5, <2>7 DEF Full
  <2> QED
    BY <1>1, <1>2, <2>6, <2>8, <2>9, <2>10
       DEF Expected, Sound, KnownOverrun, KnownFilling, KnownText
<1> QED
  BY <1>3, <1>4 DEF New

LEMMA AppendCharStep ==
  ASSUME StringInv, AppendChar
  PROVE  Expected(str, str', call')
<1>1. PICK ch \in Char, room \in Rooms :
        /\ str' = dino_string_append_char(str, ch, room)
        /\ call' = [op |-> "append char", text |-> <<ch>>, length |-> 1, room |-> room]
  BY DEF AppendChar, Called
<1>2. PICK s : s = str /\ Good(s) /\ s.live /\ s.fault = "none" /\ 2 * s.size < Modulus
  BY SoundIs DEF AppendChar
<1>3. PICK t : t = str' /\ t = dino_string_append_char(s, ch, room)
  BY <1>1, <1>2
<1>4. room \in BOOLEAN
  BY RoomsAssumption
<1>5. /\ Grown(t, s, <<ch>>)
      /\ t.fault # "none" => s.position = s.size /\ (s.size = 0 \/ ~ room)
  BY <1>2, <1>3, <1>4, AppendCharIs
<1>6. <<ch>> \in Seq(Char)
  OBVIOUS
<1>7. call'.op = "append char" /\ call'.room = room /\ call'.text = <<ch>>
  BY <1>1
<1>8. KnownText(s, t, call') /\ Sound(t)
  <2>1. PICK c : c = call' /\ c.op = "append char" /\ c.text = <<ch>>
    BY <1>7
  <2>2. Grown(t, s, c.text) /\ Good(s) /\ s.live
    BY <1>2, <1>5, <2>1
  <2>3. KnownText(s, t, c) /\ Sound(t)
    BY <2>1, <2>2, GrownText
  <2> QED
    BY <2>1, <2>3
<1> QED
  BY <1>2, <1>3, <1>5, <1>7, <1>8 DEF Expected, KnownOverrun, KnownFilling

LEMMA AppendStringStep ==
  ASSUME StringInv, AppendString
  PROVE  Expected(str, str', call')
<1>1. PICK src \in Strings, room \in Rooms :
        /\ str' = dino_string_append_str(str, src, room)
        /\ call' = [op |-> "append string", text |-> src, length |-> Len(src), room |-> room]
  BY DEF AppendString, Called
<1>2. PICK s : s = str /\ Good(s) /\ s.live /\ s.fault = "none" /\ 2 * (s.size + MaxLength) < Modulus
  BY SoundIs DEF AppendString
<1>3. PICK t : t = str' /\ t = dino_string_append_str(s, src, room)
  BY <1>1, <1>2
<1>4. room \in BOOLEAN /\ src \in Seq(Char)
  BY RoomsAssumption, StringsAre
<1>5. /\ 2 * s.size < Modulus
      /\ \E need \in Nat :
           /\ need = s.position + 1 + Len(src) /\ need < Modulus
           /\ s.position < s.size => 2 * need < Modulus \/ need <= 2 * s.size
  <2>1. PICK size \in Nat, position \in Nat, length \in Nat, m \in Nat :
          /\ size = s.size /\ position = s.position /\ position <= size
          /\ length = Len(src) /\ m = MaxLength /\ length <= m
    BY <1>2, GoodIs, StringsAre, MaxLengthAssumption
  <2>2. PICK half \in Nat : Modulus = 2 * half /\ half >= 1 /\ 2 * (size + m) < 2 * half
    BY <1>2, <2>1, ModulusIs
  <2>3. PICK need \in Nat : need = position + 1 + length
    OBVIOUS
  <2>4. need < Modulus /\ (position < size => 2 * need < Modulus) /\ 2 * size < Modulus
    <3>1. position <= size /\ length <= m /\ half >= 1 /\ size + m < half
      BY <2>1, <2>2
    <3>2. need < 2 * half /\ (position < size => 2 * need < 2 * half) /\ 2 * size < 2 * half
      BY <2>3, <3>1
    <3> QED
      BY <2>2, <3>2
  <2> QED
    BY <2>1, <2>3, <2>4
<1>6. /\ Grown(t, s, src)
      /\ t.fault # "none" => s.position = s.size \/ ~ room
      /\ t.fault = "none" /\ t.position = t.size =>
           (s.position = s.size /\ s.size = t.size) \/ ~ room
  BY <1>2, <1>3, <1>4, <1>5, AppendStringIs
<1>7. call'.op = "append string" /\ call'.room = room /\ call'.text = src
  BY <1>1
<1>8. KnownText(s, t, call') /\ Sound(t)
  <2>1. PICK c : c = call' /\ c.op = "append string" /\ c.text = src
    BY <1>7
  <2>2. Grown(t, s, c.text) /\ Good(s) /\ s.live
    BY <1>2, <1>6, <2>1
  <2>3. KnownText(s, t, c) /\ Sound(t)
    BY <2>1, <2>2, GrownText
  <2> QED
    BY <2>1, <2>3
<1>9. KnownOverrun(s, t, call')
  BY <1>2, <1>6, <1>7 DEF KnownOverrun
<1>10. Full(t) /\ ~ Full(s) => ~ room
  BY <1>2, <1>6 DEF Full
<1> QED
  BY <1>2, <1>3, <1>7, <1>8, <1>9, <1>10 DEF Expected, KnownFilling

LEMMA BelowZeroStep ==
  ASSUME StringInv, AppendLengthBelowZero
  PROVE  Expected(str, str', call')
<1>1. PICK room \in Rooms :
        /\ str' = dino_string_append_str_length(str, <<>>, SIZE_MAX, room)
        /\ call' = [op |-> "append string", text |-> <<>>, length |-> SIZE_MAX, room |-> room]
  BY DEF AppendLengthBelowZero, Called
<1>2. PICK s : s = str /\ Good(s) /\ s.live /\ s.fault = "none" /\ 2 * s.size < Modulus
  BY SoundIs DEF AppendLengthBelowZero
<1>3. PICK t : t = str' /\ t = dino_string_append_str_length(s, <<>>, SIZE_MAX, room)
  BY <1>1, <1>2
<1>4. room \in BOOLEAN
  BY RoomsAssumption
<1>5. Good(t) /\ t.fault = "overrun" /\ t.live
  BY <1>2, <1>3, <1>4, AppendBelowZeroIs DEF Overrun
<1>6. call'.length = SIZE_MAX
  BY <1>1
<1> QED
  BY <1>2, <1>3, <1>5, <1>6
     DEF Expected, Sound, KnownOverrun, KnownFilling, KnownText, Full

LEMMA ResetStep ==
  ASSUME StringInv, Reset
  PROVE  Expected(str, str', call')
<1>1. PICK s : s = str /\ Good(s) /\ s.live = TRUE /\ s.fault = "none"
  <2>1. str.live \in BOOLEAN
    BY SoundIs, GoodIs
  <2> QED
    BY <2>1, SoundIs DEF Reset
<1>2. PICK n \in Nat : n = s.size /\ n < Modulus
  BY <1>1, GoodIs
<1>3. PICK t : t = str' /\ t = [s EXCEPT !.position = 0, !.bytes = Zeros(n)]
  BY <1>1, <1>2 DEF Reset, dino_string_reset
<1>4. t = [live |-> TRUE, size |-> n, position |-> 0, bytes |-> Zeros(n), fault |-> "none"]
  BY <1>1, <1>2, <1>3 DEF Good
<1>5. Good(t) /\ Text(t) = <<>> /\ t.live = TRUE /\ t.size = n /\ t.position = 0 /\ t.fault = "none"
  BY <1>2, <1>4, BlankIs
<1>6. ~ Full(t)
  BY <1>5 DEF Full
<1>7. call'.op = "reset"
  BY DEF Reset, Called
<1> QED
  BY <1>1, <1>3, <1>5, <1>6, <1>7 DEF Expected, Sound, KnownOverrun, KnownFilling, KnownText

LEMMA DeleteStep ==
  ASSUME StringInv, dino_string_delete
  PROVE  Expected(str, str', call')
<1>1. PICK s : s = str /\ s.live
  BY DEF dino_string_delete
<1>2. PICK t : t = str' /\ t = NoString
  BY DEF dino_string_delete
<1>3. Good(t) /\ Text(t) = <<>> /\ t.live = FALSE /\ t.size = 0 /\ t.fault = "none"
  BY <1>2, NoStringIs
<1>4. call'.op = "delete"
  BY DEF dino_string_delete, Called
<1> QED
  BY <1>1, <1>2, <1>3, <1>4 DEF Expected, Sound, KnownOverrun, KnownFilling, KnownText, Full

LEMMA StepExpected ==
  StringInv /\ Next => Expected(str, str', call')
  BY NewIs, AppendCharStep, AppendStringStep, BelowZeroStep, ResetStep, DeleteStep DEF Next

-----------------------------------------------------------------------------
(* The theorems. *)

(* No call of dino_string.c leaves the text outside its buffer, the buffer   *)
(* of another length than size says, or bytes behind the text.                 *)
THEOREM StringInvHolds == Spec => []StringInv
<1>1. Init => StringInv
  BY NoStringIs DEF Init, StringInv, Sound
<1>2. StringInv /\ [Next]_vars => StringInv'
  <2>1. StringInv /\ Next => StringInv'
    BY StepExpected DEF Expected, StringInv
  <2>2. StringInv /\ UNCHANGED vars => StringInv'
    BY DEF StringInv, vars
  <2> QED
    BY <2>1, <2>2
<1> QED
  BY <1>1, <1>2, PTL DEF Spec

(* The same, as the type invariant puts it: every size fits a size_t, and    *)
(* the doubling loop always ends.                                              *)
THEOREM StringTypeCorrect == Spec => []TypeOK
<1>1. StringInv => TypeOK
  <2> SUFFICES ASSUME StringInv PROVE TypeOK
    OBVIOUS
  <2>1. Good(str)
    BY SoundIs
  <2>2. /\ str.size \in Nat /\ str.position \in Nat /\ str.position <= str.size /\ str.size < Modulus
        /\ str.live \in BOOLEAN /\ str.fault \in {"none", "overrun"}
        /\ Len(str.bytes) = str.size
        /\ \A i \in 1..str.size : str.bytes[i] \in (IF i <= str.position THEN Char ELSE {Nul})
    BY <2>1, GoodIs
  <2>3. str.size \in 0..SIZE_MAX /\ str.position \in 0..str.size
    BY <2>2, ModulusIs
  <2> QED
    BY <2>2, <2>3 DEF TypeOK
<1> QED
  BY <1>1, StringInvHolds, PTL

(* However the sizes work out in size_t, an append writes outside the buffer *)
(* only if that was full to the brim, if memory_realloc finds no memory, or if  *)
(* it is given the length of -1.                                               *)
THEOREM OverrunsAreKnown == Spec => OverrunsOnlyAtTheBrim
<1>1. StringInv /\ [Next]_vars =>
        [str'.fault # "none" =>
           /\ str'.fault = "overrun"
           /\ str.live
           /\ \/ Brimful(str)
              \/ ~ call'.room
              \/ call'.length = SIZE_MAX]_vars
  <2> SUFFICES ASSUME StringInv, Next, str'.fault # "none"
               PROVE  /\ str'.fault = "overrun"
                      /\ str.live
                      /\ Brimful(str) \/ ~ call'.room \/ call'.length = SIZE_MAX
    OBVIOUS
  <2>1. PICK t : t = str' /\ Expected(str, t, call')
    BY StepExpected
  <2>2. t.fault \in {"none", "overrun"}
    BY <2>1, GoodIs DEF Expected, Sound
  <2> QED
    BY <2>1, <2>2 DEF Expected, KnownOverrun, Brimful
<1> QED
  BY <1>1, StringInvHolds, PTL DEF Spec, OverrunsOnlyAtTheBrim

(* dino_string_append_str keeps its byte 0 behind the text: only             *)
(* dino_string_append_char, or a lack of memory, fills a buffer to the brim.    *)
THEOREM OnlyCharFillsUp == Spec => FillsUpOnlyByChar
<1>1. StringInv /\ [Next]_vars =>
        [Full(str') /\ ~ Full(str) => call'.op = "append char" \/ ~ call'.room]_vars
  BY StepExpected DEF Expected, KnownFilling
<1> QED
  BY <1>1, StringInvHolds, PTL DEF Spec, FillsUpOnlyByChar

(* As long as nothing faults, every call leaves the text dino_string.h       *)
(* promises: the text before with all of what the call is given behind it,     *)
(* wherever the bytes are moved.                                               *)
THEOREM ImplementsTextBuffer == Spec => KeepsItsText
<1>1. StringInv /\ [Next]_vars => [str'.fault = "none" => T!TextNext]_vars
  <2> SUFFICES ASSUME StringInv, Next, str'.fault = "none"
               PROVE  T!TextNext
    OBVIOUS
  <2>1. PICK t : t = str' /\ Expected(str, t, call')
    BY StepExpected
  <2>2. Text(str)' = Text(t) /\ str'.live = t.live /\ t.fault = "none" /\ t.live \in BOOLEAN
    BY <2>1, GoodIs DEF Expected, Sound
  <2> QED
    BY <2>1, <2>2 DEF Expected, KnownText, T!TextNext, T!AppendText, T!Create, T!Reset, T!Destroy
<1> QED
  BY <1>1, StringInvHolds, PTL DEF Spec, KeepsItsText

=============================================================================
