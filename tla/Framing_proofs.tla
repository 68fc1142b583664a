--------------------------- MODULE Framing_proofs ----------------------------
(***************************************************************************)
(* Theorems about the wire and its readers, for octets of every size, every    *)
(* limit, all messages and every way in which the octets may arrive.           *)
(***************************************************************************)
EXTENDS Framing, TLAPS, SequenceTheorems, WellFoundedInduction

-----------------------------------------------------------------------------
(* Numbers.                                                                  *)

LEMMA LeastExists ==
    ASSUME NEW S \in SUBSET Nat, S # {}
    PROVE  \E i \in S : \A j \in S : i <= j
<1> DEFINE Less == OpToRel(<, Nat)
<1>1. \A x, y \in Nat : x < y => <<x, y>> \in Less
  BY DEF OpToRel
<1>2. IsWellFoundedOn(Less, Nat)
  BY NatLessThanWellFounded
<1> HIDE DEF Less
<1>3. PICK i \in S : \A j \in S : ~ (<<j, i>> \in Less)
  BY <1>2, WFMin
<1>4. ASSUME NEW j \in S PROVE i <= j
  <2>1. i \in Nat /\ j \in Nat /\ ~ (<<j, i>> \in Less)
    BY <1>3
  <2> QED
    BY <1>1, <2>1
<1> QED
  BY <1>4

LEMMA AllNumbers ==
    ASSUME NEW Q \in SUBSET Nat, 0 \in Q, \A n \in Q : n + 1 \in Q
    PROVE  Q = Nat
<1> SUFFICES ASSUME Nat \ Q # {} PROVE FALSE
  OBVIOUS
<1>1. PICK i \in Nat \ Q : \A j \in Nat \ Q : i <= j
  BY LeastExists
<1>2. i - 1 \in Nat /\ i - 1 \notin Nat \ Q
  BY <1>1
<1> QED
  BY <1>1, <1>2

(* A function of the numbers up to n can be defined by its first value and by   *)
(* how each comes from the one before.                                       *)
Recursive(n, S, a, g) ==
    \E f \in [0..n -> S] : f[0] = a /\ \A i \in 1..n : f[i] = g[i][f[i - 1]]

LEMMA Recursion ==
    ASSUME NEW n \in Nat, NEW S, NEW a \in S, NEW g \in [1..n -> [S -> S]]
    PROVE  Recursive(n, S, a, g)
<1> DEFINE Good(f, k) == \A i \in 0..k : f[i] = IF i = 0 THEN a ELSE g[i][f[i - 1]]
           Q == {k \in Nat : k <= n => \E f \in [0..n -> S] : Good(f, k)}
<1>1. 0 \in Q
  <2>1. [i \in 0..n |-> a] \in [0..n -> S] /\ Good([i \in 0..n |-> a], 0)
    OBVIOUS
  <2> QED
    BY <2>1
<1>2. ASSUME NEW k \in Q PROVE k + 1 \in Q
  <2> SUFFICES ASSUME k + 1 <= n PROVE \E f \in [0..n -> S] : Good(f, k + 1)
    OBVIOUS
  <2>1. PICK f \in [0..n -> S] : Good(f, k)
    OBVIOUS
  <2> DEFINE h == [f EXCEPT ![k + 1] = g[k + 1][f[k]]]
  <2>2. h \in [0..n -> S]
    OBVIOUS
  <2>3. ASSUME NEW i \in 0..(k + 1) PROVE h[i] = IF i = 0 THEN a ELSE g[i][h[i - 1]]
    <3>1. CASE i = k + 1
      <4>1. h[i] = g[k + 1][f[k]] /\ h[i - 1] = f[k] /\ i # 0
        BY <3>1
      <4> QED
        BY <3>1, <4>1
    <3>2. CASE i # k + 1
      <4>1. i \in 0..k /\ h[i] = f[i]
        BY <3>2
      <4>2. i # 0 => h[i - 1] = f[i - 1]
        BY <4>1
      <4> QED
        BY <2>1, <4>1, <4>2
    <3> QED
      BY <3>1, <3>2
  <2> HIDE DEF h
  <2> QED
    BY <2>2, <2>3
<1>3. Q = Nat
  <2> HIDE DEF Q
  <2>1. Q \in SUBSET Nat
    BY DEF Q
  <2> QED
    BY <1>1, <1>2, <2>1, AllNumbers
<1>4. n \in Q
  BY <1>3
<1>5. PICK f \in [0..n -> S] : Good(f, n)
  BY <1>4
<1> QED
  BY <1>5 DEF Recursive

LEMMA Bases == Base \in Nat /\ Base >= 4 /\ Octet = 0..(Base - 1)
BY WireAssumption DEF Octet

(* The equations of Pow, a recursive function.                              *)
LEMMA Powers ==
    /\ Pow \in [0..8 -> Nat \ {0}]
    /\ Pow[0] = 1
    /\ \A k \in 1..8 : Pow[k] = Base * Pow[k - 1]
<1> DEFINE S == Nat \ {0}
           g == [k \in 1..8 |-> [x \in S |-> Base * x]]
<1>1. \A x \in S : Base * x \in S
  BY Bases
<1>2. g \in [1..8 -> [S -> S]] /\ 1 \in S /\ 8 \in Nat
  BY <1>1
<1>3. PICK f \in [0..8 -> S] : f[0] = 1 /\ \A k \in 1..8 : f[k] = g[k][f[k - 1]]
  <2>1. Recursive(8, S, 1, g)
    <3> HIDE DEF S, g
    <3> QED
      BY <1>2, Recursion, Zenon
  <2> QED
    BY <2>1 DEF Recursive
<1>4. \A k \in 1..8 : g[k][f[k - 1]] = Base * f[k - 1]
  OBVIOUS
<1>5. f = [k \in 0..8 |-> IF k = 0 THEN 1 ELSE Base * f[k - 1]]
  BY <1>3, <1>4
<1>6. Pow = [k \in 0..8 |-> IF k = 0 THEN 1 ELSE Base * Pow[k - 1]]
  BY <1>5 DEF Pow
<1>7. Pow[0] = 1 /\ \A k \in 1..8 : Pow[k] = Base * Pow[k - 1]
  BY <1>6
<1>8. Pow = f
  <2> DEFINE Q == {k \in Nat : k <= 8 => Pow[k] = f[k]}
  <2>1. 0 \in Q
    BY <1>5, <1>7
  <2>2. \A k \in Q : k + 1 \in Q
    <3> SUFFICES ASSUME NEW k \in Q, k + 1 <= 8 PROVE Pow[k + 1] = f[k + 1]
      OBVIOUS
    <3> QED
      BY <1>5, <1>7
  <2>3. Q = Nat
    <3> HIDE DEF Q
    <3>1. Q \in SUBSET Nat
      BY DEF Q
    <3> QED
      BY <2>1, <2>2, <3>1, AllNumbers
  <2> QED
    BY <1>5, <1>6, <2>3
<1> QED
  BY <1>7, <1>8

(* Division: the only quotient and remainder.                                 *)
LEMMA Divided ==
    ASSUME NEW n \in Nat, NEW k \in Nat \ {0}
    PROVE  /\ n \div k \in Nat /\ n % k \in 0..(k - 1)
           /\ n = (n \div k) * k + (n % k)
OBVIOUS

(* A number put together of quotient and remainder is taken apart again.    *)
LEMMA Undivided ==
    ASSUME NEW k \in Nat \ {0}, NEW q \in Nat, NEW r \in 0..(k - 1)
    PROVE  /\ (q * k + r) \div k = q
           /\ (q * k + r) % k = r
OBVIOUS

(* The lower digits of a number, and one more.                                *)
LEMMA OneMoreDigit ==
    ASSUME NEW v \in Nat, NEW b \in Nat \ {0}, NEW p \in Nat \ {0}
    PROVE  v % (b * p) = (v % p) + ((v \div p) % b) * p
<1> DEFINE q == v \div p  r == v % p  s == q \div b  t == q % b
<1>1. q \in Nat /\ r \in 0..(p - 1) /\ v = q * p + r
  BY Divided
<1>2. s \in Nat /\ t \in 0..(b - 1) /\ q = s * b + t
  BY <1>1, Divided
<1> HIDE DEF q, r, s, t
<1>3. q * p = s * (b * p) + t * p
  <2>1. q * p = (s * b) * p + t * p
    BY <1>1, <1>2
  <2>2. (s * b) * p = s * (b * p)
    BY <1>2
  <2> QED
    BY <2>1, <2>2
<1>4. t * p + r \in 0..(b * p - 1)
  <2>1. t * p \in Nat /\ (b - 1) * p = b * p - p /\ t * p <= (b - 1) * p
    BY <1>2
  <2> QED
    BY <1>1, <2>1
<1>5. v = s * (b * p) + (t * p + r)
  BY <1>1, <1>2, <1>3
<1>6. b * p \in Nat \ {0}
  OBVIOUS
<1>7. v % (b * p) = t * p + r
  BY <1>2, <1>4, <1>5, <1>6, Undivided
<1> QED
  BY <1>1, <1>2, <1>7 DEF q, r, s, t

LEMMA PowNat ==
    /\ \A k \in Nat : k <= 8 => Pow[k] \in Nat /\ Pow[k] > 0 /\ Pow[k] \in Nat \ {0}
    /\ \A k \in Nat : k < 8 => Pow[k + 1] = Base * Pow[k]
    /\ Base \in Nat \ {0}
<1>1. ASSUME NEW k \in Nat, k <= 8 PROVE Pow[k] \in Nat /\ Pow[k] > 0 /\ Pow[k] \in Nat \ {0}
  BY <1>1, Powers
<1>2. ASSUME NEW k \in Nat, k < 8 PROVE Pow[k + 1] = Base * Pow[k]
  <2>1. k + 1 \in 1..8 /\ k + 1 - 1 = k
    BY <1>2
  <2> QED
    BY <2>1, Powers
<1>3. Base \in Nat \ {0}
  BY Bases
<1> QED
  BY <1>1, <1>2, <1>3

(* What the octets of a number are.                                           *)
LEMMA OctetsAre ==
    ASSUME NEW v \in Nat, NEW w \in Nat, w <= 8
    PROVE  /\ Octets(v, w) \in Seq(Octet) /\ Len(Octets(v, w)) = w
           /\ \A i \in 1..w : Octets(v, w)[i] = (v \div Pow[i - 1]) % Base
<1>1. ASSUME NEW i \in 1..w PROVE (v \div Pow[i - 1]) % Base \in Octet
  <2>1. Pow[i - 1] \in Nat \ {0} /\ Base \in Nat \ {0}
    <3>1. i - 1 \in Nat /\ i - 1 <= 8
      OBVIOUS
    <3> QED
      BY <3>1, PowNat
  <2>2. v \div Pow[i - 1] \in Nat
    BY <2>1, Divided
  <2> QED
    BY <2>1, <2>2, Divided, Bases
<1>2. Octets(v, w) = [i \in 1..w |-> (v \div Pow[i - 1]) % Base]
  BY DEF Octets
<1> QED
  BY <1>1, <1>2

(* The number octets stand for is added up from the lowest.                    *)
Adds(o, u) == /\ u \in [0..Len(o) -> Nat] /\ u[0] = 0
              /\ \A i \in 1..Len(o) : u[i] = u[i - 1] + o[i] * Pow[i - 1]

(* Unsigned adds up the octets, each with the power of its place.           *)
LEMMA UnsignedAdds ==
    ASSUME NEW o \in Seq(Octet), Len(o) <= 8
    PROVE  \E u : Adds(o, u) /\ Unsigned(o) = u[Len(o)]
<1> DEFINE n == Len(o)
           Sums(f) == [i \in 0..n |-> IF i = 0 THEN 0 ELSE f[i - 1] + o[i] * Pow[i - 1]]
           g == [i \in 1..n |-> [x \in Nat |-> x + o[i] * Pow[i - 1]]]
           u == CHOOSE f : f = Sums(f)
<1>0. n \in Nat /\ n <= 8 /\ \A i \in 1..n : o[i] \in Octet
  OBVIOUS
<1> HIDE DEF n
<1>1. ASSUME NEW i \in 1..n
      PROVE  o[i] \in Nat /\ Pow[i - 1] \in Nat /\ i - 1 \in 0..n
  <2>1. i - 1 \in 0..n /\ i - 1 \in Nat /\ i - 1 <= 8
    BY <1>0
  <2> QED
    BY <1>0, <2>1, PowNat, Bases
<1>2. \A i \in 1..n : o[i] * Pow[i - 1] \in Nat
  BY <1>1
<1>3. PICK f \in [0..n -> Nat] : f[0] = 0 /\ \A i \in 1..n : f[i] = g[i][f[i - 1]]
  <2>1. g \in [1..n -> [Nat -> Nat]]
    BY <1>2
  <2>2. Recursive(n, Nat, 0, g)
    <3> HIDE DEF g
    <3> QED
      BY <1>0, <2>1, Recursion, Zenon
  <2> QED
    BY <2>2 DEF Recursive
<1>4. ASSUME NEW i \in 1..n PROVE f[i] = f[i - 1] + o[i] * Pow[i - 1]
  <2>1. f[i - 1] \in Nat
    BY <1>1
  <2> QED
    BY <1>3, <2>1
<1>5. f = Sums(f)
  BY <1>3, <1>4
<1>6. u = Sums(u)
  BY <1>5
<1> HIDE DEF u
<1>7. u[0] = 0 /\ \A i \in 1..n : u[i] = u[i - 1] + o[i] * Pow[i - 1]
  <2>1. 0 \in 0..n /\ \A i \in 1..n : i \in 0..n /\ i # 0
    BY <1>0
  <2> QED
    BY <1>6, <2>1
<1>8. \A i \in 0..n : u[i] \in Nat
  <2> DEFINE Q == {k \in Nat : k <= n => u[k] \in Nat}
  <2>1. 0 \in Q
    BY <1>7
  <2>2. ASSUME NEW k \in Q PROVE k + 1 \in Q
    <3> SUFFICES ASSUME k + 1 <= n PROVE u[k + 1] \in Nat
      OBVIOUS
    <3>1. k + 1 \in 1..n /\ k + 1 - 1 = k /\ u[k] \in Nat
      BY <1>0
    <3> QED
      BY <1>2, <1>7, <3>1
  <2>3. Q = Nat
    <3> HIDE DEF Q
    <3>1. Q \in SUBSET Nat
      BY DEF Q
    <3> QED
      BY <2>1, <2>2, <3>1, AllNumbers
  <2> QED
    BY <2>3
<1>9. Adds(o, u)
  BY <1>6, <1>7, <1>8 DEF Adds, n
<1>10. Unsigned(o) = u[Len(o)]
  BY DEF Unsigned, u, n
<1> QED
  BY <1>9, <1>10

LEMMA UnsignedNat ==
    ASSUME NEW o \in Seq(Octet), Len(o) <= 8
    PROVE  Unsigned(o) \in Nat
BY UnsignedAdds DEF Adds

(* A number is read back from its octets, as far as they hold it.               *)
LEMMA RoundTrip ==
    ASSUME NEW v \in Nat, NEW w \in Nat, w <= 8
    PROVE  Unsigned(Octets(v, w)) = v % Pow[w]
<1> DEFINE o == Octets(v, w)
<1>1. o \in Seq(Octet) /\ Len(o) = w /\ \A i \in 1..w : o[i] = (v \div Pow[i - 1]) % Base
  BY OctetsAre
<1> HIDE DEF o
<1>2. PICK u : Adds(o, u) /\ Unsigned(o) = u[Len(o)]
  BY <1>1, UnsignedAdds
<1>3. u[0] = 0 /\ \A i \in 1..w : u[i] = u[i - 1] + o[i] * Pow[i - 1]
  BY <1>1, <1>2 DEF Adds
<1> DEFINE Q == {k \in Nat : k <= w => u[k] = v % Pow[k]}
<1>4. 0 \in Q
  <2>1. v % 1 = 0
    OBVIOUS
  <2> QED
    BY <1>3, <2>1, Powers
<1>5. ASSUME NEW k \in Q PROVE k + 1 \in Q
  <2> SUFFICES ASSUME k + 1 <= w PROVE u[k + 1] = v % Pow[k + 1]
    OBVIOUS
  <2>1. k + 1 \in 1..w /\ k + 1 - 1 = k /\ k < 8 /\ k <= 8 /\ u[k] = v % Pow[k]
    OBVIOUS
  <2>2. u[k + 1] = u[k] + o[k + 1] * Pow[k] /\ o[k + 1] = (v \div Pow[k]) % Base
    BY <1>1, <1>3, <2>1
  <2>3. Pow[k] \in Nat \ {0} /\ Pow[k + 1] = Base * Pow[k] /\ Base \in Nat \ {0}
    BY <2>1, PowNat
  <2>4. v % (Base * Pow[k]) = (v % Pow[k]) + ((v \div Pow[k]) % Base) * Pow[k]
    BY <2>3, OneMoreDigit
  <2> QED
    BY <2>1, <2>2, <2>3, <2>4
<1>6. Q = Nat
  <2> HIDE DEF Q
  <2>1. Q \in SUBSET Nat
    BY DEF Q
  <2> QED
    BY <1>4, <1>5, <2>1, AllNumbers
<1>7. w \in Q
  BY <1>6
<1> QED
  BY <1>1, <1>2, <1>7 DEF o

(* A number of its width is read back whole; by the phone, if no sign is seen.*)
LEMMA ReadBack ==
    ASSUME NEW v \in Nat, NEW w \in Nat, w <= 8, v < Pow[w]
    PROVE  /\ Unsigned(Octets(v, w)) = v
           /\ 2 * v < Pow[w] => Signed(Octets(v, w)) = v
<1>1. Pow[w] \in Nat \ {0}
  BY Powers
<1>2. v % Pow[w] = v
  BY <1>1
<1>3. Unsigned(Octets(v, w)) = v
  BY <1>2, RoundTrip
<1>4. Len(Octets(v, w)) = w
  BY OctetsAre
<1> QED
  BY <1>1, <1>3, <1>4 DEF Signed

(* The powers of the widths that matter.                                      *)
LEMMA SmallPowers ==
    /\ Pow[1] = Base /\ Pow[2] = Base * Base
    /\ Pow[2] > 11 /\ Pow[4] >= Pow[2] /\ Pow[8] >= Pow[4]
<1>1. /\ Pow[1] = Base * Pow[0] /\ Pow[2] = Base * Pow[1] /\ Pow[3] = Base * Pow[2]
      /\ Pow[4] = Base * Pow[3] /\ Pow[5] = Base * Pow[4] /\ Pow[6] = Base * Pow[5]
      /\ Pow[7] = Base * Pow[6] /\ Pow[8] = Base * Pow[7]
  BY Powers
<1>2. Pow[1] = Base
  BY <1>1, Powers, Bases
<1>3. \A x \in Nat : Base * x >= x
  BY Bases
<1> QED
  BY <1>1, <1>2, <1>3, Powers, WireAssumption

-----------------------------------------------------------------------------
(* Sequences.                                                                *)

(* A part is known by its elements.                                           *)
IsPart(s, o, a, n) == Len(s) = n /\ \A i \in 1..n : s[i] = o[a + i]

(* What a part of a sequence is ...                                         *)
LEMMA PartType ==
    ASSUME NEW S, NEW o \in Seq(S), NEW a \in Nat, NEW n \in Nat, a + n <= Len(o)
    PROVE  Part(o, a, n) \in Seq(S) /\ IsPart(Part(o, a, n), o, a, n)
<1>1. Len(o) \in Nat
  OBVIOUS
<1>2. \A i \in (a + 1)..(a + n) : o[i] \in S
  BY <1>1
<1>3. a + 1 \in Int /\ a + n \in Int /\ a + n - (a + 1) + 1 = n
  OBVIOUS
<1> DEFINE s == Part(o, a, n)
<1>4. /\ s \in Seq(S) /\ Len(s) = IF a + 1 <= a + n THEN a + n - (a + 1) + 1 ELSE 0
      /\ \A i \in 1..(a + n - (a + 1) + 1) : s[i] = o[a + 1 + i - 1]
  BY <1>2, <1>3, SubSeqProperties DEF Part
<1>5. ASSUME NEW i \in 1..n PROVE a + 1 + i - 1 = a + i
  OBVIOUS
<1> QED
  BY <1>3, <1>4, <1>5 DEF IsPart

(* ... and that nothing else is.                                            *)
LEMMA PartIs ==
    ASSUME NEW S, NEW o \in Seq(S), NEW a \in Nat, NEW t \in Seq(S), NEW n \in Nat,
           a + n <= Len(o), IsPart(t, o, a, n)
    PROVE  Part(o, a, n) = t
<1> DEFINE s == Part(o, a, n)
<1>1. s \in Seq(S) /\ IsPart(s, o, a, n)
  BY PartType, Zenon
<1> HIDE DEF s
<1>2. Len(s) = Len(t) /\ \A i \in 1..Len(s) : s[i] = t[i]
  BY <1>1 DEF IsPart
<1>3. s = t
  BY <1>1, <1>2, SeqEqual
<1> QED
  BY <1>3 DEF s

(* One sequence after another.                                                *)
Joins(p, a, b) == /\ Len(a) \in Nat /\ Len(b) \in Nat /\ Len(p) = Len(a) + Len(b)
                  /\ \A i \in 1..Len(a) : p[i] = a[i]
                  /\ \A i \in 1..Len(b) : p[Len(a) + i] = b[i]

(* What a concatenation is.                                                 *)
LEMMA Joined ==
    ASSUME NEW S, NEW a \in Seq(S), NEW b \in Seq(S)
    PROVE  a \o b \in Seq(S) /\ Joins(a \o b, a, b)
<1> DEFINE k == Len(a)  l == Len(b)  p == a \o b
<1>1. k \in Nat /\ l \in Nat
  OBVIOUS
<1>2. /\ p \in Seq(S) /\ Len(p) = k + l
      /\ \A i \in 1..(k + l) : p[i] = IF i <= k THEN a[i] ELSE b[i - k]
  BY ConcatProperties
<1> HIDE DEF k, l, p
<1>3. ASSUME NEW i \in 1..k PROVE p[i] = a[i]
  <2>1. i \in 1..(k + l) /\ i <= k
    BY <1>1
  <2> QED
    BY <1>2, <2>1
<1>4. ASSUME NEW i \in 1..l PROVE p[k + i] = b[i]
  <2> DEFINE j == k + i
  <2>1. j \in 1..(k + l) /\ ~(j <= k) /\ j - k = i
    BY <1>1
  <2> HIDE DEF j
  <2>2. p[j] = b[j - k]
    BY <1>2, <2>1
  <2> QED
    BY <2>1, <2>2 DEF j
<1> QED
  BY <1>1, <1>2, <1>3, <1>4 DEF k, l, p, Joins

(* Four sequences one after another.                                          *)
Pieces(p, a, b, c, d) ==
    /\ Len(a) \in Nat /\ Len(b) \in Nat /\ Len(c) \in Nat /\ Len(d) \in Nat
    /\ Len(p) = Len(a) + Len(b) + Len(c) + Len(d)
    /\ \A i \in 1..Len(a) : p[i] = a[i]
    /\ \A i \in 1..Len(b) : p[Len(a) + i] = b[i]
    /\ \A i \in 1..Len(c) : p[Len(a) + Len(b) + i] = c[i]
    /\ \A i \in 1..Len(d) : p[Len(a) + Len(b) + Len(c) + i] = d[i]

LEMMA Pieced ==
    ASSUME NEW S, NEW a \in Seq(S), NEW b \in Seq(S), NEW c \in Seq(S), NEW d \in Seq(S)
    PROVE  /\ ((a \o b) \o c) \o d \in Seq(S)
           /\ Pieces(((a \o b) \o c) \o d, a, b, c, d)
<1> DEFINE x == a \o b  y == x \o c  p == y \o d
           k == Len(a)  l == Len(b)  m == Len(c)  n == Len(d)
<1>1. x \in Seq(S) /\ Joins(x, a, b)
  BY Joined, Zenon
<1>2. y \in Seq(S) /\ Joins(y, x, c)
  <2> HIDE DEF x
  <2> QED
    BY <1>1, Joined, Zenon
<1>3. p \in Seq(S) /\ Joins(p, y, d)
  <2> HIDE DEF y
  <2> QED
    BY <1>2, Joined, Zenon
<1> HIDE DEF x, y, p, k, l, m, n
<1>4. /\ Len(x) = k + l /\ k \in Nat /\ l \in Nat
      /\ \A i \in 1..k : x[i] = a[i]
      /\ \A i \in 1..l : x[k + i] = b[i]
  BY <1>1 DEF Joins, k, l
<1>5. /\ Len(y) = k + l + m /\ m \in Nat
      /\ \A i \in 1..(k + l) : y[i] = x[i]
      /\ \A i \in 1..m : y[k + l + i] = c[i]
  BY <1>2, <1>4 DEF Joins, m
<1>6. /\ Len(p) = k + l + m + n /\ n \in Nat
      /\ \A i \in 1..(k + l + m) : p[i] = y[i]
      /\ \A i \in 1..n : p[k + l + m + i] = d[i]
  BY <1>3, <1>4, <1>5 DEF Joins, n
<1>7. ASSUME NEW i \in 1..k PROVE p[i] = a[i]
  <2>1. i \in 1..(k + l) /\ i \in 1..(k + l + m)
    BY <1>4, <1>5
  <2> QED
    BY <1>4, <1>5, <1>6, <2>1
<1>8. ASSUME NEW i \in 1..l PROVE p[k + i] = b[i]
  <2>1. k + i \in 1..(k + l) /\ k + i \in 1..(k + l + m)
    BY <1>4, <1>5
  <2> QED
    BY <1>4, <1>5, <1>6, <2>1
<1>9. ASSUME NEW i \in 1..m PROVE p[k + l + i] = c[i]
  <2>1. k + l + i \in 1..(k + l + m)
    BY <1>4, <1>5
  <2> QED
    BY <1>5, <1>6, <2>1
<1>10. Pieces(p, a, b, c, d)
  BY <1>4, <1>5, <1>6, <1>7, <1>8, <1>9 DEF Pieces, k, l, m, n
<1> QED
  BY <1>3, <1>10 DEF p, y, x

(* Where the parts of a sequence end, by their widths.                          *)
At(w) == CHOOSE f : f = [i \in 0..Len(w) |-> IF i = 0 THEN 0 ELSE f[i - 1] + w[i]]

(* Where the fields of given widths begin.                                  *)
LEMMA AtIs ==
    ASSUME NEW w \in Seq(Nat)
    PROVE  /\ At(w) \in [0..Len(w) -> Nat] /\ At(w)[0] = 0
           /\ \A i \in 1..Len(w) : At(w)[i] = At(w)[i - 1] + w[i]
           /\ \A k \in 0..Len(w) : \A i \in 0..k : At(w)[i] <= At(w)[k]
<1> DEFINE n == Len(w)
           Sums(f) == [i \in 0..n |-> IF i = 0 THEN 0 ELSE f[i - 1] + w[i]]
           g == [i \in 1..n |-> [x \in Nat |-> x + w[i]]]
           u == CHOOSE f : f = Sums(f)
<1>1. n \in Nat /\ \A i \in 1..n : w[i] \in Nat
  OBVIOUS
<1> HIDE DEF n
<1>2. ASSUME NEW i \in 1..n PROVE i - 1 \in 0..n
  BY <1>1
<1>3. PICK f \in [0..n -> Nat] : f[0] = 0 /\ \A i \in 1..n : f[i] = g[i][f[i - 1]]
  <2>1. g \in [1..n -> [Nat -> Nat]]
    BY <1>1
  <2>2. Recursive(n, Nat, 0, g)
    <3> HIDE DEF g
    <3> QED
      BY <1>1, <2>1, Recursion, Zenon
  <2> QED
    BY <2>2 DEF Recursive
<1>4. ASSUME NEW i \in 1..n PROVE f[i] = f[i - 1] + w[i]
  <2>1. f[i - 1] \in Nat
    BY <1>2
  <2> QED
    BY <1>3, <2>1
<1>5. f = Sums(f)
  BY <1>3, <1>4
<1>6. u = Sums(u)
  BY <1>5
<1> HIDE DEF u
<1>7. u[0] = 0 /\ \A i \in 1..n : u[i] = u[i - 1] + w[i]
  <2>1. 0 \in 0..n /\ \A i \in 1..n : i \in 0..n /\ i # 0
    BY <1>1
  <2> QED
    BY <1>6, <2>1
<1> DEFINE Upto(k) == \A i \in 0..k : u[i] \in Nat /\ u[i] <= u[k]
           Q == {k \in Nat : k <= n => Upto(k)}
<1>8. Q = Nat
  <2>1. 0 \in Q
    BY <1>7
  <2>2. ASSUME NEW k \in Q PROVE k + 1 \in Q
    <3> SUFFICES ASSUME k + 1 <= n PROVE Upto(k + 1)
      OBVIOUS
    <3>1. k + 1 \in 1..n /\ k + 1 - 1 = k /\ Upto(k)
      BY <1>1
    <3>2. u[k + 1] = u[k] + w[k + 1] /\ w[k + 1] \in Nat /\ u[k] \in Nat
      BY <1>1, <1>7, <3>1
    <3>3. ASSUME NEW i \in 0..(k + 1) PROVE u[i] \in Nat /\ u[i] <= u[k + 1]
      <4>1. CASE i = k + 1
        BY <3>2, <4>1
      <4>2. CASE i # k + 1
        <5>1. i \in 0..k
          BY <4>2
        <5>2. u[i] \in Nat /\ u[i] <= u[k]
          BY <3>1, <5>1
        <5> QED
          BY <3>2, <5>2
      <4> QED
        BY <4>1, <4>2
    <3> QED
      BY <3>3
  <2> QED
    <3> HIDE DEF Q
    <3>1. Q \in SUBSET Nat
      BY DEF Q
    <3> QED
      BY <2>1, <2>2, <3>1, AllNumbers
<1>9. u \in [0..n -> Nat] /\ \A k \in 0..n : \A i \in 0..k : u[i] <= u[k]
  <2>1. ASSUME NEW k \in 0..n PROVE u[k] \in Nat /\ \A i \in 0..k : u[i] <= u[k]
    <3>1. k \in Q /\ k <= n /\ k \in 0..k
      <4> HIDE DEF Q
      <4> QED
        BY <1>1, <1>8
    <3> QED
      BY <3>1
  <2> HIDE DEF Upto, Q
  <2> QED
    BY <1>6, <2>1
<1>10. At(w) = u
  BY DEF At, u, n
<1> QED
  BY <1>7, <1>9, <1>10 DEF n

(* Sequences put one after another: each stays in one piece, behind those       *)
(* before it.                                                                *)
Lengths(s) == [i \in 1..Len(s) |-> Len(s[i])]

Chained(f, s, S) ==
    /\ f \in Seq(S) /\ Len(f) = At(Lengths(s))[Len(s)]
    /\ \A i \in 1..Len(s) : \A j \in 1..Len(s[i]) :
         f[At(Lengths(s))[i - 1] + j] = s[i][j]

LEMMA LengthsAre ==
    ASSUME NEW S, NEW s \in Seq(Seq(S))
    PROVE  Lengths(s) \in Seq(Nat) /\ Len(Lengths(s)) = Len(s)
BY DEF Lengths

(* In a flattened sequence each part lies behind those before it.           *)
LEMMA Flattened ==
    ASSUME NEW S, NEW s \in Seq(Seq(S))
    PROVE  Chained(FlattenSeq(s), s, S)
<1> DEFINE n == Len(s)  c == At(Lengths(s))
           Chain(f) == [i \in 1..n |-> IF i = 1 THEN s[i] ELSE f[i - 1] \o s[i]]
           g == [i \in 1..n |-> [x \in Seq(S) |-> x \o s[i]]]
           u == CHOOSE f : f = Chain(f)
<1>1. n \in Nat /\ \A i \in 1..n : s[i] \in Seq(S)
  OBVIOUS
<1>2. /\ c \in [0..n -> Nat] /\ c[0] = 0
      /\ \A i \in 1..n : c[i] = c[i - 1] + Len(s[i])
      /\ \A k \in 0..n : \A i \in 0..k : c[i] <= c[k]
  <2>1. Lengths(s) \in Seq(Nat) /\ Len(Lengths(s)) = n
    BY LengthsAre
  <2>2. \A i \in 1..n : Lengths(s)[i] = Len(s[i])
    BY DEF Lengths
  <2> HIDE DEF n
  <2> QED
    BY <2>1, <2>2, AtIs
<1> HIDE DEF n, c
<1>3. CASE n = 0
  <2>1. FlattenSeq(s) = s /\ s = <<>>
    BY <1>3 DEF FlattenSeq, n
  <2>2. FlattenSeq(s) \in Seq(S) /\ Len(FlattenSeq(s)) = 0
    BY <2>1
  <2> QED
    BY <1>2, <1>3, <2>2 DEF Chained, n, c
<1>4. CASE n # 0
  <2>1. PICK h \in [0..n -> Seq(S)] : h[0] = <<>> /\ \A i \in 1..n : h[i] = g[i][h[i - 1]]
    <3>1. g \in [1..n -> [Seq(S) -> Seq(S)]] /\ <<>> \in Seq(S)
      BY <1>1
    <3>2. Recursive(n, Seq(S), <<>>, g)
      <4> HIDE DEF g
      <4> QED
        BY <1>1, <3>1, Recursion, Zenon
    <3> QED
      BY <3>2 DEF Recursive
  <2> DEFINE f == [i \in 1..n |-> h[i]]
  <2>2. ASSUME NEW i \in 1..n
        PROVE  i - 1 \in 0..n /\ h[i - 1] \in Seq(S) /\ h[i] = h[i - 1] \o s[i]
    <3>1. i - 1 \in 0..n
      BY <1>1
    <3>2. h[i - 1] \in Seq(S)
      BY <3>1
    <3> QED
      BY <2>1, <3>1, <3>2
  <2>3. ASSUME NEW i \in 1..n PROVE f[i] = IF i = 1 THEN s[i] ELSE f[i - 1] \o s[i]
    <3>1. CASE i = 1
      <4>1. h[1] = <<>> \o s[1]
        <5>1. 1 \in 1..n /\ 1 - 1 = 0
          BY <1>1, <1>4
        <5>2. h[1] = h[1 - 1] \o s[1]
          BY <2>2, <5>1
        <5> QED
          BY <2>1, <5>1, <5>2
      <4> QED
        BY <1>1, <3>1, <4>1
    <3>2. CASE i # 1
      <4>1. i - 1 \in 1..n
        BY <1>1, <3>2
      <4> QED
        BY <2>2, <3>2, <4>1
    <3> QED
      BY <3>1, <3>2
  <2>4. f = Chain(f)
    BY <2>3
  <2>5. u = Chain(u)
    BY <2>4
  <2> HIDE DEF u
  <2>6. u[1] = s[1] /\ \A i \in 1..n : i # 1 => u[i] = u[i - 1] \o s[i]
    <3>1. 1 \in 1..n
      BY <1>1, <1>4
    <3> QED
      BY <2>5, <3>1
  <2> DEFINE Upto(x, k) == /\ x \in Seq(S) /\ Len(x) = c[k]
                           /\ \A i \in 1..k : \A j \in 1..Len(s[i]) : x[c[i - 1] + j] = s[i][j]
             Q == {k \in Nat : k < n => Upto(u[k + 1], k + 1)}
  <2> HIDE DEF g, f, Chain
  <2>7. 0 \in Q
    <3>1. 1 \in 1..n /\ c[1] = c[0] + Len(s[1]) /\ s[1] \in Seq(S)
      BY <1>1, <1>2, <1>4
    <3>2. Upto(u[1], 1)
      BY <1>2, <2>6, <3>1
    <3> QED
      BY <3>2
  <2>8. ASSUME NEW k \in Q PROVE k + 1 \in Q
    <3> SUFFICES ASSUME k + 1 < n PROVE Upto(u[k + 1 + 1], k + 1 + 1)
      <4> HIDE DEF Upto
      <4>1. k + 1 \in Nat
        OBVIOUS
      <4> QED
        BY <4>1
    <3>9. k \in Nat /\ k < n /\ Upto(u[k + 1], k + 1)
      <4>1. k \in Nat /\ k < n
        BY <1>1
      <4>2. k < n => Upto(u[k + 1], k + 1)
        <5> HIDE DEF Upto
        <5> QED
          OBVIOUS
      <4> QED
        BY <4>1, <4>2
    <3> DEFINE x == u[k + 1]  y == u[k + 1 + 1]  m == k + 1 + 1
    <3>0. k \in Nat /\ k + 1 < n /\ Upto(x, k + 1)
      BY <3>9
    <3> HIDE DEF Q
    <3>1. Upto(x, k + 1) /\ m \in 1..n /\ m # 1 /\ m - 1 = k + 1 /\ s[m] \in Seq(S)
      BY <1>1, <3>0
    <3>2. y = x \o s[m]
      BY <2>6, <3>1
    <3>3. y \in Seq(S) /\ Joins(y, x, s[m])
      <4>1. x \in Seq(S)
        BY <3>1
      <4> HIDE DEF x, y
      <4> QED
        BY <3>1, <3>2, <4>1, Joined
    <3> HIDE DEF x, y
    <3>4. /\ Len(y) = c[m] /\ Len(x) = c[m - 1] /\ Len(s[m]) \in Nat
          /\ \A i \in 1..Len(x) : y[i] = x[i]
          /\ \A i \in 1..Len(s[m]) : y[Len(x) + i] = s[m][i]
      BY <1>2, <3>1, <3>3 DEF Joins
    <3>5. ASSUME NEW i \in 1..m, NEW j \in 1..Len(s[i]) PROVE y[c[i - 1] + j] = s[i][j]
      <4>0. m \in Nat /\ m = k + 1 + 1 /\ k \in Nat
        BY <3>0
      <4> HIDE DEF m
      <4>1. CASE i = m
        BY <3>4, <4>1
      <4>2. CASE i # m
        <5>1. i \in 1..(k + 1) /\ i \in 1..n /\ i \in 0..n /\ i - 1 \in 0..n
          <6>1. n \in Nat /\ m \in 1..n /\ i \in 1..m
            BY <1>1, <3>1
          <6>2. i \in Nat /\ i >= 1 /\ i <= k + 1 /\ i <= n
            BY <4>0, <4>2, <6>1
          <6> QED
            BY <4>0, <6>1, <6>2
        <5>2. c[i] = c[i - 1] + Len(s[i]) /\ c[i - 1] \in Nat /\ Len(s[i]) \in Nat
          BY <1>1, <1>2, <5>1
        <5>3. c[i] <= Len(x)
          <6>1. k + 1 \in 0..n /\ i \in 0..(k + 1)
            BY <1>1, <3>1, <4>0, <5>1
          <6> QED
            BY <1>2, <3>1, <3>4, <6>1
        <5>4. c[i - 1] + j \in 1..Len(x)
          <6>1. j \in Nat /\ j >= 1 /\ j <= Len(s[i]) /\ Len(x) \in Nat
            BY <3>0, <5>2
          <6> QED
            BY <5>2, <5>3, <6>1
        <5>5. x[c[i - 1] + j] = s[i][j]
          BY <3>0, <5>1
        <5> QED
          BY <3>4, <5>4, <5>5
      <4> QED
        BY <4>1, <4>2
    <3>6. Upto(y, m)
      BY <3>3, <3>4, <3>5
    <3> QED
      BY <3>6 DEF y, m
  <2>9. Q = Nat
    <3> HIDE DEF Q
    <3>1. Q \in SUBSET Nat
      BY DEF Q
    <3> QED
      BY <2>7, <2>8, <3>1, AllNumbers
  <2>10. Upto(u[n], n)
    <3>1. n - 1 \in Q /\ n - 1 + 1 = n /\ n - 1 < n
      <4> HIDE DEF Q
      <4> QED
        BY <1>1, <1>4, <2>9
    <3> QED
      BY <3>1
  <2>11. FlattenSeq(s) = u[n]
    BY <1>4 DEF FlattenSeq, u, n, Chain
  <2> QED
    BY <2>10, <2>11 DEF Chained, n, c
<1> QED
  BY <1>3, <1>4

-----------------------------------------------------------------------------
(* Fields.                                                                   *)

Width == {k \in Nat : k <= 8}

(* A number lies at a place of a sequence of octets.                           *)
Holds(o, a, v, w) == a + w <= Len(o) /\ \A i \in 1..w : o[a + i] = Octets(v, w)[i]

(* Two sequences begin alike.                                                 *)
Begin(o, p, n) == n <= Len(o) /\ n <= Len(p) /\ \A i \in 1..n : o[i] = p[i]

(* One sequence lies in another.                                              *)
Lies(q, p, k) == k + Len(q) <= Len(p) /\ \A i \in 1..Len(q) : p[k + i] = q[i]

(* Each of a row of fields holds its number.                                *)
LEMMA FieldsAre ==
    ASSUME NEW w \in Seq(Width), NEW v \in Seq(Nat), Len(v) = Len(w)
    PROVE  /\ Fields(v, w) \in Seq(Octet) /\ Len(Fields(v, w)) = At(w)[Len(w)]
           /\ \A i \in 1..Len(w) : Holds(Fields(v, w), At(w)[i - 1], v[i], w[i])
<1> DEFINE n == Len(w)  s == [i \in 1..n |-> Octets(v[i], w[i])]  o == Fields(v, w)
<1>1. n \in Nat /\ DOMAIN w = 1..n
  OBVIOUS
<1>2. \A i \in 1..n : v[i] \in Nat /\ w[i] \in Nat /\ w[i] <= 8
  BY DEF Width
<1>3. \A i \in 1..n : Octets(v[i], w[i]) \in Seq(Octet) /\ Len(Octets(v[i], w[i])) = w[i]
  BY <1>2, OctetsAre
<1>4. s \in Seq(Seq(Octet)) /\ Len(s) = n
  BY <1>1, <1>3
<1>5. Lengths(s) = w
  <2>1. w \in Seq(Nat)
    BY DEF Width
  <2>2. \A i \in 1..n : Len(s[i]) = w[i]
    BY <1>3
  <2> HIDE DEF s
  <2>3. Lengths(s) = [i \in 1..n |-> Len(s[i])]
    BY <1>4 DEF Lengths
  <2>4. Lengths(s) \in Seq(Nat) /\ Len(Lengths(s)) = n /\ \A i \in 1..n : Lengths(s)[i] = w[i]
    BY <1>1, <1>4, <2>2, <2>3, LengthsAre
  <2> HIDE DEF n
  <2> QED
    BY <2>1, <2>4, SeqEqual DEF n
<1>6. o = FlattenSeq(s)
  BY <1>1 DEF Fields
<1>7. Chained(o, s, Octet)
  <2> HIDE DEF s, o
  <2> QED
    BY <1>4, <1>6, Flattened
<1>8. /\ o \in Seq(Octet) /\ Len(o) = At(w)[n]
      /\ \A i \in 1..n : \A j \in 1..w[i] : o[At(w)[i - 1] + j] = Octets(v[i], w[i])[j]
  <2>1. \A i \in 1..n : s[i] = Octets(v[i], w[i]) /\ Len(s[i]) = w[i]
    BY <1>3
  <2> HIDE DEF s, o, n
  <2> QED
    BY <1>4, <1>5, <1>7, <2>1 DEF Chained
<1>9. \A i \in 1..n : At(w)[i - 1] + w[i] <= At(w)[n]
  <2>1. w \in Seq(Nat)
    BY DEF Width
  <2>2. /\ \A i \in 1..n : At(w)[i] = At(w)[i - 1] + w[i]
        /\ \A i \in 0..n : At(w)[i] <= At(w)[n]
    <3>1. n \in 0..n /\ n = Len(w)
      BY <1>1
    <3> HIDE DEF n
    <3>2. /\ \A i \in 1..n : At(w)[i] = At(w)[i - 1] + w[i]
          /\ \A k \in 0..n : \A i \in 0..k : At(w)[i] <= At(w)[k]
      BY <2>1, <3>1, AtIs
    <3> QED
      BY <3>1, <3>2
  <2> QED
    BY <1>1, <2>2
<1> QED
  BY <1>8, <1>9 DEF Holds

(* A number that is held at a place is read there,                          *)
LEMMA HeldIsRead ==
    ASSUME NEW o \in Seq(Octet), NEW a \in Nat, NEW v \in Nat, NEW w \in Width,
           Holds(o, a, v, w)
    PROVE  /\ Unsigned(Part(o, a, w)) = v % Pow[w]
           /\ v < Pow[w] => Unsigned(Part(o, a, w)) = v
           /\ 2 * v < Pow[w] => Signed(Part(o, a, w)) = v
<1>1. w \in Nat /\ w <= 8
  BY DEF Width
<1>2. Octets(v, w) \in Seq(Octet) /\ Len(Octets(v, w)) = w
  BY <1>1, OctetsAre
<1>3. Part(o, a, w) = Octets(v, w)
  <2>1. IsPart(Octets(v, w), o, a, w) /\ a + w <= Len(o)
    BY <1>2 DEF Holds, IsPart
  <2> QED
    BY <1>1, <1>2, <2>1, PartIs
<1>4. Unsigned(Octets(v, w)) = v % Pow[w]
  BY <1>1, RoundTrip
<1>5. v < Pow[w] => /\ Unsigned(Octets(v, w)) = v
                    /\ 2 * v < Pow[w] => Signed(Octets(v, w)) = v
  BY <1>1, ReadBack
<1>6. Pow[w] \in Nat
  BY <1>1, PowNat
<1> QED
  BY <1>3, <1>4, <1>5, <1>6

(* also from a buffer that agrees with the octets so far,                   *)
LEMMA HeldWithin ==
    ASSUME NEW o, NEW p, NEW n \in Nat, Begin(o, p, n),
           NEW a \in Nat, NEW w \in Nat, a + w <= n, NEW v, Holds(p, a, v, w), Len(o) \in Nat
    PROVE  Holds(o, a, v, w)
<1>1. \A i \in 1..w : a + i \in 1..n
  OBVIOUS
<1> QED
  BY <1>1 DEF Holds, Begin

(* and from a longer sequence the octets lie in.                            *)
LEMMA HeldFurther ==
    ASSUME NEW q, NEW p, NEW k \in Nat, Lies(q, p, k), Len(q) \in Nat, Len(p) \in Nat,
           NEW a \in Nat, NEW w \in Nat, NEW v, Holds(q, a, v, w)
    PROVE  Holds(p, k + a, v, w)
<1>1. a + w <= Len(q) /\ \A i \in 1..w : q[a + i] = Octets(v, w)[i]
  BY DEF Holds
<1>2. k + Len(q) <= Len(p) /\ \A i \in 1..Len(q) : p[k + i] = q[i]
  BY DEF Lies
<1>3. ASSUME NEW i \in 1..w PROVE p[(k + a) + i] = Octets(v, w)[i]
  <2>1. a + i \in 1..Len(q) /\ (k + a) + i = k + (a + i)
    BY <1>1
  <2> QED
    BY <1>1, <1>2, <2>1
<1> QED
  BY <1>1, <1>2, <1>3 DEF Holds

(* Where the fields of the three layouts of fixed size lie.                     *)
HeaderWidths == <<4, 2, 2, 4, 4>>
BoxWidths == <<2, 2, 2, 2>>
PipeWidths == <<4, 8, 8, 2, 2, 4, 4>>

LEMMA Layouts ==
    /\ HeaderWidths \in Seq(Width) /\ Len(HeaderWidths) = 5
    /\ BoxWidths \in Seq(Width) /\ Len(BoxWidths) = 4
    /\ PipeWidths \in Seq(Width) /\ Len(PipeWidths) = 7
BY DEF HeaderWidths, BoxWidths, PipeWidths, Width

LEMMA AtHeader ==
    LET c == At(HeaderWidths)
    IN c[0] = 0 /\ c[1] = 4 /\ c[2] = 6 /\ c[3] = 8 /\ c[4] = 12 /\ c[5] = 16
<1> DEFINE c == At(HeaderWidths)
<1>1. HeaderWidths \in Seq(Nat) /\ Len(HeaderWidths) = 5
  BY DEF HeaderWidths
<1>2. c[0] = 0 /\ \A i \in 1..5 : c[i] = c[i - 1] + HeaderWidths[i]
  BY <1>1, AtIs
<1> HIDE DEF c
<1>3. /\ c[1] = c[0] + HeaderWidths[1] /\ c[2] = c[1] + HeaderWidths[2]
      /\ c[3] = c[2] + HeaderWidths[3] /\ c[4] = c[3] + HeaderWidths[4]
      /\ c[5] = c[4] + HeaderWidths[5]
  BY <1>2
<1>4. c[1] = 4 /\ c[2] = 6 /\ c[3] = 8 /\ c[4] = 12 /\ c[5] = 16
  BY <1>2, <1>3 DEF HeaderWidths
<1> QED
  BY <1>2, <1>4 DEF c

LEMMA AtBox ==
    LET c == At(BoxWidths) IN c[0] = 0 /\ c[1] = 2 /\ c[2] = 4 /\ c[3] = 6 /\ c[4] = 8
<1> DEFINE c == At(BoxWidths)
<1>1. BoxWidths \in Seq(Nat) /\ Len(BoxWidths) = 4
  BY DEF BoxWidths
<1>2. c[0] = 0 /\ \A i \in 1..4 : c[i] = c[i - 1] + BoxWidths[i]
  BY <1>1, AtIs
<1> HIDE DEF c
<1>3. /\ c[1] = c[0] + BoxWidths[1] /\ c[2] = c[1] + BoxWidths[2]
      /\ c[3] = c[2] + BoxWidths[3] /\ c[4] = c[3] + BoxWidths[4]
  BY <1>2
<1>4. c[1] = 2 /\ c[2] = 4 /\ c[3] = 6 /\ c[4] = 8
  BY <1>2, <1>3 DEF BoxWidths
<1> QED
  BY <1>2, <1>4 DEF c

LEMMA AtPipe ==
    LET c == At(PipeWidths)
    IN /\ c[0] = 0 /\ c[1] = 4 /\ c[2] = 12 /\ c[3] = 20
       /\ c[4] = 22 /\ c[5] = 24 /\ c[6] = 28 /\ c[7] = 32
<1> DEFINE c == At(PipeWidths)
<1>1. PipeWidths \in Seq(Nat) /\ Len(PipeWidths) = 7
  BY DEF PipeWidths
<1>2. c[0] = 0 /\ \A i \in 1..7 : c[i] = c[i - 1] + PipeWidths[i]
  BY <1>1, AtIs
<1> HIDE DEF c
<1>3. /\ c[1] = c[0] + PipeWidths[1] /\ c[2] = c[1] + PipeWidths[2]
      /\ c[3] = c[2] + PipeWidths[3] /\ c[4] = c[3] + PipeWidths[4]
      /\ c[5] = c[4] + PipeWidths[5] /\ c[6] = c[5] + PipeWidths[6]
      /\ c[7] = c[6] + PipeWidths[7]
  BY <1>2
<1>4. /\ c[1] = 4 /\ c[2] = 12 /\ c[3] = 20
      /\ c[4] = 22 /\ c[5] = 24 /\ c[6] = 28 /\ c[7] = 32
  BY <1>2, <1>3 DEF PipeWidths
<1> QED
  BY <1>2, <1>4 DEF c

(* What both sides' tables have in common.                                    *)
TableOk(t, w) ==
    /\ w \in Seq(Width) /\ Extra(t) \in Nat /\ Extra(t) <= Len(w)
    /\ t \in Boxed <=> Extra(t) = 2
    /\ t \in Boxed => w[Len(w) - 1] = 2
    /\ t \in Padded <=> Extra(t) >= 1
    /\ t \in Padded => w[Len(w)] = 2
    /\ t \notin Boxed => Extra(t) <= 1

(* Both sides' decoders take the fields both sides' encoders put.           *)
LEMMA Tables ==
    ASSUME NEW t \in DOMAIN HostPuts
    PROVE  /\ TableOk(t, HostPuts[t])
           /\ HostTakes[t] = HostPuts[t] /\ PhoneTakes[t] = HostPuts[t]
<1>1. t \in {"HELLO", "HELLO_OK", "CONFIG", "DISPLAY_INFO", "FRAME",
             "DAMAGE_REGION", "PING", "PONG", "DISCONNECT", "RECONNECT", "FRAME_ACK"}
  BY DEF HostPuts
<1>2. HostTakes = HostPuts /\ PhoneTakes = HostPuts
  BY DEF HostTakes, HostPuts, PhoneTakes
<1>3. CASE t = "HELLO"
  <2>1. HostPuts["HELLO"] = <<2, 4, 2, 2, 2>>
    BY DEF HostPuts
  <2>2. TableOk("HELLO", <<2, 4, 2, 2, 2>>)
    BY DEF TableOk, Width, Extra, Boxed, Padded
  <2> QED
    BY <1>2, <1>3, <2>1, <2>2
<1>4. CASE t = "HELLO_OK"
  <2>1. HostPuts["HELLO_OK"] = <<2, 4, 8, 2, 2>>
    BY DEF HostPuts
  <2>2. TableOk("HELLO_OK", <<2, 4, 8, 2, 2>>)
    BY DEF TableOk, Width, Extra, Boxed, Padded
  <2> QED
    BY <1>2, <1>4, <2>1, <2>2
<1>5. CASE t = "CONFIG"
  <2>1. HostPuts["CONFIG"] = <<1, 1, 2, 2>>
    BY DEF HostPuts
  <2>2. TableOk("CONFIG", <<1, 1, 2, 2>>)
    BY DEF TableOk, Width, Extra, Boxed, Padded
  <2> QED
    BY <1>2, <1>5, <2>1, <2>2
<1>6. CASE t = "DISPLAY_INFO"
  <2>1. HostPuts["DISPLAY_INFO"] = <<2, 2, 2, 1, 1>>
    BY DEF HostPuts
  <2>2. TableOk("DISPLAY_INFO", <<2, 2, 2, 1, 1>>)
    BY DEF TableOk, Width, Extra, Boxed, Padded
  <2> QED
    BY <1>2, <1>6, <2>1, <2>2
<1>7. CASE t = "FRAME"
  <2>1. HostPuts["FRAME"] = <<8, 8, 1, 1, 2, 2>>
    BY DEF HostPuts
  <2>2. TableOk("FRAME", <<8, 8, 1, 1, 2, 2>>)
    BY DEF TableOk, Width, Extra, Boxed, Padded
  <2> QED
    BY <1>2, <1>7, <2>1, <2>2
<1>8. CASE t = "DAMAGE_REGION"
  <2>1. HostPuts["DAMAGE_REGION"] = <<8, 8, 2, 2>>
    BY DEF HostPuts
  <2>2. TableOk("DAMAGE_REGION", <<8, 8, 2, 2>>)
    BY DEF TableOk, Width, Extra, Boxed, Padded
  <2> QED
    BY <1>2, <1>8, <2>1, <2>2
<1>9. CASE t = "PING"
  <2>1. HostPuts["PING"] = <<8>>
    BY DEF HostPuts
  <2>2. TableOk("PING", <<8>>)
    BY DEF TableOk, Width, Extra, Boxed, Padded
  <2> QED
    BY <1>2, <1>9, <2>1, <2>2
<1>10. CASE t = "PONG"
  <2>1. HostPuts["PONG"] = <<8, 8>>
    BY DEF HostPuts
  <2>2. TableOk("PONG", <<8, 8>>)
    BY DEF TableOk, Width, Extra, Boxed, Padded
  <2> QED
    BY <1>2, <1>10, <2>1, <2>2
<1>11. CASE t = "DISCONNECT"
  <2>1. HostPuts["DISCONNECT"] = <<2>>
    BY DEF HostPuts
  <2>2. TableOk("DISCONNECT", <<2>>)
    BY DEF TableOk, Width, Extra, Boxed, Padded
  <2> QED
    BY <1>2, <1>11, <2>1, <2>2
<1>12. CASE t = "RECONNECT"
  <2>1. HostPuts["RECONNECT"] = <<8, 8>>
    BY DEF HostPuts
  <2>2. TableOk("RECONNECT", <<8, 8>>)
    BY DEF TableOk, Width, Extra, Boxed, Padded
  <2> QED
    BY <1>2, <1>12, <2>1, <2>2
<1>13. CASE t = "FRAME_ACK"
  <2>1. HostPuts["FRAME_ACK"] = <<8, 8>>
    BY DEF HostPuts
  <2>2. TableOk("FRAME_ACK", <<8, 8>>)
    BY DEF TableOk, Width, Extra, Boxed, Padded
  <2> QED
    BY <1>2, <1>13, <2>1, <2>2
<1> QED
  BY <1>1, <1>3, <1>4, <1>5, <1>6, <1>7, <1>8, <1>9, <1>10, <1>11, <1>12, <1>13

LEMMA PhoneTables ==
    ASSUME NEW t \in DOMAIN PhonePuts
    PROVE  t \in DOMAIN HostPuts /\ PhonePuts[t] = HostPuts[t]
<1>1. t \in {"HELLO", "PING", "DISCONNECT", "RECONNECT", "FRAME_ACK"}
  BY DEF PhonePuts
<1> QED
  BY <1>1 DEF PhonePuts, HostPuts

(* The numbers of the types are told apart.                                 *)
LEMMA TypeIds ==
    ASSUME NEW t \in DOMAIN HostPuts
    PROVE  TypeId(t) \in DOMAIN Types /\ TypeId(t) \in 1..11 /\ Types[TypeId(t)] = t
<1>1. DOMAIN Types = 1..11
  BY DEF Types
<1>2. \E i \in 1..11 : Types[i] = t
  BY DEF HostPuts, Types
<1> QED
  BY <1>1, <1>2 DEF TypeId

-----------------------------------------------------------------------------
(* What a message is, and what its octets hold.                                *)

IsMessage(m, w) ==
    /\ m = [type |-> m.type, nums |-> m.nums, text |-> m.text,
            rects |-> m.rects, body |-> m.body]
    /\ m.type \in DOMAIN HostPuts /\ w = HostPuts[m.type]
    /\ m.nums \in Seq(Nat) /\ Len(m.nums) = Len(w) - Extra(m.type)
    /\ \A i \in 1..Len(m.nums) : m.nums[i] < Pow[w[i]]
    /\ m.text \in Seq(Octet) /\ m.rects \in Seq(Rects) /\ m.body \in Seq(Octet)
    /\ m.type \notin Textual => m.text = <<>>
    /\ m.type \notin Boxed => m.rects = <<>>
    /\ m.type = "FRAME" => Len(m.rects) < Pow[2]
    /\ m.type # "FRAME" => m.body = <<>>

(* What a writer may hold is a message of its table.                        *)
LEMMA MessagesAre ==
    /\ \A m \in Messages(HostPuts) : IsMessage(m, HostPuts[m.type])
    /\ \A m \in Messages(PhonePuts) : /\ IsMessage(m, HostPuts[m.type])
                                      /\ PhonePuts[m.type] = HostPuts[m.type]
<1>1. ASSUME NEW puts, NEW m \in Messages(puts),
             m.type \in DOMAIN HostPuts, puts[m.type] = HostPuts[m.type]
      PROVE  IsMessage(m, HostPuts[m.type])
  <2> DEFINE w == HostPuts[m.type]  n == Len(w) - Extra(m.type)
  <2>1. /\ m \in AnyMessage
        /\ Within(m.nums, SubSeq(w, 1, n))
        /\ m.type \notin Textual => m.text = <<>>
        /\ m.type \notin Boxed => m.rects = <<>>
        /\ m.type = "FRAME" => Len(m.rects) < Pow[2]
        /\ m.type # "FRAME" => m.body = <<>>
    BY <1>1 DEF Messages
  <2>2. w \in Seq(Width) /\ n \in Nat /\ n <= Len(w)
    BY <1>1, Tables DEF TableOk
  <2>3. /\ m.nums \in Seq(Nat) /\ m.text \in Seq(Octet)
        /\ m.rects \in Seq(Rects) /\ m.body \in Seq(Octet)
        /\ m = [type |-> m.type, nums |-> m.nums, text |-> m.text,
                rects |-> m.rects, body |-> m.body]
    BY <2>1 DEF AnyMessage
  <2> HIDE DEF w, n
  <2>4. Len(SubSeq(w, 1, n)) = n /\ \A i \in 1..n : SubSeq(w, 1, n)[i] = w[i]
    BY <2>2
  <2>5. Len(m.nums) = n /\ \A i \in 1..Len(m.nums) : m.nums[i] < Pow[w[i]]
    <3> DEFINE u == SubSeq(w, 1, n)
    <3> HIDE DEF u
    <3>1. Len(m.nums) = Len(u) /\ \A i \in DOMAIN m.nums : m.nums[i] < Pow[u[i]]
      BY <2>1 DEF Within, u
    <3>2. DOMAIN m.nums = 1..Len(m.nums)
      BY <2>3
    <3>3. Len(u) = n /\ \A i \in 1..n : u[i] = w[i]
      BY <2>4 DEF u
    <3> QED
      BY <3>1, <3>2, <3>3
  <2> QED
    BY <1>1, <2>1, <2>3, <2>5 DEF IsMessage, w, n
<1>2. \A m \in Messages(HostPuts) : m.type \in DOMAIN HostPuts
  BY DEF Messages
<1>3. \A m \in Messages(PhonePuts) : m.type \in DOMAIN PhonePuts
  BY DEF Messages
<1> QED
  BY <1>1, <1>2, <1>3, PhoneTables

(* The numbers on the wire: those of the message, the count, the reserved.      *)
LEMMA NumbersAre ==
    ASSUME NEW m, NEW w, IsMessage(m, w)
    PROVE  /\ Numbers(m) \in Seq(Nat) /\ Len(Numbers(m)) = Len(w)
           /\ \A i \in 1..Len(m.nums) : Numbers(m)[i] = m.nums[i]
           /\ m.type \in Boxed => Numbers(m)[Len(w) - 1] = Len(m.rects)
<1> DEFINE n == Len(m.nums)  k == Len(m.rects)
           c == IF m.type \in Boxed THEN <<k>> ELSE <<>>
           z == IF m.type \in Padded THEN <<0>> ELSE <<>>
<1>1. /\ m.nums \in Seq(Nat) /\ n \in Nat /\ k \in Nat
      /\ Len(w) = n + Extra(m.type)
  <2>1. TableOk(m.type, w)
    BY Tables DEF IsMessage
  <2> QED
    BY <2>1 DEF IsMessage, TableOk
<1>2. /\ c \in Seq(Nat) /\ Len(c) = (IF m.type \in Boxed THEN 1 ELSE 0)
      /\ m.type \in Boxed => c[1] = k
  BY <1>1
<1>3. z \in Seq(Nat) /\ Len(z) = (IF m.type \in Padded THEN 1 ELSE 0)
  OBVIOUS
<1>4. Extra(m.type) = Len(c) + Len(z) /\ (m.type \in Boxed => Len(z) = 1)
  BY <1>2, <1>3 DEF Extra, Padded, Boxed
<1>5. Numbers(m) = (m.nums \o c) \o z
  BY DEF Numbers
<1> HIDE DEF c, z, n, k
<1> DEFINE x == m.nums \o c  y == x \o z
<1>6. x \in Seq(Nat) /\ Joins(x, m.nums, c)
  BY <1>1, <1>2, Joined, Zenon
<1>7. y \in Seq(Nat) /\ Joins(y, x, z)
  <2> HIDE DEF x
  <2> QED
    BY <1>3, <1>6, Joined, Zenon
<1> HIDE DEF x, y
<1>8. Numbers(m) = y
  BY <1>5 DEF x, y
<1>9. Len(x) = n + Len(c) /\ Len(y) = Len(x) + Len(z) /\ Len(y) = Len(w)
  <2>1. /\ Len(x) = n + Len(c) /\ Len(y) = Len(x) + Len(z)
        /\ Len(c) \in Nat /\ Len(z) \in Nat
    BY <1>6, <1>7 DEF Joins, n
  <2> QED
    BY <1>1, <1>4, <2>1
<1>10. \A i \in 1..n : y[i] = m.nums[i]
  <2>1. \A i \in 1..n : i \in 1..Len(x)
    BY <1>1, <1>6 DEF Joins, n
  <2> QED
    BY <1>6, <1>7, <2>1 DEF Joins, n
<1>11. ASSUME m.type \in Boxed PROVE y[Len(w) - 1] = k
  <2>1. Len(c) = 1 /\ Len(z) = 1 /\ Len(x) = n + 1 /\ Len(w) - 1 = n + 1
    <3>1. Len(c) = 1
      BY <1>2, <1>11
    <3>2. Len(z) = 1
      BY <1>4, <1>11
    <3>3. Extra(m.type) = 2
      BY <1>4, <3>1, <3>2
    <3> QED
      BY <1>1, <1>9, <3>1, <3>2, <3>3
  <2>2. x[n + 1] = c[1] /\ n + 1 \in 1..Len(x)
    BY <1>1, <1>6, <2>1 DEF Joins, n
  <2> QED
    BY <1>2, <1>7, <1>11, <2>1, <2>2 DEF Joins
<1> QED
  BY <1>7, <1>8, <1>9, <1>10, <1>11 DEF n, k

(* A rectangle is four fields of two octets, wherever it lies.                  *)
LEMMA BoxIs ==
    ASSUME NEW r \in Rects
    PROVE  /\ RectOctets(r) \in Seq(Octet) /\ Len(RectOctets(r)) = 8
           /\ \A p \in Seq(Octet) : \A k \in Nat :
                Lies(RectOctets(r), p, k) => RectAt(p, k) = r
<1> DEFINE v == <<r.x, r.y, r.w, r.h>>  o == RectOctets(r)  c == At(BoxWidths)
<1>1. /\ r.x \in Nat /\ r.y \in Nat /\ r.w \in Nat /\ r.h \in Nat
      /\ r.x < Pow[2] /\ r.y < Pow[2] /\ r.w < Pow[2] /\ r.h < Pow[2]
      /\ r = [x |-> r.x, y |-> r.y, w |-> r.w, h |-> r.h]
  <2>1. Pow[2] \in Nat
    BY PowNat
  <2> QED
    BY <2>1 DEF Rects
<1>2. v \in Seq(Nat) /\ Len(v) = 4 /\ v[1] = r.x /\ v[2] = r.y /\ v[3] = r.w /\ v[4] = r.h
  BY <1>1
<1>3. o = Fields(v, BoxWidths)
  BY DEF RectOctets, BoxWidths
<1>4. BoxWidths[1] = 2 /\ BoxWidths[2] = 2 /\ BoxWidths[3] = 2 /\ BoxWidths[4] = 2
  BY DEF BoxWidths
<1>5. c[0] = 0 /\ c[1] = 2 /\ c[2] = 4 /\ c[3] = 6 /\ c[4] = 8
  BY AtBox
<1> HIDE DEF v, o, c
<1>6. /\ o \in Seq(Octet) /\ Len(o) = c[4]
      /\ \A i \in 1..4 : Holds(o, c[i - 1], v[i], BoxWidths[i])
  BY <1>2, <1>3, Layouts, FieldsAre DEF c
<1>7. /\ Holds(o, c[0], v[1], 2) /\ Holds(o, c[1], v[2], 2)
      /\ Holds(o, c[2], v[3], 2) /\ Holds(o, c[3], v[4], 2)
  <2>1. /\ Holds(o, c[1 - 1], v[1], BoxWidths[1]) /\ Holds(o, c[2 - 1], v[2], BoxWidths[2])
        /\ Holds(o, c[3 - 1], v[3], BoxWidths[3]) /\ Holds(o, c[4 - 1], v[4], BoxWidths[4])
    BY <1>6
  <2> QED
    BY <1>4, <2>1
<1>8. Holds(o, 0, r.x, 2) /\ Holds(o, 2, r.y, 2) /\ Holds(o, 4, r.w, 2) /\ Holds(o, 6, r.h, 2)
  BY <1>2, <1>5, <1>7
<1>9. ASSUME NEW p \in Seq(Octet), NEW k \in Nat, Lies(o, p, k) PROVE RectAt(p, k) = r
  <2>1. Len(o) \in Nat /\ Len(p) \in Nat /\ 2 \in Width
    BY <1>6 DEF Width
  <2>2. ASSUME NEW a \in Nat, NEW u \in Nat, Holds(o, a, u, 2), u < Pow[2]
        PROVE  Unsigned(Part(p, k + a, 2)) = u
    <3>1. Holds(p, k + a, u, 2)
      BY <1>9, <2>1, <2>2, HeldFurther
    <3> QED
      BY <2>1, <2>2, <3>1, HeldIsRead
  <2>3. /\ Unsigned(Part(p, k + 2 * 0, 2)) = r.x /\ Unsigned(Part(p, k + 2 * 1, 2)) = r.y
        /\ Unsigned(Part(p, k + 2 * 2, 2)) = r.w /\ Unsigned(Part(p, k + 2 * 3, 2)) = r.h
    <3>1. /\ Unsigned(Part(p, k + 0, 2)) = r.x /\ Unsigned(Part(p, k + 2, 2)) = r.y
          /\ Unsigned(Part(p, k + 4, 2)) = r.w /\ Unsigned(Part(p, k + 6, 2)) = r.h
      BY <1>1, <1>8, <2>2
    <3> QED
      BY <3>1
  <2> QED
    BY <1>1, <2>3 DEF RectAt
<1>10. Len(o) = 8
  BY <1>5, <1>6
<1> QED
  BY <1>6, <1>9, <1>10 DEF o

Boxes(rects) == FlattenSeq([i \in DOMAIN rects |-> RectOctets(rects[i])])

(* Rectangles take eight octets each, one behind the other.                 *)
LEMMA BoxesAre ==
    ASSUME NEW rects \in Seq(Rects)
    PROVE  /\ Boxes(rects) \in Seq(Octet) /\ Len(Boxes(rects)) = 8 * Len(rects)
           /\ \A i \in 1..Len(rects) : Lies(RectOctets(rects[i]), Boxes(rects), 8 * (i - 1))
<1> DEFINE n == Len(rects)  s == [i \in 1..n |-> RectOctets(rects[i])]
           c == At(Lengths(s))  o == Boxes(rects)
<1>1. n \in Nat /\ DOMAIN rects = 1..n /\ \A i \in 1..n : rects[i] \in Rects
  OBVIOUS
<1>2. \A i \in 1..n : RectOctets(rects[i]) \in Seq(Octet) /\ Len(RectOctets(rects[i])) = 8
  BY <1>1, BoxIs
<1>3. s \in Seq(Seq(Octet)) /\ Len(s) = n /\ \A i \in 1..n : s[i] = RectOctets(rects[i])
  BY <1>1, <1>2
<1>4. o = FlattenSeq(s)
  BY <1>1 DEF Boxes
<1> HIDE DEF s, n, o
<1>5. /\ o \in Seq(Octet) /\ Len(o) = c[n]
      /\ \A i \in 1..n : \A j \in 1..8 : o[c[i - 1] + j] = RectOctets(rects[i])[j]
  <2>1. Chained(o, s, Octet)
    BY <1>3, <1>4, Flattened
  <2> QED
    BY <1>2, <1>3, <2>1 DEF Chained
<1>6. c[0] = 0 /\ \A i \in 1..n : c[i] = c[i - 1] + 8
  <2>1. Lengths(s) \in Seq(Nat) /\ Len(Lengths(s)) = n
    BY <1>3, LengthsAre
  <2>2. \A i \in 1..n : Lengths(s)[i] = 8
    BY <1>2, <1>3 DEF Lengths
  <2> QED
    BY <2>1, <2>2, AtIs
<1> HIDE DEF c
<1>7. \A i \in 0..n : c[i] = 8 * i
  <2> DEFINE Q == {k \in Nat : k <= n => c[k] = 8 * k}
  <2>1. 0 \in Q
    BY <1>6
  <2>2. ASSUME NEW k \in Q PROVE k + 1 \in Q
    <3> SUFFICES ASSUME k + 1 <= n PROVE c[k + 1] = 8 * (k + 1)
      OBVIOUS
    <3>1. k + 1 \in 1..n /\ k + 1 - 1 = k /\ c[k] = 8 * k
      BY <1>1
    <3> QED
      BY <1>6, <3>1
  <2>3. Q = Nat
    <3> HIDE DEF Q
    <3>1. Q \in SUBSET Nat
      BY DEF Q
    <3> QED
      BY <2>1, <2>2, <3>1, AllNumbers
  <2> QED
    BY <1>1, <2>3
<1>8. Len(o) = 8 * n
  BY <1>1, <1>5, <1>7
<1>9. ASSUME NEW i \in 1..n PROVE Lies(RectOctets(rects[i]), o, 8 * (i - 1))
  <2>1. i - 1 \in 0..n /\ c[i - 1] = 8 * (i - 1)
    BY <1>1, <1>7
  <2>2. 8 * (i - 1) + 8 <= 8 * n
    BY <1>1
  <2> QED
    BY <1>2, <1>5, <1>8, <2>1, <2>2 DEF Lies
<1> QED
  BY <1>5, <1>8, <1>9 DEF o, n

-----------------------------------------------------------------------------
(* What Parse takes from a payload.                                           *)

All(w, p)    == [i \in 1..Len(w) |-> Unsigned(Part(p, At(w)[i - 1], w[i]))]
Head1(w)     == At(w)[Len(w)]
Count(t, w, p)  == IF t \in Boxed THEN All(w, p)[Len(w) - 1] ELSE 0
TextLen(t, w, p) == IF t \in Textual THEN p[Head1(w) + 1] ELSE 0
Used(t, w, p) == Head1(w) + 8 * Count(t, w, p)
                    + (IF t \in Textual THEN 1 + TextLen(t, w, p) ELSE 0)
Taken(t, w, p) ==
    [type  |-> t,
     nums  |-> SubSeq(All(w, p), 1, Len(w) - Extra(t)),
     text  |-> IF t \in Textual THEN Part(p, Head1(w) + 1, TextLen(t, w, p)) ELSE <<>>,
     rects |-> [i \in 1..Count(t, w, p) |-> RectAt(p, Head1(w) + 8 * (i - 1))],
     body  |-> SubSeq(p, Used(t, w, p) + 1, Len(p))]

(* Parse, with its cases in the order of its checks.                        *)
LEMMA ParseIs ==
    ASSUME NEW takes, NEW t, NEW p
    PROVE  Parse(takes, t, p) =
             LET w == takes[t]
             IN CASE Head1(w) > Len(p)                        -> Failed("short")
                  [] t \in Textual /\ Head1(w) = Len(p)       -> Failed("short")
                  [] TooMany(Count(t, w, p))                  -> Failed("limit")
                  [] t \in Textual /\ Used(t, w, p) > Len(p)  -> Failed("text")
                  [] Used(t, w, p) > Len(p)                   -> Failed("short")
                  [] t # "FRAME" /\ Used(t, w, p) < Len(p)    -> Failed("trailing")
                  [] OTHER -> [why |-> "ok", msg |-> Taken(t, w, p)]
BY DEF Parse, All, Head1, Count, TextLen, Used, Taken, At

(* How long the text is with its length, and where the parts of an encoding lie. *)
TextSize(m) == IF m.type \in Textual THEN 1 + Len(m.text) ELSE 0

Encoded(m, w, p) ==
    /\ Head1(w) \in Nat /\ p \in Seq(Octet)
    /\ Len(p) = Head1(w) + TextSize(m) + 8 * Len(m.rects) + Len(m.body)
    /\ \A i \in 1..Len(w) : All(w, p)[i] = Numbers(m)[i] % Pow[w[i]]
    /\ m.type \in Textual => /\ p[Head1(w) + 1] = Len(m.text)
                             /\ Part(p, Head1(w) + 1, Len(m.text)) = m.text
    /\ \A i \in 1..Len(m.rects) :
         RectAt(p, (Head1(w) + TextSize(m)) + 8 * (i - 1)) = m.rects[i]
    /\ Part(p, Head1(w) + TextSize(m) + 8 * Len(m.rects), Len(m.body)) = m.body

LEMMA OneOctet ==
    ASSUME NEW v \in Nat, v <= MaxString
    PROVE  Octets(v, 1) \in Seq(Octet) /\ Len(Octets(v, 1)) = 1 /\ Octets(v, 1)[1] = v
<1>1. 1 \in Nat /\ 1 <= 8
  OBVIOUS
<1>2. /\ Octets(v, 1) \in Seq(Octet) /\ Len(Octets(v, 1)) = 1
      /\ \A i \in 1..1 : Octets(v, 1)[i] = (v \div Pow[i - 1]) % Base
  BY <1>1, OctetsAre, Zenon
<1>3. 1 \in 1..1 /\ 1 - 1 = 0
  OBVIOUS
<1>4. Octets(v, 1)[1] = (v \div Pow[0]) % Base
  BY <1>2, <1>3
<1>5. (v \div 1) % Base = v
  BY WireAssumption, Bases
<1> QED
  BY <1>2, <1>4, <1>5, Powers

(* A text behind its length.                                                *)
LEMMA TextIs ==
    ASSUME NEW m, NEW w, IsMessage(m, w), Len(m.text) <= MaxString
    PROVE  LET x == IF m.type \in Textual THEN Octets(Len(m.text), 1) \o m.text ELSE <<>>
           IN /\ x \in Seq(Octet) /\ Len(x) = TextSize(m)
              /\ m.type \in Textual => /\ x[1] = Len(m.text)
                                       /\ \A i \in 1..Len(m.text) : x[1 + i] = m.text[i]
<1>1. m.text \in Seq(Octet) /\ Len(m.text) \in Nat
  BY DEF IsMessage
<1> DEFINE a == Octets(Len(m.text), 1)  x == a \o m.text
<1>2. a \in Seq(Octet) /\ Len(a) = 1 /\ a[1] = Len(m.text)
  BY <1>1, OneOctet
<1> HIDE DEF a
<1>3. x \in Seq(Octet) /\ Joins(x, a, m.text)
  BY <1>1, <1>2, Joined, Zenon
<1> HIDE DEF x
<1>4. x[1] = Len(m.text) /\ Len(x) = 1 + Len(m.text)
  BY <1>2, <1>3 DEF Joins
<1>5. \A i \in 1..Len(m.text) : x[1 + i] = m.text[i]
  BY <1>2, <1>3 DEF Joins
<1>6. CASE m.type \in Textual
  <2>1. TextSize(m) = 1 + Len(m.text)
    BY <1>6 DEF TextSize
  <2>2. x \in Seq(Octet) /\ Len(x) = TextSize(m)
    BY <1>3, <1>4, <2>1
  <2> QED
    BY <1>4, <1>5, <1>6, <2>2 DEF x, a
<1>7. CASE m.type \notin Textual
  BY <1>7 DEF TextSize
<1> QED
  BY <1>6, <1>7

(* An encoded message holds its numbers, then its text, its rectangles, its body.*)
LEMMA EncodingIs ==
    ASSUME NEW m, NEW w, IsMessage(m, w), Len(m.text) <= MaxString
    PROVE  Encoded(m, w, Encoding(w, m))
<1> DEFINE f == Fields(Numbers(m), w)
           x == IF m.type \in Textual THEN Octets(Len(m.text), 1) \o m.text ELSE <<>>
           r == Boxes(m.rects)
           p == ((f \o x) \o r) \o m.body
           h == Head1(w)  k == Len(m.rects)
<1>1. w \in Seq(Width) /\ w \in Seq(Nat)
  <2>1. w \in Seq(Width)
    BY Tables DEF IsMessage, TableOk
  <2> QED
    BY <2>1 DEF Width
<1>2. Numbers(m) \in Seq(Nat) /\ Len(Numbers(m)) = Len(w)
  BY NumbersAre
<1>3. /\ f \in Seq(Octet) /\ Len(f) = h
      /\ \A i \in 1..Len(w) : Holds(f, At(w)[i - 1], Numbers(m)[i], w[i])
  BY <1>1, <1>2, FieldsAre DEF Head1
<1>4. /\ x \in Seq(Octet) /\ Len(x) = TextSize(m)
      /\ m.type \in Textual => /\ x[1] = Len(m.text)
                               /\ \A i \in 1..Len(m.text) : x[1 + i] = m.text[i]
  BY TextIs
<1>5. m.rects \in Seq(Rects) /\ m.body \in Seq(Octet) /\ m.text \in Seq(Octet)
  BY DEF IsMessage
<1>6. /\ r \in Seq(Octet) /\ Len(r) = 8 * k
      /\ \A i \in 1..k : Lies(RectOctets(m.rects[i]), r, 8 * (i - 1))
  BY <1>5, BoxesAre
<1>7. Encoding(w, m) = p
  BY DEF Encoding, Boxes
<1> HIDE DEF f, x, r
<1>8. p \in Seq(Octet) /\ Pieces(p, f, x, r, m.body)
  BY <1>3, <1>4, <1>5, <1>6, Pieced, Zenon
<1> HIDE DEF p, h, k
<1> DEFINE z == TextSize(m)  e == 8 * k  l == Len(m.body)  n == Len(m.text)
<1>9. /\ h \in Nat /\ z \in Nat /\ k \in Nat /\ l \in Nat /\ e \in Nat /\ n \in Nat
      /\ Len(f) = h /\ Len(r) = e /\ Len(p) = h + z + e + l
      /\ \A i \in 1..h : p[i] = f[i]
      /\ \A i \in 1..z : p[h + i] = x[i]
      /\ \A i \in 1..e : p[h + z + i] = r[i]
      /\ \A i \in 1..l : p[h + z + e + i] = m.body[i]
  <2>1. k \in Nat /\ e \in Nat /\ n \in Nat
    BY <1>5 DEF k
  <2> HIDE DEF e
  <2>2. Len(f) = h /\ Len(x) = z /\ Len(r) = e
    BY <1>3, <1>4, <1>6 DEF e, k
  <2> QED
    BY <1>8, <2>1, <2>2 DEF Pieces
<1> HIDE DEF z, e, l, n
<1>10. ASSUME NEW i \in 1..Len(w) PROVE All(w, p)[i] = Numbers(m)[i] % Pow[w[i]]
  <2>1. /\ i - 1 \in 0..Len(w) /\ At(w)[i - 1] \in Nat /\ At(w)[i - 1] + w[i] <= h
        /\ w[i] \in Width /\ w[i] \in Nat /\ Numbers(m)[i] \in Nat
    <3>1. i \in 0..Len(w) /\ i - 1 \in 0..Len(w) /\ Len(w) \in 0..Len(w)
      BY <1>1
    <3>2. /\ At(w) \in [0..Len(w) -> Nat]
          /\ At(w)[i] = At(w)[i - 1] + w[i]
          /\ \A a \in 0..Len(w) : \A b \in 0..a : At(w)[b] <= At(w)[a]
      BY <1>1, AtIs, Zenon
    <3>3. At(w)[i] <= At(w)[Len(w)] /\ At(w)[i - 1] \in Nat
      BY <3>1, <3>2
    <3>4. w[i] \in Width /\ w[i] \in Nat /\ Numbers(m)[i] \in Nat
      BY <1>1, <1>2
    <3> QED
      BY <3>1, <3>2, <3>3, <3>4 DEF h, Head1
  <2>2. Begin(p, f, h)
    BY <1>9 DEF Begin
  <2>3. Holds(p, At(w)[i - 1], Numbers(m)[i], w[i])
    BY <1>3, <1>8, <1>9, <2>1, <2>2, HeldWithin
  <2>4. Unsigned(Part(p, At(w)[i - 1], w[i])) = Numbers(m)[i] % Pow[w[i]]
    BY <1>8, <2>1, <2>3, HeldIsRead
  <2> QED
    BY <2>4 DEF All
<1>11. ASSUME m.type \in Textual
       PROVE  p[h + 1] = n /\ Part(p, h + 1, n) = m.text
  <2>1. z = 1 + n /\ 1 \in 1..z
    <3>1. z = 1 + n
      BY <1>11 DEF TextSize, z, n
    <3> QED
      BY <1>9, <3>1
  <2>2. p[h + 1] = x[1]
    BY <1>9, <2>1
  <2>3. ASSUME NEW i \in 1..n PROVE p[(h + 1) + i] = m.text[i]
    <3>1. 1 + i \in 1..z /\ (h + 1) + i = h + (1 + i)
      BY <1>9, <2>1
    <3>2. x[1 + i] = m.text[i]
      BY <1>4, <1>11 DEF n
    <3> QED
      BY <1>9, <3>1, <3>2
  <2>4. (h + 1) + n <= Len(p) /\ h + 1 \in Nat
    BY <1>9, <2>1
  <2>5. IsPart(m.text, p, h + 1, n)
    BY <2>3 DEF IsPart, n
  <2>6. Part(p, h + 1, n) = m.text
    BY <1>5, <1>8, <1>9, <2>4, <2>5, PartIs
  <2> QED
    BY <1>4, <1>11, <2>2, <2>6 DEF n
<1>12. ASSUME NEW i \in 1..k PROVE RectAt(p, (h + z) + 8 * (i - 1)) = m.rects[i]
  <2> DEFINE q == RectOctets(m.rects[i])  b == 8 * (i - 1)
  <2>1. m.rects[i] \in Rects
    BY <1>5 DEF k
  <2>2. Len(q) = 8 /\ q \in Seq(Octet)
    BY <2>1, BoxIs
  <2>3. b + 8 <= e /\ \A j \in 1..8 : r[b + j] = q[j]
    <3>1. Lies(q, r, b) /\ Len(r) = e
      BY <1>6, <1>9
    <3> HIDE DEF q, b
    <3> QED
      BY <2>2, <3>1 DEF Lies
  <2>4. b \in Nat
    BY <1>9
  <2> HIDE DEF q, b
  <2>a. /\ h \in Nat /\ z \in Nat /\ e \in Nat /\ l \in Nat /\ b \in Nat
        /\ b + 8 <= e /\ Len(p) = h + z + e + l
    BY <1>9, <2>3, <2>4
  <2>5. ASSUME NEW j \in 1..8 PROVE p[(h + z + b) + j] = q[j]
    <3>1. b + j \in 1..e /\ (h + z + b) + j = h + z + (b + j)
      <4>1. j \in Nat /\ j >= 1 /\ j <= 8
        OBVIOUS
      <4> QED
        BY <2>a, <4>1
    <3> QED
      BY <1>9, <2>3, <3>1
  <2>6. h + z + b + 8 <= Len(p) /\ h + z + b \in Nat
    BY <2>a
  <2>7. Lies(q, p, h + z + b)
    BY <2>2, <2>5, <2>6 DEF Lies
  <2>8. RectAt(p, h + z + b) = m.rects[i]
    BY <1>8, <2>1, <2>6, <2>7, BoxIs DEF q
  <2> QED
    BY <2>8 DEF b
<1>13. Part(p, h + z + e, l) = m.body
  <2> DEFINE a == h + z + e
  <2>1. a \in Nat /\ a + l <= Len(p)
    BY <1>9
  <2>2. IsPart(m.body, p, a, l)
    BY <1>9 DEF IsPart, l
  <2> HIDE DEF a
  <2>3. Part(p, a, l) = m.body
    BY <1>5, <1>8, <1>9, <2>1, <2>2, PartIs
  <2> QED
    BY <2>3 DEF a
<1> QED
  BY <1>7, <1>8, <1>9, <1>10, <1>11, <1>12, <1>13 DEF Encoded, h, k, z, e, l, n

LEMMA Remainder ==
    ASSUME NEW n \in Nat, NEW k \in Nat \ {0}
    PROVE  n % k \in Nat /\ n % k < k
OBVIOUS

(* What a decoder answers to the encoding of a message: the message, unless it   *)
(* has too many rectangles.                                                  *)
Understood(r, m) == /\ r.why \in {"ok", "limit", "trailing"}
                    /\ r.why = "ok" => r.msg = m
                    /\ Len(m.rects) <= MaxRects => r.why = "ok"

(* The numbers of a message are read back,                                  *)
LEMMA NumbersRead ==
    ASSUME NEW m, NEW w, NEW p, IsMessage(m, w), Encoded(m, w, p)
    PROVE  /\ SubSeq(All(w, p), 1, Len(w) - Extra(m.type)) = m.nums
           /\ m.type \in Boxed => All(w, p)[Len(w) - 1] = Len(m.rects) % Pow[2]
<1> DEFINE a == All(w, p)  n == Len(m.nums)
<1>1. /\ m.nums \in Seq(Nat) /\ n \in Nat /\ Len(w) \in Nat /\ n <= Len(w)
      /\ Len(w) - Extra(m.type) = n /\ w \in Seq(Width)
      /\ \A i \in 1..n : m.nums[i] < Pow[w[i]]
  <2>1. TableOk(m.type, w)
    BY Tables DEF IsMessage
  <2> QED
    BY <2>1 DEF IsMessage, TableOk
<1>2. /\ Numbers(m) \in Seq(Nat) /\ Len(Numbers(m)) = Len(w)
      /\ \A i \in 1..n : Numbers(m)[i] = m.nums[i]
      /\ m.type \in Boxed => Numbers(m)[Len(w) - 1] = Len(m.rects)
  BY NumbersAre
<1>3. \A i \in 1..Len(w) : a[i] = Numbers(m)[i] % Pow[w[i]] /\ w[i] \in Nat /\ w[i] <= 8
  BY <1>1 DEF Encoded, Width
<1>4. \A i \in 1..Len(w) : a[i] \in Nat
  <2>1. ASSUME NEW i \in 1..Len(w) PROVE a[i] \in Nat
    <3>1. Numbers(m)[i] \in Nat /\ Pow[w[i]] \in Nat \ {0}
      BY <1>2, <1>3, PowNat
    <3>2. Numbers(m)[i] % Pow[w[i]] \in Nat
      BY <3>1, Remainder
    <3> HIDE DEF a
    <3> QED
      BY <1>3, <3>2
  <2> QED
    BY <2>1
<1>5. a \in Seq(Nat) /\ Len(a) = Len(w)
  <2>1. a = [i \in 1..Len(w) |-> a[i]]
    BY DEF All
  <2> HIDE DEF a
  <2> QED
    BY <1>1, <1>4, <2>1
<1> HIDE DEF a, n
<1>6. \A i \in 1..n : a[i] = m.nums[i]
  <2>1. ASSUME NEW i \in 1..n PROVE a[i] = m.nums[i]
    <3>1. i \in 1..Len(w) /\ m.nums[i] \in Nat /\ m.nums[i] < Pow[w[i]]
      BY <1>1 DEF n
    <3>2. a[i] = m.nums[i] % Pow[w[i]] /\ Pow[w[i]] \in Nat
      BY <1>2, <1>3, <3>1, PowNat
    <3> QED
      BY <3>1, <3>2
  <2> QED
    BY <2>1
<1>7. SubSeq(a, 1, n) = m.nums
  <2> DEFINE b == SubSeq(a, 1, n)
  <2>1. b \in Seq(Nat) /\ Len(b) = n /\ \A i \in 1..n : b[i] = a[i]
    BY <1>1, <1>5
  <2> HIDE DEF b
  <2>2. Len(b) = Len(m.nums) /\ \A i \in 1..Len(b) : b[i] = m.nums[i]
    BY <1>6, <2>1 DEF n
  <2>3. b = m.nums
    BY <1>1, <2>1, <2>2, SeqEqual
  <2> QED
    BY <2>3 DEF b
<1>8. ASSUME m.type \in Boxed PROVE a[Len(w) - 1] = Len(m.rects) % Pow[2]
  <2>1. w[Len(w) - 1] = 2 /\ Len(w) - 1 \in 1..Len(w)
    <3>1. TableOk(m.type, w)
      BY Tables DEF IsMessage
    <3> QED
      BY <1>1, <1>8, <3>1 DEF TableOk
  <2> QED
    BY <1>2, <1>3, <1>8, <2>1
<1> QED
  BY <1>1, <1>7, <1>8 DEF a

(* and the count of its rectangles, if it did not wrap.                     *)
LEMMA CountIs ==
    ASSUME NEW m, NEW w, NEW p, IsMessage(m, w), Encoded(m, w, p)
    PROVE  LET c == Count(m.type, w, p)
           IN /\ c \in Nat /\ c <= Len(m.rects)
              /\ Len(m.rects) < Pow[2] => c = Len(m.rects)
              /\ m.type = "FRAME" => c = Len(m.rects)
<1> DEFINE c == Count(m.type, w, p)  k == Len(m.rects)
<1>1. k \in Nat /\ (m.type \notin Boxed => k = 0) /\ (m.type = "FRAME" => k < Pow[2])
  BY DEF IsMessage
<1>2. Pow[2] \in Nat \ {0}
  BY PowNat
<1>3. m.type \in Boxed => c = k % Pow[2]
  BY NumbersRead DEF Count
<1>4. m.type \notin Boxed => c = 0
  BY DEF Count
<1> HIDE DEF c, k
<1>5. k % Pow[2] \in Nat /\ k % Pow[2] <= k /\ (k < Pow[2] => k % Pow[2] = k)
  <2>1. k < Pow[2] => k % Pow[2] = k
    BY <1>1, <1>2
  <2>2. k % Pow[2] \in Nat /\ k % Pow[2] < Pow[2]
    BY <1>1, <1>2, Remainder
  <2> QED
    BY <1>1, <1>2, <2>1, <2>2
<1> QED
  BY <1>1, <1>3, <1>4, <1>5 DEF c, k

(* A message that is parsed from its encoding comes back, or is refused for its count.*)
LEMMA DecodedIs ==
    ASSUME NEW m, NEW w, NEW p, NEW takes, IsMessage(m, w), Encoded(m, w, p),
           takes[m.type] = w
    PROVE  Understood(Parse(takes, m.type, p), m)
<1> DEFINE t == m.type  h == Head1(w)  c == Count(t, w, p)  k == Len(m.rects)
           z == TextSize(m)  l == Len(m.body)  u == Used(t, w, p)  n == Len(p)
           r == Parse(takes, t, p)  tt == Taken(t, w, p)  e == TextLen(t, w, p)
<1>1. /\ h \in Nat /\ k \in Nat /\ l \in Nat /\ z \in Nat /\ n = h + z + 8 * k + l
      /\ t \in Textual => z >= 1
      /\ t # "FRAME" => l = 0
      /\ z = IF t \in Textual THEN 1 + e ELSE 0
      /\ t \in Textual => e = Len(m.text)
      /\ k > 0 => t \in Boxed /\ t \notin Textual /\ z = 0
  <2>1. /\ m.text \in Seq(Octet) /\ m.rects \in Seq(Rects) /\ m.body \in Seq(Octet)
        /\ t \notin Boxed => m.rects = <<>>
        /\ t # "FRAME" => m.body = <<>>
    BY DEF IsMessage
  <2>2. t \in Boxed => t \notin Textual
    BY DEF Boxed, Textual
  <2>3. h \in Nat /\ n = h + z + 8 * k + l /\ (t \in Textual => p[h + 1] = Len(m.text))
    BY DEF Encoded
  <2>4. k \in Nat /\ l \in Nat /\ (k > 0 => t \in Boxed) /\ (t # "FRAME" => l = 0)
    BY <2>1
  <2>5. Len(m.text) \in Nat
    BY <2>1
  <2> QED
    BY <2>2, <2>3, <2>4, <2>5 DEF TextSize, TextLen
<1>2. /\ c \in Nat /\ c <= k /\ (k < Pow[2] => c = k) /\ (t = "FRAME" => c = k)
  BY CountIs
<1>3. u = h + 8 * c + z
  BY <1>1 DEF Used
<1>4. r = CASE h > n                        -> Failed("short")
            [] t \in Textual /\ h = n       -> Failed("short")
            [] TooMany(c)                   -> Failed("limit")
            [] t \in Textual /\ u > n       -> Failed("text")
            [] u > n                        -> Failed("short")
            [] t # "FRAME" /\ u < n         -> Failed("trailing")
            [] OTHER -> [why |-> "ok", msg |-> tt]
  BY ParseIs
<1>5. c = k => tt = m
  <2> SUFFICES ASSUME c = k PROVE tt = m
    OBVIOUS
  <2>1. SubSeq(All(w, p), 1, Len(w) - Extra(t)) = m.nums
    BY NumbersRead
  <2>2. (IF t \in Textual THEN Part(p, h + 1, e) ELSE <<>>) = m.text
    <3>1. t \notin Textual => m.text = <<>>
      BY DEF IsMessage
    <3>2. t \in Textual => Part(p, h + 1, e) = m.text
      BY <1>1 DEF Encoded
    <3> QED
      BY <3>1, <3>2
  <2>3. [i \in 1..c |-> RectAt(p, h + 8 * (i - 1))] = m.rects
    <3>1. m.rects \in Seq(Rects)
      BY DEF IsMessage
    <3>2. \A i \in 1..k : RectAt(p, (h + z) + 8 * (i - 1)) = m.rects[i]
      BY DEF Encoded
    <3>3. ASSUME NEW i \in 1..k PROVE RectAt(p, h + 8 * (i - 1)) = m.rects[i]
      <4>1. z = 0 /\ h + z = h
        BY <1>1
      <4> QED
        BY <3>2, <4>1
    <3> HIDE DEF h
    <3>4. m.rects = [i \in 1..k |-> m.rects[i]]
      BY <3>1
    <3> QED
      BY <3>3, <3>4
  <2>4. SubSeq(p, u + 1, n) = m.body
    <3>1. Part(p, h + z + 8 * k, l) = m.body
      BY DEF Encoded
    <3>2. u = h + z + 8 * k /\ n = u + l
      <4> HIDE DEF h, z, k, l, u, n, c
      <4> QED
        BY <1>1, <1>3
    <3> HIDE DEF h, z, k, l, u, n
    <3> QED
      BY <3>1, <3>2 DEF Part
  <2>5. tt = [type |-> t, nums |-> m.nums, text |-> m.text,
              rects |-> m.rects, body |-> m.body]
    BY <2>1, <2>2, <2>3, <2>4 DEF Taken
  <2> QED
    BY <2>5 DEF IsMessage
<1> HIDE DEF t, h, c, k, z, l, u, n, r, tt, e
<1>6. MaxRects \in Nat /\ MaxRects < Pow[2] /\ Pow[2] \in Nat
  <2>1. Pow[2] \in Nat \ {0}
    BY PowNat
  <2> QED
    BY <2>1, WireAssumption
<1>7. TooMany(c) <=> c > MaxRects
  BY DEF TooMany
<1>8. h <= n /\ (t \in Textual => h # n) /\ u <= n
  BY <1>1, <1>2, <1>3
<1>9. /\ ~(h > n) /\ ~(t \in Textual /\ h = n)
       /\ ~(t \in Textual /\ u > n) /\ ~(u > n)
  <2>1. n \in Nat /\ u \in Nat
    <3>1. h \in Nat /\ z \in Nat /\ l \in Nat /\ 8 * k \in Nat /\ 8 * c \in Nat
      BY <1>1, <1>2
    <3>2. h + z + 8 * k + l \in Nat /\ h + 8 * c + z \in Nat
      BY <3>1
    <3> QED
      BY <1>1, <1>3, <3>2
  <2> QED
    BY <1>1, <1>8, <2>1
<1>10. CASE c = k
  <2>1. ~(t # "FRAME" /\ u < n)
    BY <1>1, <1>3, <1>10
  <2>2. ASSUME TooMany(c) PROVE r.why = "limit" /\ ~(k <= MaxRects)
    <3>1. r = Failed("limit")
      BY <1>4, <1>9, <2>1, <2>2
    <3>2. c > MaxRects
      BY <1>7, <2>2
    <3> QED
      BY <1>1, <1>6, <1>10, <3>1, <3>2 DEF Failed
  <2>3. ASSUME ~TooMany(c) PROVE r.why = "ok" /\ r.msg = m
    <3>1. r = [why |-> "ok", msg |-> tt]
      BY <1>4, <1>9, <2>1, <2>3
    <3> QED
      BY <1>5, <1>10, <3>1
  <2> QED
    BY <2>2, <2>3 DEF Understood, r, k, t
<1>11. CASE c # k
  <2>1. t # "FRAME" /\ ~(k <= MaxRects) /\ u < n
    BY <1>1, <1>2, <1>3, <1>6, <1>11
  <2>2. r = Failed("limit") \/ r = Failed("trailing")
    BY <1>4, <1>9, <2>1
  <2>3. r.why \in {"limit", "trailing"}
    BY <2>2 DEF Failed
  <2> QED
    BY <2>1, <2>3 DEF Understood, r, k, t
<1> QED
  BY <1>10, <1>11

-----------------------------------------------------------------------------
(* Headers.                                                                  *)

LEMMA HeaderHolds ==
    ASSUME NEW t \in DOMAIN HostPuts, NEW len \in Nat
    PROVE  LET h == Header(t, len)
           IN /\ h \in Seq(Octet) /\ Len(h) = 16
              /\ Holds(h, 0, 1, 4) /\ Holds(h, 4, 1, 2)
              /\ Holds(h, 6, TypeId(t), 2) /\ Holds(h, 8, len, 4)
<1> DEFINE v == <<1, 1, TypeId(t), len, 0>>  h == Header(t, len)  c == At(HeaderWidths)
           w == HeaderWidths
<1>1. TypeId(t) \in Nat
  <2>1. TypeId(t) \in 1..11
    BY TypeIds
  <2> QED
    BY <2>1
<1>2. v \in Seq(Nat) /\ Len(v) = 5 /\ v[1] = 1 /\ v[2] = 1 /\ v[3] = TypeId(t) /\ v[4] = len
  BY <1>1
<1>3. h = Fields(v, w)
  BY DEF Header, HeaderWidths, Magic, Version
<1>4. w[1] = 4 /\ w[2] = 2 /\ w[3] = 2 /\ w[4] = 4
  BY DEF HeaderWidths
<1>5. c[0] = 0 /\ c[1] = 4 /\ c[2] = 6 /\ c[3] = 8 /\ c[4] = 12 /\ c[5] = 16
  BY AtHeader
<1>6. w \in Seq(Width) /\ Len(w) = 5
  BY Layouts
<1>0. c = At(w)
  OBVIOUS
<1> HIDE DEF v, h, c, w
<1>7. h \in Seq(Octet) /\ Len(h) = c[5] /\ \A i \in 1..5 : Holds(h, c[i - 1], v[i], w[i])
  BY <1>0, <1>2, <1>3, <1>6, FieldsAre
<1>8. /\ Holds(h, c[1 - 1], v[1], w[1]) /\ Holds(h, c[2 - 1], v[2], w[2])
      /\ Holds(h, c[3 - 1], v[3], w[3]) /\ Holds(h, c[4 - 1], v[4], w[4])
  BY <1>7
<1>9. /\ Holds(h, 0, 1, 4) /\ Holds(h, 4, 1, 2)
      /\ Holds(h, 6, TypeId(t), 2) /\ Holds(h, 8, len, 4)
  <2>1. 1 - 1 = 0 /\ 2 - 1 = 1 /\ 3 - 1 = 2 /\ 4 - 1 = 3
    OBVIOUS
  <2> QED
    BY <1>2, <1>4, <1>5, <1>8, <2>1
<1> QED
  BY <1>5, <1>7, <1>9 DEF h

(* Either side accepts the other's header, and reads in it what is there.   *)
LEMMA HeaderIs ==
    ASSUME NEW t \in DOMAIN HostPuts, NEW len \in Nat, len <= MaxPayload,
           NEW o \in Seq(Octet), Begin(o, Header(t, len), 16)
    PROVE  /\ HostHeaderOk(o) /\ PhoneHeaderOk(o)
           /\ Body(o) = len /\ Type(o) = TypeId(t)
<1> DEFINE h == Header(t, len)
<1>1. /\ h \in Seq(Octet) /\ Len(h) = 16
      /\ Holds(h, 0, 1, 4) /\ Holds(h, 4, 1, 2)
      /\ Holds(h, 6, TypeId(t), 2) /\ Holds(h, 8, len, 4)
  BY HeaderHolds
<1> HIDE DEF h
<1>2. Begin(o, h, 16) /\ Len(o) \in Nat /\ 16 \in Nat
  BY DEF h
<1>3. ASSUME NEW a \in Nat, NEW v \in Nat, NEW w \in Width, a + w <= 16,
             Holds(h, a, v, w), v < Pow[w]
      PROVE  /\ Unsigned(Part(o, a, w)) = v
             /\ 2 * v < Pow[w] => Signed(Part(o, a, w)) = v
  <2>1. w \in Nat
    BY DEF Width
  <2>2. Holds(o, a, v, w)
    BY <1>2, <1>3, <2>1, HeldWithin
  <2> QED
    BY <1>3, <2>2, HeldIsRead
<1>4. 2 \in Width /\ 4 \in Width
  BY DEF Width
<1>5. /\ Pow[2] \in Nat /\ Pow[4] \in Nat /\ Pow[2] > 11 /\ Pow[4] >= Pow[2]
      /\ 2 * MaxPayload < Pow[4] /\ MaxPayload \in Nat
  BY PowNat, SmallPowers, WireAssumption
<1>6. TypeId(t) \in Nat /\ TypeId(t) < Pow[2]
  <2>1. TypeId(t) \in 1..11
    BY TypeIds
  <2>2. TypeId(t) \in Nat /\ TypeId(t) <= 11
    BY <2>1
  <2> QED
    BY <1>5, <2>2
<1>7. Unsigned(Part(o, 0, 4)) = 1
  BY <1>1, <1>3, <1>4, <1>5
<1>8. Unsigned(Part(o, 4, 2)) = 1 /\ Signed(Part(o, 4, 2)) = 1
  BY <1>1, <1>3, <1>4, <1>5
<1>9. Unsigned(Part(o, 6, 2)) = TypeId(t)
  BY <1>1, <1>3, <1>4, <1>6
<1>10. Unsigned(Part(o, 8, 4)) = len /\ Signed(Part(o, 8, 4)) = len
  <2>1. 2 * len < Pow[4] /\ len < Pow[4]
    BY <1>5
  <2> QED
    BY <1>1, <1>3, <1>4, <2>1
<1> QED
  BY <1>5, <1>7, <1>8, <1>9, <1>10
  DEF HostHeaderOk, PhoneHeaderOk, Body, Type, Magic, Version

(* A canvas on the pipe.                                                      *)
CanvasFields(c) == <<2, c.nums[1], c.nums[2], c.nums[3], c.nums[4],
                     c.nums[3] * 4, Len(c.body)>>

LEMMA CanvasIs ==
    ASSUME NEW c \in Canvases
    PROVE  /\ c.nums \in Seq(Nat) /\ Len(c.nums) = 4 /\ c.body \in Seq(Octet)
           /\ c.nums[1] \in Nat /\ c.nums[2] \in Nat /\ c.nums[3] \in Nat /\ c.nums[4] \in Nat
           /\ c.nums[1] < Pow[8] /\ c.nums[2] < Pow[8]
           /\ c.nums[3] < Pow[2] /\ c.nums[4] < Pow[2]
           /\ Len(c.body) = c.nums[3] * c.nums[4] * 4 /\ Len(c.body) < Pow[4]
           /\ c = [type |-> "CANVAS", nums |-> c.nums, text |-> <<>>,
                   rects |-> <<>>, body |-> c.body]
<1> DEFINE w == <<8, 8, 2, 2>>
<1>1. /\ c \in AnyMessage /\ c.type = "CANVAS" /\ Within(c.nums, w)
      /\ c.text = <<>> /\ c.rects = <<>>
      /\ Len(c.body) = c.nums[3] * c.nums[4] * 4 /\ Len(c.body) < Pow[4]
  BY DEF Canvases
<1>2. /\ c.nums \in Seq(Nat) /\ c.body \in Seq(Octet)
      /\ c = [type |-> c.type, nums |-> c.nums, text |-> c.text,
              rects |-> c.rects, body |-> c.body]
  BY <1>1 DEF AnyMessage
<1>3. Len(w) = 4 /\ w[1] = 8 /\ w[2] = 8 /\ w[3] = 2 /\ w[4] = 2
  OBVIOUS
<1> HIDE DEF w
<1>4. Len(c.nums) = 4 /\ \A i \in 1..4 : c.nums[i] < Pow[w[i]] /\ c.nums[i] \in Nat
  BY <1>1, <1>2, <1>3 DEF Within
<1>5. 1 \in 1..4 /\ 2 \in 1..4 /\ 3 \in 1..4 /\ 4 \in 1..4
  OBVIOUS
<1> QED
  BY <1>1, <1>2, <1>3, <1>4, <1>5

LEMMA PipedHolds ==
    ASSUME NEW c \in Canvases
    PROVE  LET h == Fields(CanvasFields(c), PipeWidths)
           IN /\ Piped(c) = h \o c.body
              /\ h \in Seq(Octet) /\ Len(h) = 32
              /\ Holds(h, 0, 2, 4)
              /\ Holds(h, 4, c.nums[1], 8) /\ Holds(h, 12, c.nums[2], 8)
              /\ Holds(h, 20, c.nums[3], 2) /\ Holds(h, 22, c.nums[4], 2)
              /\ Holds(h, 28, Len(c.body), 4)
<1> DEFINE v == CanvasFields(c)  w == PipeWidths  h == Fields(v, w)  k == At(w)
<1>1. /\ c.nums[1] \in Nat /\ c.nums[2] \in Nat /\ c.nums[3] \in Nat /\ c.nums[4] \in Nat
      /\ Len(c.body) \in Nat /\ c.nums[3] * 4 \in Nat
  <2>1. /\ c.nums[1] \in Nat /\ c.nums[2] \in Nat /\ c.nums[3] \in Nat /\ c.nums[4] \in Nat
        /\ c.body \in Seq(Octet)
    BY CanvasIs
  <2> QED
    BY <2>1
<1>2. /\ v \in Seq(Nat) /\ Len(v) = 7 /\ v[1] = 2 /\ v[2] = c.nums[1] /\ v[3] = c.nums[2]
      /\ v[4] = c.nums[3] /\ v[5] = c.nums[4] /\ v[7] = Len(c.body)
  BY <1>1 DEF CanvasFields
<1>3. Piped(c) = h \o c.body
  BY DEF Piped, PipeMagic, CanvasFields, PipeWidths
<1>4. w[1] = 4 /\ w[2] = 8 /\ w[3] = 8 /\ w[4] = 2 /\ w[5] = 2 /\ w[7] = 4
  BY DEF PipeWidths
<1>5. k[0] = 0 /\ k[1] = 4 /\ k[2] = 12 /\ k[3] = 20 /\ k[4] = 22 /\ k[6] = 28 /\ k[7] = 32
  BY AtPipe
<1>6. w \in Seq(Width) /\ Len(w) = 7
  BY Layouts
<1> HIDE DEF v, w
<1>7. h \in Seq(Octet) /\ Len(h) = k[7] /\ \A i \in 1..7 : Holds(h, k[i - 1], v[i], w[i])
  BY <1>2, <1>6, FieldsAre
<1> HIDE DEF h, k
<1>8. /\ Holds(h, k[1 - 1], v[1], w[1]) /\ Holds(h, k[2 - 1], v[2], w[2])
      /\ Holds(h, k[3 - 1], v[3], w[3]) /\ Holds(h, k[4 - 1], v[4], w[4])
      /\ Holds(h, k[5 - 1], v[5], w[5]) /\ Holds(h, k[7 - 1], v[7], w[7])
  BY <1>7
<1>9. 1 - 1 = 0 /\ 2 - 1 = 1 /\ 3 - 1 = 2 /\ 4 - 1 = 3 /\ 5 - 1 = 4 /\ 7 - 1 = 6
  OBVIOUS
<1>10. /\ Holds(h, 0, 2, 4)
       /\ Holds(h, 4, c.nums[1], 8) /\ Holds(h, 12, c.nums[2], 8)
       /\ Holds(h, 20, c.nums[3], 2) /\ Holds(h, 22, c.nums[4], 2)
       /\ Holds(h, 28, Len(c.body), 4)
  BY <1>2, <1>4, <1>5, <1>8, <1>9
<1> QED
  BY <1>3, <1>5, <1>7, <1>10 DEF h, v, w

(* The gnome source accepts the grabber's header but for a canvas above the limit.*)
LEMMA PipeHeaderIs ==
    ASSUME NEW c \in Canvases, NEW h, h = Fields(CanvasFields(c), PipeWidths),
           NEW o \in Seq(Octet), Begin(o, h, 32)
    PROVE  /\ Unsigned(Part(o, 28, 4)) = Len(c.body)
           /\ PipeHeaderOk(o) <=> Len(c.body) <= MaxPayload
           /\ \A p : p = c.body => PipeDecode(o, p) = [why |-> "ok", msg |-> c]
<1>1. /\ h \in Seq(Octet) /\ Len(h) = 32
      /\ Holds(h, 0, 2, 4)
      /\ Holds(h, 4, c.nums[1], 8) /\ Holds(h, 12, c.nums[2], 8)
      /\ Holds(h, 20, c.nums[3], 2) /\ Holds(h, 22, c.nums[4], 2)
      /\ Holds(h, 28, Len(c.body), 4)
  BY PipedHolds
<1>2. Begin(o, h, 32) /\ Len(o) \in Nat /\ 32 \in Nat
  OBVIOUS
<1>3. ASSUME NEW a \in Nat, NEW v \in Nat, NEW w \in Width, a + w <= 32,
             Holds(h, a, v, w), v < Pow[w]
      PROVE  Unsigned(Part(o, a, w)) = v
  <2>1. w \in Nat
    BY DEF Width
  <2>2. Holds(o, a, v, w)
    BY <1>2, <1>3, <2>1, HeldWithin
  <2> QED
    BY <1>3, <2>2, HeldIsRead
<1>4. 2 \in Width /\ 4 \in Width /\ 8 \in Width
  BY DEF Width
<1>5. /\ c.nums \in Seq(Nat) /\ Len(c.nums) = 4 /\ c.body \in Seq(Octet)
      /\ c.nums[1] \in Nat /\ c.nums[2] \in Nat /\ c.nums[3] \in Nat /\ c.nums[4] \in Nat
      /\ c.nums[1] < Pow[8] /\ c.nums[2] < Pow[8]
      /\ c.nums[3] < Pow[2] /\ c.nums[4] < Pow[2]
      /\ Len(c.body) = c.nums[3] * c.nums[4] * 4 /\ Len(c.body) < Pow[4]
      /\ c = [type |-> "CANVAS", nums |-> c.nums, text |-> <<>>,
              rects |-> <<>>, body |-> c.body]
  BY CanvasIs
<1>6. 2 < Pow[4]
  BY PowNat, SmallPowers
<1>7. Unsigned(Part(o, 0, 4)) = 2 /\ Unsigned(Part(o, 28, 4)) = Len(c.body)
  <2>1. Len(c.body) \in Nat
    BY <1>5
  <2>2. Unsigned(Part(o, 0, 4)) = 2
    <3>1. 0 \in Nat /\ 2 \in Nat /\ 0 + 4 <= 32 /\ Holds(h, 0, 2, 4)
      BY <1>1
    <3> QED
      BY <1>3, <1>4, <1>6, <3>1
  <2>3. Holds(h, 28, Len(c.body), 4) /\ Len(c.body) < Pow[4] /\ 28 \in Nat /\ 28 + 4 <= 32
    BY <1>1, <1>5
  <2>4. Unsigned(Part(o, 28, 4)) = Len(c.body)
    BY <1>3, <1>4, <2>1, <2>3
  <2> QED
    BY <2>2, <2>4
<1>8. /\ Unsigned(Part(o, 4, 8)) = c.nums[1] /\ Unsigned(Part(o, 12, 8)) = c.nums[2]
      /\ Unsigned(Part(o, 20, 2)) = c.nums[3] /\ Unsigned(Part(o, 22, 2)) = c.nums[4]
  <2> DEFINE a == c.nums[1]  b == c.nums[2]  w == c.nums[3]  t == c.nums[4]
  <2>1. /\ a \in Nat /\ a < Pow[8] /\ Holds(h, 4, a, 8)
        /\ b \in Nat /\ b < Pow[8] /\ Holds(h, 12, b, 8)
        /\ w \in Nat /\ w < Pow[2] /\ Holds(h, 20, w, 2)
        /\ t \in Nat /\ t < Pow[2] /\ Holds(h, 22, t, 2)
    BY <1>1, <1>5
  <2> HIDE DEF a, b, w, t
  <2>2. Unsigned(Part(o, 4, 8)) = a
    BY <1>3, <1>4, <2>1
  <2>3. Unsigned(Part(o, 12, 8)) = b
    BY <1>3, <1>4, <2>1
  <2>4. Unsigned(Part(o, 20, 2)) = w
    BY <1>3, <1>4, <2>1
  <2>5. Unsigned(Part(o, 22, 2)) = t
    BY <1>3, <1>4, <2>1
  <2> QED
    BY <2>2, <2>3, <2>4, <2>5 DEF a, b, w, t
<1>9. PipeHeaderOk(o) <=> Len(c.body) <= MaxPayload
  BY <1>7 DEF PipeHeaderOk, PipeMagic
<1>10. c.nums = <<c.nums[1], c.nums[2], c.nums[3], c.nums[4]>>
  BY <1>5
<1>11. PipeDecode(o, c.body) = [why |-> "ok", msg |-> c]
  <2> DEFINE a == c.nums[1]  b == c.nums[2]  w == c.nums[3]  t == c.nums[4]
  <2>1. Len(c.body) = w * t * 4
    BY <1>5
  <2>2. c = [type |-> "CANVAS", rects |-> <<>>, text |-> <<>>, body |-> c.body,
             nums |-> <<a, b, w, t>>]
    BY <1>5, <1>10
  <2> HIDE DEF a, b, w, t
  <2>3. PipeDecode(o, c.body) =
          IF Len(c.body) # w * t * 4 THEN Failed("size")
          ELSE [why |-> "ok", msg |->
                 [type |-> "CANVAS", rects |-> <<>>, text |-> <<>>, body |-> c.body,
                  nums |-> <<a, b, w, t>>]]
    BY <1>8 DEF PipeDecode, a, b, w, t
  <2> QED
    BY <2>1, <2>2, <2>3
<1> QED
  BY <1>7, <1>9, <1>11

-----------------------------------------------------------------------------
(* Messages on a link, and what its reader makes of them.                      *)

Links == {"up", "down", "loop", "pipe"}

(* What is on the wire was written by the side at that end.                     *)
Valid(m) == CASE link = "up"   -> m \in Messages(PhonePuts) /\ PhoneWrites(m)
              [] link = "pipe" -> m \in Canvases
              [] OTHER         -> m \in Messages(HostPuts) /\ HostWrites(m)

(* A message behind its header.                                               *)
Payload(m) == Encoding(HostPuts[m.type], m)

(* Off the pipe, what a writer lets pass is encoded within the limits.      *)
LEMMA Written ==
    ASSUME NEW m, link \in Links, link # "pipe", Valid(m)
    PROVE  /\ IsMessage(m, HostPuts[m.type]) /\ m.type \in DOMAIN HostPuts
           /\ OnWire(m) = Header(m.type, Len(Payload(m))) \o Payload(m)
           /\ Len(m.text) <= MaxString
           /\ Len(Payload(m)) \in Nat /\ Len(Payload(m)) <= MaxPayload
           /\ Encoded(m, HostPuts[m.type], Payload(m))
<1>1. CASE link = "up"
  <2>1. m \in Messages(PhonePuts) /\ PhoneWrites(m)
    BY <1>1 DEF Valid
  <2>2. IsMessage(m, HostPuts[m.type]) /\ PhonePuts[m.type] = HostPuts[m.type]
    BY <2>1, MessagesAre
  <2>3. Len(m.text) <= MaxString /\ Len(Payload(m)) <= Scratch
    BY <2>1, <2>2 DEF PhoneWrites, Payload
  <2>4. Encoded(m, HostPuts[m.type], Payload(m))
    BY <2>2, <2>3, EncodingIs DEF Payload
  <2>5. Payload(m) \in Seq(Octet)
    BY <2>4 DEF Encoded
  <2>6. Scratch <= MaxPayload /\ Scratch \in Int /\ MaxPayload \in Int
    BY WireAssumption, Bases
  <2>7. OnWire(m) = Header(m.type, Len(Payload(m))) \o Payload(m)
    BY <1>1, <2>2 DEF OnWire, Framed, Payload
  <2> QED
    BY <2>2, <2>3, <2>4, <2>5, <2>6, <2>7 DEF IsMessage
<1>2. CASE link # "up"
  <2>1. m \in Messages(HostPuts) /\ HostWrites(m)
    BY <1>2 DEF Valid
  <2>2. IsMessage(m, HostPuts[m.type])
    BY <2>1, MessagesAre
  <2>3. Len(m.text) <= MaxString /\ Len(Payload(m)) <= MaxPayload
    BY <2>1, <2>2 DEF HostWrites, Payload
  <2>4. Encoded(m, HostPuts[m.type], Payload(m))
    BY <2>2, <2>3, EncodingIs DEF Payload
  <2>5. Payload(m) \in Seq(Octet)
    BY <2>4 DEF Encoded
  <2>6. OnWire(m) = Header(m.type, Len(Payload(m))) \o Payload(m)
    BY <1>2 DEF OnWire, Framed, Payload
  <2> QED
    BY <2>2, <2>3, <2>4, <2>5, <2>6 DEF IsMessage
<1> QED
  BY <1>1, <1>2

(* Every message is a head of the link's length and a payload.                  *)
Parts(m, h, p) == /\ OnWire(m) = h \o p
                  /\ h \in Seq(Octet) /\ p \in Seq(Octet) /\ Len(h) = HeadLen
                  /\ OnWire(m) \in Seq(Octet)
                  /\ Len(OnWire(m)) = HeadLen + Len(p)
                  /\ Begin(OnWire(m), h, HeadLen)

LEMMA HeadLens == /\ HeadLen \in Nat /\ HeadLen >= 1
                  /\ HeadLen = IF link = "pipe" THEN 32 ELSE 16
BY DEF HeadLen, PipeHeaderLen, HeaderLen

LEMMA PartsAre ==
    ASSUME NEW m, NEW h \in Seq(Octet), NEW p \in Seq(Octet),
           OnWire(m) = h \o p, Len(h) = HeadLen
    PROVE  Parts(m, h, p)
<1> DEFINE f == h \o p
<1>1. f \in Seq(Octet) /\ Joins(f, h, p)
  BY Joined, Zenon
<1>2. OnWire(m) = f
  OBVIOUS
<1> HIDE DEF f
<1>3. Len(f) = Len(h) + Len(p) /\ Len(p) \in Nat /\ \A i \in 1..Len(h) : f[i] = h[i]
  BY <1>1 DEF Joins
<1>4. Begin(f, h, HeadLen)
  <2>1. HeadLen <= Len(h) /\ HeadLen <= Len(f)
    BY <1>3, HeadLens
  <2>2. \A i \in 1..HeadLen : f[i] = h[i]
    BY <1>3
  <2> QED
    BY <2>1, <2>2 DEF Begin
<1> QED
  BY <1>1, <1>2, <1>3, <1>4 DEF Parts

LEMMA PipeParts ==
    ASSUME NEW m, link = "pipe", Valid(m)
    PROVE  m \in Canvases /\ Parts(m, Fields(CanvasFields(m), PipeWidths), m.body)
<1> DEFINE h == Fields(CanvasFields(m), PipeWidths)
<1>1. m \in Canvases
  BY DEF Valid
<1>2. Piped(m) = h \o m.body /\ h \in Seq(Octet) /\ Len(h) = 32
  BY <1>1, PipedHolds
<1>3. OnWire(m) = Piped(m)
  BY DEF OnWire
<1>4. m.body \in Seq(Octet)
  BY <1>1, CanvasIs
<1> HIDE DEF h
<1>5. Parts(m, h, m.body)
  BY <1>2, <1>3, <1>4, HeadLens, PartsAre
<1> QED
  BY <1>1, <1>5 DEF h

LEMMA StreamParts ==
    ASSUME NEW m, link \in Links, link # "pipe", Valid(m)
    PROVE  Parts(m, Header(m.type, Len(Payload(m))), Payload(m))
<1> DEFINE h == Header(m.type, Len(Payload(m)))
<1>1. /\ OnWire(m) = h \o Payload(m) /\ m.type \in DOMAIN HostPuts
      /\ Len(Payload(m)) \in Nat /\ Payload(m) \in Seq(Octet)
  BY Written DEF Encoded
<1>2. h \in Seq(Octet) /\ Len(h) = 16
  BY <1>1, HeaderHolds
<1> HIDE DEF h
<1>3. Parts(m, h, Payload(m))
  BY <1>1, <1>2, HeadLens, PartsAre
<1> QED
  BY <1>3 DEF h

(* Every message puts a header on the wire at least.                        *)
LEMMA OnWireIs ==
    ASSUME NEW m, link \in Links, Valid(m)
    PROVE  OnWire(m) \in Seq(Octet) /\ Len(OnWire(m)) \in Nat /\ Len(OnWire(m)) >= HeadLen
<1>1. PICK h, p : Parts(m, h, p)
  BY PipeParts, StreamParts
<1>2. Len(p) \in Nat
  BY <1>1 DEF Parts
<1> QED
  BY <1>1, <1>2, HeadLens DEF Parts

(* A header that was read is accepted and says how much follows.            *)
LEMMA HeadRead ==
    ASSUME NEW m, link \in Links, Valid(m), buf \in Seq(Octet),
           Begin(buf, OnWire(m), HeadLen)
    PROVE  /\ HeaderOk <=> Readable(m)
           /\ HeadLen + BodyLen = Len(OnWire(m))
<1>1. CASE link = "pipe"
  <2> DEFINE h == Fields(CanvasFields(m), PipeWidths)
  <2>1. m \in Canvases /\ Parts(m, h, m.body)
    BY <1>1, PipeParts
  <2>2. HeadLen = 32
    BY <1>1, HeadLens
  <2>3. Begin(buf, h, 32)
    BY <2>1, <2>2 DEF Parts, Begin
  <2>4. /\ Unsigned(Part(buf, 28, 4)) = Len(m.body)
        /\ PipeHeaderOk(buf) <=> Len(m.body) <= MaxPayload
    BY <2>1, <2>3, PipeHeaderIs
  <2>5. (HeaderOk <=> PipeHeaderOk(buf)) /\ BodyLen = Unsigned(Part(buf, 28, 4))
    BY <1>1 DEF HeaderOk, BodyLen
  <2> QED
    BY <1>1, <2>1, <2>4, <2>5 DEF Readable, Parts
<1>2. CASE link # "pipe"
  <2> DEFINE len == Len(Payload(m))  h == Header(m.type, len)
  <2>1. Parts(m, h, Payload(m)) /\ m.type \in DOMAIN HostPuts /\ len \in Nat /\ len <= MaxPayload
    BY <1>2, StreamParts, Written
  <2>2. HeadLen = 16
    BY <1>2, HeadLens
  <2> HIDE DEF len
  <2>3. Begin(buf, h, 16)
    BY <2>1, <2>2 DEF Parts, Begin
  <2>4. HostHeaderOk(buf) /\ PhoneHeaderOk(buf) /\ Body(buf) = len
    BY <2>1, <2>3, HeaderIs
  <2>5. HeaderOk /\ BodyLen = len
    BY <1>2, <2>4 DEF HeaderOk, BodyLen
  <2> QED
    BY <1>2, <2>1, <2>5 DEF Readable, Parts, len
<1> QED
  BY <1>1, <1>2

Answer(r, m) == /\ r.why # "short"
                /\ r.why = "ok" => r.msg = m
                /\ link = "pipe" => r.why = "ok"
                /\ link # "pipe" /\ Agreed(m) => r.why = "ok"

(* What the decoders answer to the payload of a message that was written.   *)
LEMMA DecodersAnswer ==
    ASSUME NEW m, link \in Links, link # "pipe", Valid(m)
    PROVE  /\ Answer(HostDecode(TypeId(m.type), Payload(m)), m)
           /\ Answer(PhoneDecode(TypeId(m.type), Payload(m)), m)
<1> DEFINE t == m.type  p == Payload(m)  i == TypeId(t)  w == HostPuts[t]
           rh == Parse(HostTakes, t, p)  rp == Parse(PhoneTakes, t, p)
<1>1. /\ t \in DOMAIN HostPuts /\ IsMessage(m, w) /\ Encoded(m, w, p)
      /\ Len(p) \in Nat /\ Len(p) <= MaxPayload
  BY Written
<1>2. i \in DOMAIN Types /\ Types[i] = t
  BY <1>1, TypeIds
<1>3. HostTakes[t] = w /\ PhoneTakes[t] = w
  BY <1>1, Tables
<1>4. Understood(rh, m) /\ Understood(rp, m)
  BY <1>1, <1>3, DecodedIs
<1>5. Len(m.body) \in Nat /\ Len(m.body) < Pow[4]
  <2>1. /\ Len(m.body) \in Nat /\ Len(m.rects) \in Nat /\ Len(m.text) \in Nat
    BY <1>1 DEF IsMessage
  <2>2. TextSize(m) \in Nat
    BY <2>1 DEF TextSize
  <2>3. Head1(w) \in Nat /\ Len(p) = Head1(w) + TextSize(m) + 8 * Len(m.rects) + Len(m.body)
    BY <1>1 DEF Encoded
  <2>4. Len(m.body) <= Len(p)
    <3> DEFINE a == Head1(w)  b == TextSize(m)  c == 8 * Len(m.rects)  d == Len(m.body)
    <3>1. a \in Nat /\ b \in Nat /\ c \in Nat /\ d \in Nat /\ Len(p) = a + b + c + d
      BY <2>1, <2>2, <2>3
    <3> HIDE DEF a, b, c, d, p
    <3>2. d <= Len(p)
      BY <3>1
    <3> QED
      BY <3>2 DEF d
  <2>5. MaxPayload \in Nat /\ 2 * MaxPayload < Pow[4] /\ Pow[4] \in Nat
    BY WireAssumption, PowNat
  <2> HIDE DEF p
  <2> QED
    BY <1>1, <2>1, <2>4, <2>5
<1> HIDE DEF t, p, i, w, rh, rp
<1>6. HostDecode(i, p) = IF rh.why = "ok" /\ ~(RawFits(rh.msg) /\ Registered(rh.msg))
                         THEN Failed("value") ELSE rh
  BY <1>2 DEF HostDecode, rh
<1>7. PhoneDecode(i, p) = IF rp.why = "ok" /\ ~Packed(rp.msg) THEN Failed("packing") ELSE rp
  BY <1>2 DEF PhoneDecode, rp
<1>8. Answer(HostDecode(i, p), m)
  <2>1. rh.why \in {"ok", "limit", "trailing"} /\ (rh.why = "ok" => rh.msg = m)
    BY <1>4 DEF Understood
  <2>2. Agreed(m) => rh.why = "ok" /\ RawFits(m) /\ Registered(m)
    BY <1>4 DEF Understood, Agreed
  <2>3. CASE rh.why = "ok" /\ ~(RawFits(rh.msg) /\ Registered(rh.msg))
    <3>1. HostDecode(i, p).why = "value"
      BY <1>6, <2>3 DEF Failed
    <3> QED
      BY <2>1, <2>2, <2>3, <3>1 DEF Answer
  <2>4. CASE ~(rh.why = "ok" /\ ~(RawFits(rh.msg) /\ Registered(rh.msg)))
    <3>1. HostDecode(i, p) = rh
      BY <1>6, <2>4
    <3> QED
      BY <2>1, <2>2, <3>1 DEF Answer
  <2> QED
    BY <2>3, <2>4
<1>9. Answer(PhoneDecode(i, p), m)
  <2>1. rp.why \in {"ok", "limit", "trailing"} /\ (rp.why = "ok" => rp.msg = m)
    BY <1>4 DEF Understood
  <2>2. Agreed(m) => Packed(m)
    <3> SUFFICES ASSUME Agreed(m), m.type = "FRAME"
                 PROVE  m.nums[3] = 0 /\ Area(m.rects) % Pow[4] = Len(m.body)
      BY DEF Packed
    <3>1. m.nums[3] = 0 /\ Area(m.rects) = Len(m.body)
      BY DEF Agreed, RawFits
    <3>2. Pow[4] \in Nat
      BY PowNat
    <3> QED
      BY <1>5, <3>1, <3>2
  <2>3. Agreed(m) => rp.why = "ok"
    BY <1>4 DEF Understood, Agreed
  <2>4. CASE rp.why = "ok" /\ ~Packed(rp.msg)
    <3>1. PhoneDecode(i, p).why = "packing"
      BY <1>7, <2>4 DEF Failed
    <3> QED
      BY <2>1, <2>2, <2>4, <3>1 DEF Answer
  <2>5. CASE ~(rp.why = "ok" /\ ~Packed(rp.msg))
    <3>1. PhoneDecode(i, p) = rp
      BY <1>7, <2>5
    <3> QED
      BY <2>1, <2>3, <3>1 DEF Answer
  <2> QED
    BY <2>4, <2>5
<1> QED
  BY <1>8, <1>9 DEF i, p, t

(* What a reader makes of a message it has read to the end.                 *)
LEMMA MessageRead ==
    ASSUME NEW m, link \in Links, Valid(m), buf = OnWire(m)
    PROVE  Answer(Decoded, m)
<1>1. ASSUME NEW h, NEW p, Parts(m, h, p)
      PROVE  /\ SubSeq(buf, HeadLen + 1, Len(buf)) = p /\ Begin(buf, h, HeadLen)
             /\ buf \in Seq(Octet)
  <2> DEFINE f == h \o p
  <2>1. /\ buf = f /\ f \in Seq(Octet) /\ Len(f) = HeadLen + Len(p) /\ p \in Seq(Octet)
        /\ Len(h) = HeadLen /\ Joins(f, h, p) /\ Len(p) \in Nat
    <3>1. h \in Seq(Octet) /\ p \in Seq(Octet) /\ OnWire(m) = f /\ Len(h) = HeadLen
      BY <1>1 DEF Parts
    <3>2. f \in Seq(Octet) /\ Joins(f, h, p)
      BY <3>1, Joined, Zenon
    <3> QED
      BY <3>1, <3>2 DEF Joins
  <2> HIDE DEF f
  <2>2. IsPart(p, f, HeadLen, Len(p))
    BY <2>1 DEF IsPart, Joins
  <2>3. Part(f, HeadLen, Len(p)) = p
    BY <2>1, <2>2, HeadLens, PartIs
  <2> QED
    BY <1>1, <2>1, <2>3 DEF Part, Parts
<1>2. CASE link = "pipe"
  <2> DEFINE h == Fields(CanvasFields(m), PipeWidths)
  <2>1. m \in Canvases /\ Parts(m, h, m.body) /\ HeadLen = 32
    BY <1>2, PipeParts, HeadLens
  <2>2. /\ SubSeq(buf, HeadLen + 1, Len(buf)) = m.body /\ Begin(buf, h, 32)
        /\ buf \in Seq(Octet)
    BY <1>1, <2>1
  <2>3. PipeDecode(buf, m.body) = [why |-> "ok", msg |-> m]
    BY <2>1, <2>2, PipeHeaderIs
  <2>4. Decoded = [why |-> "ok", msg |-> m]
    BY <1>2, <2>2, <2>3 DEF Decoded
  <2> QED
    BY <2>4 DEF Answer
<1>3. CASE link # "pipe"
  <2> DEFINE len == Len(Payload(m))  h == Header(m.type, len)
  <2>1. /\ Parts(m, h, Payload(m)) /\ HeadLen = 16
        /\ m.type \in DOMAIN HostPuts /\ len \in Nat /\ len <= MaxPayload
    BY <1>3, StreamParts, Written, HeadLens
  <2> HIDE DEF len
  <2>2. /\ SubSeq(buf, HeadLen + 1, Len(buf)) = Payload(m) /\ Begin(buf, h, 16)
        /\ buf \in Seq(Octet)
    BY <1>1, <2>1
  <2>3. Type(buf) = TypeId(m.type)
    BY <2>1, <2>2, HeaderIs
  <2>4. /\ Answer(HostDecode(TypeId(m.type), Payload(m)), m)
        /\ Answer(PhoneDecode(TypeId(m.type), Payload(m)), m)
    BY <1>3, DecodersAnswer
  <2>5. Decoded = IF link = "down" THEN PhoneDecode(TypeId(m.type), Payload(m))
                  ELSE HostDecode(TypeId(m.type), Payload(m))
    BY <1>3, <2>2, <2>3 DEF Decoded
  <2> QED
    BY <2>4, <2>5
<1> QED
  BY <1>2, <1>3

-----------------------------------------------------------------------------
(* The invariant: until reading ends, what is being read and what is on the way  *)
(* are the octets behind the messages read so far; from the pipe, unless a       *)
(* canvas was too large.                                                     *)

IsSequence(s) == \E S : s \in Seq(S)

Settled == /\ link \in Links /\ script \in Scripts(link)
           /\ sent \in Seq(AnyMessage) /\ IsSequence(got)
           /\ \A i \in 1..Len(sent) : Valid(sent[i])

(* All that was written, and where each message ends.                          *)
Laid(all, pos) ==
    /\ all \in Seq(Octet) /\ pos \in [0..Len(sent) -> Nat]
    /\ pos[0] = 0 /\ pos[Len(sent)] = Len(all)
    /\ \A i \in 1..Len(sent) : /\ pos[i] = pos[i - 1] + Len(OnWire(sent[i]))
                               /\ Lies(OnWire(sent[i]), all, pos[i - 1])

Place(all, pos) ==
    LET k == Len(got)
    IN /\ Lies(buf, all, pos[k]) /\ Lies(wire, all, pos[k] + Len(buf))
       /\ ~cut => Len(all) = pos[k] + Len(buf) + Len(wire)
       /\ buf # <<>> => k < Len(sent) /\ Len(buf) <= Len(OnWire(sent[k + 1]))

Copied == Len(got) <= Len(sent) /\ \A i \in 1..Len(got) : got[i] = sent[i]

Follows == Copied /\ \E all, pos : Laid(all, pos) /\ Place(all, pos)

(* A canvas was too large: what was read before it is still right.             *)
Lost == /\ link = "pipe"
        /\ \E k \in 1..Len(sent) : /\ k <= Len(got) + 1 /\ ~Readable(sent[k])
                                   /\ \A i \in 1..(k - 1) : got[i] = sent[i]

Excused == cut \/ idle = Budget \/ \E i \in 1..Len(sent) : ~Agreed(sent[i])

Ended == /\ end = "clean" => shut /\ buf = <<>> /\ (got = sent \/ cut)
         /\ end = "error" /\ link # "pipe" => Excused
         /\ end # "crash"

StreamInv == /\ TypeOK /\ Settled
             /\ Copied \/ Lost
             /\ end = "open" => Follows \/ Lost
             /\ Ended

(* Types of the steps.                                                        *)
LEMMA WantedIs ==
    ASSUME link \in Links, buf \in Seq(Octet)
    PROVE  Wanted \in Int /\ (~InHeader => BodyLen \in Nat)
<1>1. HeadLen \in Nat /\ Len(buf) \in Nat /\ HeadLen = IF link = "pipe" THEN 32 ELSE 16
  BY HeadLens
<1>2. ASSUME NEW a \in Nat, a + 4 <= Len(buf) PROVE Unsigned(Part(buf, a, 4)) \in Nat
  <2>1. Part(buf, a, 4) \in Seq(Octet) /\ Len(Part(buf, a, 4)) = 4
    <3>1. Part(buf, a, 4) \in Seq(Octet) /\ IsPart(Part(buf, a, 4), buf, a, 4)
      <4>1. 4 \in Nat
        OBVIOUS
      <4> QED
        BY <1>2, <4>1, PartType, Zenon
    <3> QED
      BY <3>1 DEF IsPart
  <2>2. 4 <= 8
    OBVIOUS
  <2> QED
    BY <2>1, <2>2, UnsignedNat
<1>3. ASSUME ~InHeader PROVE BodyLen \in Nat
  <2>1. Len(buf) >= HeadLen
    BY <1>1, <1>3 DEF InHeader
  <2>2. CASE link = "pipe"
    <3>1. 28 + 4 <= Len(buf)
      BY <1>1, <2>1, <2>2
    <3>2. Unsigned(Part(buf, 28, 4)) \in Nat
      BY <1>2, <3>1
    <3> QED
      BY <2>2, <3>2 DEF BodyLen
  <2>3. CASE link # "pipe"
    <3>1. 8 + 4 <= Len(buf)
      BY <1>1, <2>1, <2>3
    <3>2. Unsigned(Part(buf, 8, 4)) \in Nat
      BY <1>2, <3>1
    <3> QED
      BY <2>3, <3>2 DEF BodyLen, Body
  <2> QED
    BY <2>2, <2>3
<1>4. Wanted \in Int
  <2>1. CASE InHeader
    BY <1>1, <2>1 DEF Wanted
  <2>2. CASE ~InHeader /\ HeaderOk
    <3>1. Wanted = HeadLen + BodyLen - Len(buf)
      BY <2>2 DEF Wanted
    <3> QED
      BY <1>1, <1>3, <2>2, <3>1
  <2>3. CASE ~InHeader /\ ~HeaderOk
    BY <2>3 DEF Wanted
  <2> QED
    BY <2>1, <2>2, <2>3
<1> QED
  BY <1>3, <1>4

(* A read takes some octets from one sequence to the end of another.            *)
LEMMA Moved ==
    ASSUME NEW n \in Nat, n >= 1, n <= Len(wire), wire \in Seq(Octet), buf \in Seq(Octet),
           buf' = buf \o SubSeq(wire, 1, n), wire' = SubSeq(wire, n + 1, Len(wire))
    PROVE  /\ buf' \in Seq(Octet) /\ wire' \in Seq(Octet)
           /\ Len(buf') = Len(buf) + n /\ Len(wire') = Len(wire) - n
           /\ \A all : \A a \in Nat :
                Lies(buf, all, a) /\ Lies(wire, all, a + Len(buf)) /\ Len(all) \in Nat =>
                  Lies(buf', all, a) /\ Lies(wire', all, a + Len(buf'))
<1> DEFINE h == SubSeq(wire, 1, n)  x == buf \o h  y == SubSeq(wire, n + 1, Len(wire))
           k == Len(buf)  l == Len(wire)
<1>1. k \in Nat /\ l \in Nat
  OBVIOUS
<1>2. h \in Seq(Octet) /\ Len(h) = n /\ \A i \in 1..n : h[i] = wire[i]
  OBVIOUS
<1>3. y \in Seq(Octet) /\ Len(y) = l - n /\ \A i \in 1..(l - n) : y[i] = wire[n + i]
  <2>1. l - n \in Nat /\ n + (l - n) <= Len(wire)
    BY <1>1
  <2>2. /\ Part(wire, n, l - n) \in Seq(Octet)
        /\ IsPart(Part(wire, n, l - n), wire, n, l - n)
    BY <2>1, PartType, Zenon
  <2>3. Part(wire, n, l - n) = y
    <3>1. n + (l - n) = l
      BY <1>1
    <3> QED
      BY <3>1 DEF Part
  <2> QED
    BY <2>2, <2>3 DEF IsPart
<1> HIDE DEF h, y
<1>4. x \in Seq(Octet) /\ Joins(x, buf, h)
  BY <1>2, Joined, Zenon
<1>5. buf' = x /\ wire' = y
  BY DEF h, y
<1> HIDE DEF x, k, l
<1>6. /\ Len(x) = k + n
      /\ \A i \in 1..k : x[i] = buf[i]
      /\ \A i \in 1..n : x[k + i] = wire[i]
  BY <1>2, <1>4 DEF Joins, k
<1>7. ASSUME NEW all, NEW a \in Nat, Lies(buf, all, a), Lies(wire, all, a + k), Len(all) \in Nat
      PROVE  Lies(x, all, a) /\ Lies(y, all, a + Len(x))
  <2>1. /\ a + k <= Len(all) /\ \A i \in 1..k : all[a + i] = buf[i]
        /\ a + k + l <= Len(all) /\ \A i \in 1..l : all[(a + k) + i] = wire[i]
    BY <1>7 DEF Lies, k, l
  <2>2. ASSUME NEW i \in 1..(k + n) PROVE all[a + i] = x[i]
    <3>1. CASE i <= k
      <4>1. i \in 1..k
        BY <1>1, <3>1
      <4> QED
        BY <1>6, <2>1, <4>1
    <3>2. CASE ~(i <= k)
      <4> DEFINE j == i - k
      <4>1. j \in 1..n /\ j \in 1..l /\ a + i = (a + k) + j /\ i = k + j
        BY <1>1, <3>2 DEF l
      <4> HIDE DEF j
      <4>2. all[a + i] = wire[j] /\ x[i] = wire[j]
        BY <1>6, <2>1, <4>1
      <4> QED
        BY <4>2
    <3> QED
      BY <3>1, <3>2
  <2>3. ASSUME NEW i \in 1..(l - n) PROVE all[(a + (k + n)) + i] = y[i]
    <3>1. n + i \in 1..l /\ (a + (k + n)) + i = (a + k) + (n + i)
      BY <1>1
    <3> QED
      BY <1>3, <2>1, <3>1 DEF l
  <2>4. a + (k + n) <= Len(all) /\ (a + (k + n)) + (l - n) <= Len(all)
    <3>1. n <= l
      BY DEF l
    <3> QED
      BY <1>1, <1>7, <2>1, <3>1
  <2> QED
    BY <1>3, <1>6, <2>2, <2>3, <2>4 DEF Lies, l
<1> QED
  BY <1>1, <1>3, <1>4, <1>5, <1>6, <1>7 DEF k, l

(* The message that is being read.                                            *)
LEMMA NextOne ==
    ASSUME StreamInv, NEW all, NEW pos, Laid(all, pos), Place(all, pos), Copied,
           Len(got) < Len(sent)
    PROVE  LET m == sent[Len(got) + 1]
               f == OnWire(m)
           IN /\ Valid(m) /\ f \in Seq(Octet) /\ Len(f) >= HeadLen
              /\ pos[Len(got)] \in Nat /\ pos[Len(got) + 1] = pos[Len(got)] + Len(f)
              /\ pos[Len(got)] + Len(f) <= Len(all)
              /\ Lies(f, all, pos[Len(got)])
              /\ \A n \in Nat : n <= Len(buf) /\ n <= Len(f) => Begin(buf, f, n)
<1> DEFINE k == Len(got)  m == sent[k + 1]  f == OnWire(m)
<1>1. k \in Nat /\ Len(sent) \in Nat /\ k + 1 \in 1..Len(sent) /\ k \in 0..Len(sent)
  BY DEF StreamInv, Settled, IsSequence
<1>2. Valid(m) /\ link \in Links
  BY <1>1 DEF StreamInv, Settled
<1>3. f \in Seq(Octet) /\ Len(f) \in Nat /\ Len(f) >= HeadLen
  BY <1>2, OnWireIs
<1> HIDE DEF k
<1>4. pos[k] \in Nat /\ pos[k + 1] = pos[k] + Len(f) /\ Lies(f, all, pos[k])
  <2>1. k + 1 - 1 = k
    BY <1>1
  <2>2. /\ pos \in [0..Len(sent) -> Nat]
        /\ \A i \in 1..Len(sent) : /\ pos[i] = pos[i - 1] + Len(OnWire(sent[i]))
                                   /\ Lies(OnWire(sent[i]), all, pos[i - 1])
    BY DEF Laid
  <2>3. pos[k + 1] = pos[k + 1 - 1] + Len(f) /\ Lies(f, all, pos[k + 1 - 1])
    BY <1>1, <2>2
  <2> QED
    BY <1>1, <2>1, <2>2, <2>3
<1>5. Lies(buf, all, pos[k])
  BY DEF Place, k
<1> HIDE DEF m, f
<1>6. pos[k] + Len(f) <= Len(all)
  BY <1>4 DEF Lies
<1>7. ASSUME NEW n \in Nat, n <= Len(buf), n <= Len(f) PROVE Begin(buf, f, n)
  <2>1. Len(buf) \in Nat
    BY DEF StreamInv, TypeOK
  <2>2. \A i \in 1..n : i \in 1..Len(buf) /\ i \in 1..Len(f)
    BY <1>3, <1>7, <2>1
  <2> QED
    BY <1>4, <1>5, <1>7, <2>2 DEF Begin, Lies
<1> QED
  BY <1>2, <1>3, <1>4, <1>6, <1>7 DEF k, m, f

(* A message that was read to its end is in the buffer.                         *)
LEMMA ReadWhole ==
    ASSUME StreamInv, NEW all, NEW pos, Laid(all, pos), Place(all, pos), Copied,
           Len(got) < Len(sent), Len(buf) = Len(OnWire(sent[Len(got) + 1]))
    PROVE  buf = OnWire(sent[Len(got) + 1])
<1> DEFINE f == OnWire(sent[Len(got) + 1])
<1>1. f \in Seq(Octet) /\ Begin(buf, f, Len(buf)) /\ buf \in Seq(Octet)
  <2>1. buf \in Seq(Octet) /\ Len(buf) \in Nat
    BY DEF StreamInv, TypeOK
  <2> QED
    BY <2>1, NextOne
<1>2. Len(buf) = Len(f)
  OBVIOUS
<1> HIDE DEF f
<1>3. \A i \in 1..Len(buf) : buf[i] = f[i]
  BY <1>1 DEF Begin
<1>4. buf = f
  BY <1>1, <1>2, <1>3, SeqEqual
<1> QED
  BY <1>4 DEF f

(* A stream on which nothing was written yet.                               *)
LEMMA InitFollows == Init => StreamInv
<1> SUFFICES ASSUME Init PROVE StreamInv
  OBVIOUS
<1>1. PICK s \in Streams : link = s.link /\ script = s.script
  BY DEF Init
<1>2. link \in Links /\ script \in Scripts(link)
  BY <1>1, FramingAssumption DEF Links
<1>3. /\ sent = <<>> /\ wire = <<>> /\ shut = FALSE /\ cut = FALSE
      /\ buf = <<>> /\ got = <<>> /\ end = "open" /\ idle = 0
  BY DEF Init
<1>4. TypeOK
  <2>1. Budget \in Nat
    BY FramingAssumption
  <2>2. idle \in 0..Budget /\ ~(idle > 0)
    BY <1>3, <2>1
  <2>3. wire \in Seq(Octet) /\ buf \in Seq(Octet)
    BY <1>3
  <2>4. end \in {"open", "clean", "error", "crash"} /\ shut \in BOOLEAN /\ cut \in BOOLEAN /\ ~cut
    BY <1>3
  <2> QED
    BY <2>2, <2>3, <2>4 DEF TypeOK
<1>5. Settled
  <2>1. sent \in Seq(AnyMessage) /\ got \in Seq({})
    BY <1>3
  <2> QED
    BY <1>2, <1>3, <2>1 DEF Settled, IsSequence
<1>6. Follows
  <2> DEFINE pos == [i \in {0} |-> 0]
  <2>1. Copied
    BY <1>3 DEF Copied
  <2>2. Laid(<<>>, pos)
    BY <1>3 DEF Laid
  <2>3. Place(<<>>, pos)
    BY <1>3 DEF Place, Lies
  <2> QED
    BY <2>1, <2>2, <2>3 DEF Follows
<1> QED
  BY <1>3, <1>4, <1>5, <1>6 DEF StreamInv, Follows, Ended

(* Steps that neither write nor deliver a message.                             *)
LEMMA Kept ==
    ASSUME Settled, UNCHANGED <<link, sent, got>>, script' = script \/ script' = <<>>
    PROVE  /\ Settled' /\ (Copied' <=> Copied) /\ (Lost' <=> Lost)
           /\ \A all, pos : Laid(all, pos)' <=> Laid(all, pos)
<1>1. Settled'
  <2>1. script' \in Scripts(link)
    <3>1. <<>> \in Scripts(link)
      BY DEF Scripts
    <3> QED
      BY <3>1 DEF Settled
  <2>2. \A m : Valid(m)' <=> Valid(m)
    BY DEF Valid
  <2> QED
    BY <2>1, <2>2 DEF Settled, IsSequence, Valid
<1>2. Copied' <=> Copied
  BY DEF Copied
<1>3. Lost' <=> Lost
  BY DEF Lost, Readable
<1>4. \A all, pos : Laid(all, pos)' <=> Laid(all, pos)
  BY DEF Laid, OnWire
<1> QED
  BY <1>1, <1>2, <1>3, <1>4

(* Steps that leave octets and messages alone.                                 *)
LEMMA RestStep ==
    ASSUME StreamInv, TypeOK',
           UNCHANGED <<link, sent, cut, wire, buf, got>>,
           script' = script \/ script' = <<>>, shut => shut',
           \/ UNCHANGED <<end, idle>>
           \/ UNCHANGED end /\ end = "open"
           \/ end' = "error" /\ idle' = idle /\ idle = Budget
    PROVE  StreamInv'
<1>1. /\ Settled' /\ (Copied' <=> Copied) /\ (Lost' <=> Lost)
      /\ \A all, pos : Laid(all, pos)' <=> Laid(all, pos)
  BY Kept DEF StreamInv
<1>2. Follows' <=> Follows
  <2>1. \A all, pos : Place(all, pos)' <=> Place(all, pos)
    BY DEF Place, OnWire
  <2> QED
    BY <1>1, <2>1 DEF Follows
<1>3. Ended'
  <2>1. CASE UNCHANGED <<end, idle>>
    BY <2>1 DEF StreamInv, Ended, Excused
  <2>2. CASE UNCHANGED end /\ end = "open"
    BY <2>2 DEF Ended
  <2>3. CASE end' = "error" /\ idle' = idle /\ idle = Budget
    BY <2>3 DEF Ended, Excused
  <2> QED
    BY <2>1, <2>2, <2>3
<1>4. end' = "open" => end = "open"
  OBVIOUS
<1> QED
  BY <1>1, <1>2, <1>3, <1>4 DEF StreamInv

(* A message more is on the way.                                            *)
LEMMA WriteStep == StreamInv /\ Write => StreamInv'
<1> SUFFICES ASSUME StreamInv, Write PROVE StreamInv'
  OBVIOUS
<1> DEFINE m == Head(script)  f == OnWire(m)  n == Len(sent)
<1>1. /\ ~shut /\ script # <<>> /\ Writable(m)
      /\ wire' = wire \o f /\ sent' = Append(sent, m) /\ script' = Tail(script)
      /\ UNCHANGED <<link, shut, cut, buf, got, end, idle>>
  BY DEF Write, readerVars
<1>2. /\ link \in Links /\ sent \in Seq(AnyMessage) /\ IsSequence(got) /\ TypeOK
      /\ \A i \in 1..n : Valid(sent[i])
      /\ n \in Nat /\ ~cut /\ wire \in Seq(Octet) /\ buf \in Seq(Octet) /\ Len(got) \in Nat
  BY <1>1 DEF StreamInv, Settled, TypeOK, IsSequence
<1>3. Valid(m) /\ m \in AnyMessage /\ Tail(script) \in Scripts(link)
  <2>1. script \in Scripts(link)
    BY DEF StreamInv, Settled
  <2>2. CASE link = "up"
    <3>1. script \in Seq(Messages(PhonePuts)) /\ script # <<>>
      BY <1>1, <2>1, <2>2 DEF Scripts
    <3>2. m \in Messages(PhonePuts) /\ Tail(script) \in Seq(Messages(PhonePuts))
      BY <3>1
    <3>3. PhoneWrites(m)
      BY <1>1, <2>2 DEF Writable
    <3> QED
      BY <2>2, <3>2, <3>3 DEF Valid, Scripts, Messages
  <2>3. CASE link = "pipe"
    <3>1. script \in Seq(Canvases) /\ script # <<>>
      BY <1>1, <2>1, <2>3 DEF Scripts
    <3>2. m \in Canvases /\ Tail(script) \in Seq(Canvases)
      BY <3>1
    <3> QED
      BY <2>3, <3>2 DEF Valid, Scripts, Canvases
  <2>4. CASE link \notin {"up", "pipe"}
    <3>1. script \in Seq(Messages(HostPuts)) /\ script # <<>>
      BY <1>1, <2>1, <2>4 DEF Scripts
    <3>2. m \in Messages(HostPuts) /\ Tail(script) \in Seq(Messages(HostPuts))
      BY <3>1
    <3>3. HostWrites(m)
      BY <1>1, <2>4 DEF Writable
    <3> QED
      BY <2>4, <3>2, <3>3 DEF Valid, Scripts, Messages
  <2> QED
    BY <2>2, <2>3, <2>4
<1>4. f \in Seq(Octet) /\ Len(f) \in Nat
  BY <1>2, <1>3, OnWireIs
<1>5. /\ sent' \in Seq(AnyMessage) /\ Len(sent') = n + 1 /\ sent'[n + 1] = m
      /\ \A i \in 1..n : sent'[i] = sent[i]
  BY <1>1, <1>2, <1>3
<1> HIDE DEF m, n
<1>6. wire' \in Seq(Octet) /\ Joins(wire', wire, f)
  <2> HIDE DEF f
  <2> QED
    BY <1>1, <1>2, <1>4, Joined
<1>7. TypeOK'
  BY <1>1, <1>2, <1>6 DEF TypeOK
<1>8. Settled'
  <2>2. ASSUME NEW i \in 1..(n + 1) PROVE Valid(sent'[i])
    <3>1. i \in 1..n \/ i = n + 1
      BY <1>2
    <3> QED
      BY <1>2, <1>3, <1>5, <3>1
  <2>3. \A i \in 1..Len(sent') : Valid(sent'[i])
    BY <1>5, <2>2
  <2>4. \A i \in 1..Len(sent') : Valid(sent[i])'
    BY <1>1, <2>3 DEF Valid
  <2> QED
    BY <1>1, <1>2, <1>3, <1>5, <2>4 DEF Settled, IsSequence
<1>9. Copied => Copied'
  <2> SUFFICES ASSUME Copied PROVE Copied'
    OBVIOUS
  <2>1. Len(got) <= n /\ \A i \in 1..Len(got) : got[i] = sent[i]
    BY DEF Copied, n
  <2>2. \A i \in 1..Len(got) : i \in 1..n
    BY <1>2, <2>1
  <2> QED
    BY <1>1, <1>2, <1>5, <2>1, <2>2 DEF Copied
<1>10. Lost => Lost'
  <2> SUFFICES ASSUME Lost PROVE Lost'
    OBVIOUS
  <2>1. PICK k \in 1..n : /\ k <= Len(got) + 1 /\ ~Readable(sent[k])
                          /\ \A i \in 1..(k - 1) : got[i] = sent[i]
    BY DEF Lost, n
  <2>2. k \in 1..(n + 1) /\ \A i \in 1..(k - 1) : i \in 1..n
    BY <1>2
  <2>3. link' = "pipe" /\ ~Readable(sent'[k]) /\ \A i \in 1..(k - 1) : got'[i] = sent'[i]
    BY <1>1, <1>5, <2>1, <2>2 DEF Lost, Readable
  <2> QED
    BY <1>1, <1>5, <2>1, <2>2, <2>3 DEF Lost, Readable
<1>11. Follows => Follows'
  <2> SUFFICES ASSUME Follows PROVE Follows'
    OBVIOUS
  <2>1. PICK all, pos : Laid(all, pos) /\ Place(all, pos)
    BY DEF Follows
  <2>9. PICK more : more = all \o f
    OBVIOUS
  <2>10. PICK ends : ends = [i \in 0..(n + 1) |-> IF i = n + 1 THEN Len(all) + Len(f) ELSE pos[i]]
    OBVIOUS
  <2>2. /\ all \in Seq(Octet) /\ Len(all) \in Nat
        /\ pos \in [0..n -> Nat] /\ pos[0] = 0 /\ pos[n] = Len(all)
        /\ \A i \in 1..n : /\ pos[i] = pos[i - 1] + Len(OnWire(sent[i]))
                           /\ Lies(OnWire(sent[i]), all, pos[i - 1])
    BY <2>1 DEF Laid, n
  <2>3. more \in Seq(Octet) /\ Joins(more, all, f)
    <3> HIDE DEF f
    <3> QED
      BY <1>4, <2>2, <2>9, Joined
  <2>4. /\ ends \in [0..(n + 1) -> Nat] /\ ends[n + 1] = Len(all) + Len(f)
        /\ \A i \in 0..n : ends[i] = pos[i]
    <3>1. \A i \in 0..n : i \in 0..(n + 1) /\ i # n + 1
      BY <1>2
    <3>2. \A i \in 0..(n + 1) : i # n + 1 => i \in 0..n
      BY <1>2
    <3>3. n + 1 \in 0..(n + 1)
      BY <1>2
    <3> HIDE DEF f
    <3> QED
      BY <1>4, <2>2, <2>10, <3>1, <3>2, <3>3
  <2> HIDE DEF f
  <2>5. /\ Len(more) = Len(all) + Len(f)
        /\ \A i \in 1..Len(all) : more[i] = all[i]
        /\ \A i \in 1..Len(f) : more[Len(all) + i] = f[i]
    BY <2>3 DEF Joins
  <2>6. ASSUME NEW q, NEW a \in Nat, Len(q) \in Nat, Lies(q, all, a) PROVE Lies(q, more, a)
    <3>1. a + Len(q) <= Len(all) /\ \A i \in 1..Len(q) : all[a + i] = q[i]
      BY <2>6 DEF Lies
    <3>2. \A i \in 1..Len(q) : a + i \in 1..Len(all)
      BY <2>2, <2>6, <3>1
    <3>3. a + Len(q) <= Len(more)
      BY <1>4, <2>2, <2>5, <2>6, <3>1
    <3> QED
      BY <2>5, <3>1, <3>2, <3>3 DEF Lies
  <2>7. Laid(more, ends)'
    <3>2. ASSUME NEW i \in 1..(n + 1)
          PROVE  /\ ends[i] = ends[i - 1] + Len(OnWire(sent'[i]))
                 /\ Lies(OnWire(sent'[i]), more, ends[i - 1])
      <4>1. CASE i = n + 1
        <5>1. ends[i - 1] = Len(all) /\ OnWire(sent'[i]) = f
          <6>1. i - 1 = n /\ n \in 0..n
            BY <1>2, <4>1
          <6> QED
            BY <1>5, <2>2, <2>4, <4>1, <6>1 DEF f
        <5>2. Lies(f, more, Len(all))
          BY <1>4, <2>2, <2>5 DEF Lies
        <5> QED
          BY <2>4, <4>1, <5>1, <5>2
      <4>2. CASE i # n + 1
        <5>1. i \in 1..n /\ i \in 0..n /\ i - 1 \in 0..n
          BY <1>2, <4>2
        <5>2. /\ ends[i] = pos[i] /\ ends[i - 1] = pos[i - 1] /\ sent'[i] = sent[i]
              /\ pos[i - 1] \in Nat
          BY <1>5, <2>2, <2>4, <5>1
        <5>3. Len(OnWire(sent[i])) \in Nat
          BY <1>2, <5>1, OnWireIs
        <5>4. Lies(OnWire(sent[i]), more, pos[i - 1])
          BY <2>2, <2>6, <5>1, <5>2, <5>3
        <5> QED
          BY <2>2, <5>1, <5>2, <5>4
      <4> QED
        BY <4>1, <4>2
    <3>3. ends[0] = 0
      <4>1. 0 \in 0..n
        BY <1>2
      <4> QED
        BY <2>2, <2>4, <4>1
    <3>4. \A i \in 1..(n + 1) : OnWire(sent[i])' = OnWire(sent'[i])
      BY <1>1 DEF OnWire
    <3>5. \A i \in 1..(n + 1) : /\ ends[i] = ends[i - 1] + Len(OnWire(sent[i])')
                                /\ Lies(OnWire(sent[i])', more, ends[i - 1])
      BY <3>2, <3>4
    <3>6. more \in Seq(Octet) /\ ends \in [0..Len(sent') -> Nat] /\ ends[Len(sent')] = Len(more)
      BY <1>5, <2>3, <2>4, <2>5
    <3>7. \A i \in 1..Len(sent') : /\ ends[i] = ends[i - 1] + Len(OnWire(sent[i])')
                                   /\ Lies(OnWire(sent[i])', more, ends[i - 1])
      BY <1>5, <3>5
    <3> QED
      BY <3>3, <3>6, <3>7 DEF Laid, OnWire
  <2>8. Place(more, ends)'
    <3> DEFINE k == Len(got)
    <3>1. /\ Lies(buf, all, pos[k]) /\ Lies(wire, all, pos[k] + Len(buf))
          /\ Len(all) = pos[k] + Len(buf) + Len(wire)
          /\ buf # <<>> => k < n /\ Len(buf) <= Len(OnWire(sent[k + 1]))
      BY <1>2, <2>1 DEF Place, n
    <3>2. k \in 0..n /\ pos[k] \in Nat /\ ends[k] = pos[k]
      <4>1. k \in 0..n
        BY <1>2 DEF Follows, Copied, n
      <4> QED
        BY <2>2, <2>4, <4>1
    <3> HIDE DEF k
    <3>3. Len(buf) \in Nat /\ Len(wire) \in Nat
      BY <1>2
    <3>4. Lies(buf, more, pos[k])
      BY <2>6, <3>1, <3>2, <3>3
    <3>5. /\ Len(wire') = Len(wire) + Len(f)
          /\ \A i \in 1..Len(wire) : wire'[i] = wire[i]
          /\ \A i \in 1..Len(f) : wire'[Len(wire) + i] = f[i]
      BY <1>6 DEF Joins
    <3> DEFINE a == pos[k] + Len(buf)
    <3>6. a \in Nat /\ Len(all) = a + Len(wire)
      BY <3>1, <3>2, <3>3
    <3>7. \A i \in 1..Len(wire) : all[a + i] = wire[i]
      BY <3>1 DEF Lies
    <3> HIDE DEF a
    <3>8. ASSUME NEW i \in 1..Len(wire') PROVE more[a + i] = wire'[i]
      <4>1. CASE i <= Len(wire)
        <5>1. i \in 1..Len(wire) /\ a + i \in 1..Len(all)
          BY <2>2, <3>3, <3>6, <4>1
        <5> QED
          BY <2>5, <3>5, <3>7, <5>1
      <4>2. CASE ~(i <= Len(wire))
        <5> DEFINE j == i - Len(wire)
        <5>1. j \in 1..Len(f) /\ a + i = Len(all) + j /\ i = Len(wire) + j
          BY <1>4, <3>3, <3>5, <3>6, <4>2
        <5> HIDE DEF j
        <5>2. more[a + i] = f[j] /\ wire'[i] = f[j]
          BY <2>5, <3>5, <5>1
        <5> QED
          BY <5>2
      <4> QED
        BY <4>1, <4>2
    <3>9. Len(more) = a + Len(wire')
      BY <1>4, <2>5, <3>3, <3>5, <3>6
    <3>10. Lies(wire', more, a)
      <4>1. Len(wire') \in Nat
        BY <1>6
      <4> QED
        BY <3>6, <3>8, <3>9, <4>1 DEF Lies
    <3>11. buf # <<>> => /\ k < n + 1
                         /\ Len(buf) <= Len(OnWire(sent'[k + 1]))
      <4> SUFFICES ASSUME buf # <<>>
                   PROVE  k < n + 1 /\ Len(buf) <= Len(OnWire(sent'[k + 1]))
        OBVIOUS
      <4>1. k < n /\ k + 1 \in 1..n /\ k < n + 1
        BY <1>2, <3>1, <3>2
      <4>2. sent'[k + 1] = sent[k + 1]
        BY <1>5, <4>1
      <4> QED
        BY <3>1, <4>1, <4>2
    <3>12. OnWire(sent[Len(got) + 1])' = OnWire(sent'[k + 1])
      BY <1>1 DEF OnWire, k
    <3> QED
      <4>1. buf # <<>> => k < n + 1 /\ Len(buf) <= Len(OnWire(sent[Len(got) + 1])')
        BY <3>11, <3>12
      <4>2. got' = got /\ buf' = buf /\ Len(sent') = n + 1 /\ Len(wire') \in Nat
        BY <1>1, <1>5, <1>6
      <4>3. /\ a = ends[k] + Len(buf)
            /\ Lies(buf, more, ends[k]) /\ Lies(wire', more, ends[k] + Len(buf))
        BY <3>2, <3>4, <3>10 DEF a
      <4>4. Len(more) = ends[k] + Len(buf) + Len(wire')
        BY <3>9, <4>3
      <4> QED
        BY <4>1, <4>2, <4>3, <4>4 DEF Place, OnWire, k
  <2> QED
    BY <1>9, <2>7, <2>8 DEF Follows
<1>12. Ended'
  <2>1. Excused => Excused'
    <3>1. \A x : Agreed(x)' <=> Agreed(x)
      BY DEF Agreed
    <3>2. \A i \in 1..n : i \in 1..(n + 1)
      BY <1>2
    <3> QED
      BY <1>1, <1>5, <3>1, <3>2 DEF Excused, n
  <2>2. Ended
    BY DEF StreamInv
  <2> QED
    BY <1>1, <2>1, <2>2 DEF Ended
<1> QED
  BY <1>1, <1>7, <1>8, <1>9, <1>10, <1>11, <1>12 DEF StreamInv

LEMMA WritePanicsStep == StreamInv /\ WritePanics => StreamInv'
<1> SUFFICES ASSUME StreamInv, WritePanics PROVE StreamInv'
  OBVIOUS
<1>1. UNCHANGED <<link, sent, cut, wire, buf, got, end, idle, shut>> /\ script' = <<>>
  BY DEF WritePanics, readerVars
<1>2. TypeOK'
  BY <1>1 DEF StreamInv, TypeOK
<1> QED
  BY <1>1, <1>2, RestStep

LEMMA CloseStep == StreamInv /\ Close => StreamInv'
<1> SUFFICES ASSUME StreamInv, Close PROVE StreamInv'
  OBVIOUS
<1>1. UNCHANGED <<link, sent, cut, wire, buf, got, end, idle, script>> /\ shut' = TRUE
  BY DEF Close, readerVars
<1>2. TypeOK'
  BY <1>1 DEF StreamInv, TypeOK
<1> QED
  BY <1>1, <1>2, RestStep

LEMMA TickStep == StreamInv /\ Tick => StreamInv'
<1> SUFFICES ASSUME StreamInv, Tick PROVE StreamInv'
  OBVIOUS
<1>1. /\ UNCHANGED <<link, sent, cut, wire, buf, got, end, shut, script>>
      /\ link = "up" /\ end = "open" /\ idle < Budget /\ idle' = idle + 1
  BY DEF Tick, Handshaking, writerVars, readerVars
<1>2. TypeOK'
  <2>1. Budget \in Nat /\ idle \in 0..Budget
    BY FramingAssumption DEF StreamInv, TypeOK
  <2>2. idle' \in 0..Budget
    BY <1>1, <2>1
  <2> QED
    BY <1>1, <2>2 DEF StreamInv, TypeOK
<1> QED
  BY <1>1, <1>2, RestStep

LEMMA TimesOutStep == StreamInv /\ TimesOut => StreamInv'
<1> SUFFICES ASSUME StreamInv, TimesOut PROVE StreamInv'
  OBVIOUS
<1>1. /\ UNCHANGED <<link, sent, cut, wire, buf, got, idle, shut, script>>
      /\ idle = Budget /\ end' = "error"
  BY DEF TimesOut, writerVars
<1>2. TypeOK'
  BY <1>1 DEF StreamInv, TypeOK
<1> QED
  BY <1>1, <1>2, RestStep

(* What is lost with the connection was the last on the way.                *)
LEMMA CutStep == StreamInv /\ Cut => StreamInv'
<1> SUFFICES ASSUME StreamInv, Cut PROVE StreamInv'
  OBVIOUS
<1>1. /\ ~shut /\ shut' = TRUE /\ cut' = TRUE /\ script' = <<>>
      /\ UNCHANGED <<link, sent, buf, got, end, idle>>
  BY DEF Cut, readerVars
<1>2. PICK k \in 0..Len(wire) : wire' = SubSeq(wire, 1, k)
  BY DEF Cut
<1>3. wire \in Seq(Octet) /\ Len(wire) \in Nat /\ k \in Nat /\ k <= Len(wire)
  BY DEF StreamInv, TypeOK
<1>4. wire' \in Seq(Octet) /\ Len(wire') = k /\ \A i \in 1..k : wire'[i] = wire[i]
  BY <1>2, <1>3
<1>5. TypeOK'
  BY <1>1, <1>4 DEF StreamInv, TypeOK
<1>6. /\ Settled' /\ (Copied' <=> Copied) /\ (Lost' <=> Lost)
      /\ \A all, pos : Laid(all, pos)' <=> Laid(all, pos)
  BY <1>1, Kept DEF StreamInv
<1>7. ASSUME Follows PROVE Follows'
  <2>1. PICK all, pos : Laid(all, pos) /\ Place(all, pos)
    BY <1>7 DEF Follows
  <2> DEFINE a == pos[Len(got)] + Len(buf)
  <2>2. Lies(wire, all, a)
    BY <2>1 DEF Place
  <2>3. a \in Int /\ Len(all) \in Nat
    <3>1. Len(got) \in 0..Len(sent)
      BY <1>7 DEF Follows, Copied, StreamInv, Settled, IsSequence
    <3>2. pos[Len(got)] \in Nat /\ Len(all) \in Nat
      BY <2>1, <3>1 DEF Laid
    <3> QED
      BY <3>2 DEF StreamInv, TypeOK
  <2>4. Lies(wire', all, a)
    <3>1. \A i \in 1..k : i \in 1..Len(wire)
      BY <1>3
    <3> HIDE DEF a
    <3>2. a + Len(wire) <= Len(all) /\ \A i \in 1..Len(wire) : all[a + i] = wire[i]
      BY <2>2 DEF Lies
    <3>3. a + k <= Len(all)
      BY <1>3, <2>3, <3>2
    <3> QED
      BY <1>4, <3>1, <3>2, <3>3 DEF Lies
  <2>5. Place(all, pos)'
    BY <1>1, <2>1, <2>4 DEF Place, OnWire
  <2> QED
    BY <1>6, <1>7, <2>1, <2>5 DEF Follows
<1>8. Ended'
  BY <1>1 DEF StreamInv, Ended, Excused
<1> QED
  BY <1>1, <1>5, <1>6, <1>7, <1>8 DEF StreamInv

(* How far the reader is with the message it reads.                             *)
LEMMA Ahead ==
    ASSUME StreamInv, NEW all, NEW pos, Laid(all, pos), Place(all, pos), Copied,
           Len(got) < Len(sent)
    PROVE  LET m == sent[Len(got) + 1]
           IN /\ Wanted \in Int
              /\ Wanted > 0 => Len(buf) + Wanted <= Len(OnWire(m))
              /\ ~InHeader => (HeaderOk <=> Readable(m))
              /\ Complete => Len(buf) = Len(OnWire(m))
<1> DEFINE m == sent[Len(got) + 1]  f == OnWire(m)
<1>1. /\ Valid(m) /\ f \in Seq(Octet) /\ Len(f) >= HeadLen
      /\ \A n \in Nat : n <= Len(buf) /\ n <= Len(f) => Begin(buf, f, n)
  BY NextOne
<1>2. link \in Links /\ buf \in Seq(Octet) /\ Len(buf) \in Nat
  BY DEF StreamInv, Settled, TypeOK
<1>3. Wanted \in Int /\ (~InHeader => BodyLen \in Nat)
  BY <1>2, WantedIs
<1> HIDE DEF m
<1>4. ASSUME ~InHeader PROVE (HeaderOk <=> Readable(m)) /\ HeadLen + BodyLen = Len(f)
  <2>1. HeadLen \in Nat /\ HeadLen <= Len(buf)
    BY <1>2, <1>4, HeadLens DEF InHeader
  <2>2. Begin(buf, f, HeadLen)
    BY <1>1, <2>1
  <2> QED
    BY <1>1, <1>2, <2>2, HeadRead
<1>5. Len(f) \in Nat /\ HeadLen \in Nat
  BY <1>1, HeadLens
<1> HIDE DEF f
<1>6. Wanted > 0 => Len(buf) + Wanted <= Len(f)
  <2>1. CASE InHeader
    <3>1. Wanted = HeadLen - Len(buf)
      BY <2>1 DEF Wanted
    <3> QED
      BY <1>1, <1>2, <1>5, <3>1
  <2>2. CASE ~InHeader /\ HeaderOk
    <3>1. Wanted = HeadLen + BodyLen - Len(buf)
      BY <2>2 DEF Wanted
    <3> QED
      BY <1>2, <1>3, <1>4, <1>5, <2>2, <3>1
  <2>3. CASE ~InHeader /\ ~HeaderOk
    BY <2>3 DEF Wanted
  <2> QED
    BY <2>1, <2>2, <2>3
<1>7. Complete => Len(buf) = Len(f)
  <2> SUFFICES ASSUME Complete PROVE Len(buf) = Len(f)
    OBVIOUS
  <2>1. ~InHeader /\ HeaderOk /\ Wanted = 0
    BY DEF Complete
  <2>2. Wanted = HeadLen + BodyLen - Len(buf)
    BY <2>1 DEF Wanted
  <2> QED
    BY <1>2, <1>3, <1>4, <1>5, <2>1, <2>2
<1> QED
  BY <1>3, <1>4, <1>6, <1>7 DEF f, m

(* A read goes on with the message that is next.                            *)
LEMMA ReadSomeStep == StreamInv /\ ReadSome => StreamInv'
<1> SUFFICES ASSUME StreamInv, ReadSome PROVE StreamInv'
  OBVIOUS
<1>1. /\ end = "open" /\ Wanted > 0 /\ wire # <<>> /\ idle' = 0
      /\ UNCHANGED <<link, script, sent, shut, cut, got, end>>
  BY DEF ReadSome, Waiting, writerVars
<1>2. /\ link \in Links /\ wire \in Seq(Octet) /\ buf \in Seq(Octet)
      /\ Len(wire) \in Nat /\ Len(wire) >= 1 /\ Len(buf) \in Nat
  BY <1>1 DEF StreamInv, Settled, TypeOK
<1>3. Wanted \in Int
  BY <1>2, WantedIs
<1>4. PICK n \in {1, IF Wanted < Len(wire) THEN Wanted ELSE Len(wire)} :
        /\ buf' = buf \o SubSeq(wire, 1, n)
        /\ wire' = SubSeq(wire, n + 1, Len(wire))
  BY DEF ReadSome
<1>5. n \in Nat /\ n >= 1 /\ n <= Len(wire) /\ n <= Wanted
  BY <1>1, <1>2, <1>3
<1>6. /\ buf' \in Seq(Octet) /\ wire' \in Seq(Octet)
      /\ Len(buf') = Len(buf) + n /\ Len(wire') = Len(wire) - n
      /\ \A all : \A a \in Nat :
           Lies(buf, all, a) /\ Lies(wire, all, a + Len(buf)) /\ Len(all) \in Nat =>
             Lies(buf', all, a) /\ Lies(wire', all, a + Len(buf'))
  BY <1>2, <1>4, <1>5, Moved
<1>7. TypeOK'
  <2>1. Budget \in Nat
    BY FramingAssumption
  <2>2. idle' \in 0..Budget /\ ~(idle' > 0)
    BY <1>1, <2>1
  <2> QED
    BY <1>1, <1>6, <2>2 DEF StreamInv, TypeOK
<1>8. /\ Settled' /\ (Copied' <=> Copied) /\ (Lost' <=> Lost)
      /\ \A all, pos : Laid(all, pos)' <=> Laid(all, pos)
  BY <1>1, Kept DEF StreamInv
<1>9. ASSUME Follows PROVE Follows'
  <2>1. PICK all, pos : Laid(all, pos) /\ Place(all, pos)
    BY <1>9 DEF Follows
  <2> DEFINE k == Len(got)
  <2>2. Copied
    BY <1>9 DEF Follows
  <2>3. /\ k \in 0..Len(sent) /\ pos[k] \in Nat /\ Len(all) \in Nat /\ Len(sent) \in Nat
        /\ pos[Len(sent)] = Len(all)
    <3>1. k \in 0..Len(sent) /\ Len(sent) \in Nat
      BY <2>2 DEF Copied, StreamInv, Settled, IsSequence
    <3> QED
      BY <2>1, <3>1 DEF Laid
  <2>4. /\ Lies(buf, all, pos[k]) /\ Lies(wire, all, pos[k] + Len(buf))
        /\ ~cut => Len(all) = pos[k] + Len(buf) + Len(wire)
    BY <2>1 DEF Place
  <2> HIDE DEF k
  <2>5. k < Len(sent)
    <3>1. pos[k] + Len(buf) + Len(wire) <= Len(all)
      BY <2>4 DEF Lies
    <3>2. pos[k] # Len(all)
      BY <1>2, <2>3, <3>1
    <3> QED
      BY <2>3, <3>2
  <2> DEFINE f == OnWire(sent[k + 1])
  <2>6. Len(buf) + Wanted <= Len(f) /\ Len(f) \in Nat
    BY <1>1, <2>1, <2>2, <2>5, Ahead, NextOne DEF k
  <2> HIDE DEF f
  <2>7. Lies(buf', all, pos[k]) /\ Lies(wire', all, pos[k] + Len(buf'))
    BY <1>6, <2>3, <2>4
  <2>8. ~cut => Len(all) = pos[k] + Len(buf') + Len(wire')
    BY <1>2, <1>5, <1>6, <2>3, <2>4
  <2>9. k < Len(sent) /\ Len(buf') <= Len(f)
    BY <1>2, <1>3, <1>5, <1>6, <2>5, <2>6
  <2>10. Place(all, pos)'
    BY <1>1, <2>7, <2>8, <2>9 DEF Place, OnWire, f, k
  <2> QED
    BY <1>8, <2>1, <2>2, <2>10 DEF Follows
<1>10. Ended'
  BY <1>1 DEF Ended
<1> QED
  BY <1>1, <1>7, <1>8, <1>9, <1>10 DEF StreamInv

(* Only a canvas above the limit is refused after its header.               *)
LEMMA RefuseStep == StreamInv /\ Refuse => StreamInv'
<1> SUFFICES ASSUME StreamInv, Refuse PROVE StreamInv'
  OBVIOUS
<1>1. /\ end = "open" /\ Len(buf) = HeadLen /\ ~HeaderOk
      /\ UNCHANGED <<link, script, sent, shut, cut, wire, idle, got>>
      /\ IF link = "pipe" THEN buf' = <<>> /\ end' = end
                          ELSE end' = "error" /\ buf' = buf
  BY DEF Refuse, Fail, writerVars
<1>2. TypeOK'
  <2>1. buf' \in Seq(Octet) /\ end' \in {"open", "clean", "error", "crash"}
    <3>1. CASE link = "pipe"
      <4>1. buf' = <<>> /\ end' = "open"
        BY <1>1, <3>1
      <4> QED
        BY <4>1
    <3>2. CASE link # "pipe"
      <4>1. buf' = buf /\ end' \in {"error", "crash"}
        BY <1>1, <3>2
      <4> QED
        BY <4>1 DEF StreamInv, TypeOK
    <3> QED
      BY <3>1, <3>2
  <2> QED
    BY <1>1, <2>1 DEF StreamInv, TypeOK
<1>3. /\ Settled' /\ (Copied' <=> Copied) /\ (Lost' <=> Lost)
  BY <1>1, Kept DEF StreamInv
<1>4. Lost
  <2>1. SUFFICES ASSUME Follows PROVE Lost
    BY <1>1 DEF StreamInv
  <2>2. PICK all, pos : Laid(all, pos) /\ Place(all, pos)
    BY <2>1 DEF Follows
  <2> DEFINE k == Len(got)
  <2>3. Copied /\ ~InHeader /\ buf # <<>>
    <3>1. Len(buf) \in Nat /\ Len(buf) >= 1
      BY <1>1, HeadLens
    <3> QED
      BY <1>1, <2>1, <3>1 DEF Follows, InHeader
  <2>4. k < Len(sent)
    BY <2>2, <2>3 DEF Place
  <2>5. ~Readable(sent[k + 1])
    BY <1>1, <2>2, <2>3, <2>4, Ahead
  <2>6. link = "pipe"
    BY <2>5 DEF Readable
  <2>7. k \in Nat /\ Len(sent) \in Nat
    BY DEF StreamInv, Settled, IsSequence
  <2>8. \A i \in 1..k : got[i] = sent[i]
    BY <2>3 DEF Copied
  <2> HIDE DEF k
  <2>9. k + 1 \in 1..Len(sent) /\ k + 1 <= k + 1 /\ k + 1 - 1 = k
    BY <2>4, <2>7
  <2> QED
    BY <2>5, <2>6, <2>8, <2>9 DEF Lost, k
<1>5. link = "pipe"
  BY <1>4 DEF Lost
<1>6. Ended'
  BY <1>1, <1>5 DEF Ended
<1> QED
  BY <1>2, <1>3, <1>4, <1>6 DEF StreamInv

(* A message that was read to the end is the next one, or an excuse for the error.*)
LEMMA DeliverStep == StreamInv /\ Deliver => StreamInv'
<1> SUFFICES ASSUME StreamInv, Deliver PROVE StreamInv'
  OBVIOUS
<1> DEFINE k == Len(got)  m == sent[k + 1]  r == Decoded
<1>1. /\ end = "open" /\ Complete /\ idle' = 0
      /\ UNCHANGED <<link, script, sent, shut, cut, wire>>
  BY DEF Deliver, writerVars
<1>2. CASE r.why = "ok" /\ got' = Append(got, r.msg) /\ buf' = <<>> /\ end' = end
  <2>1. TypeOK'
    <3>1. Budget \in Nat
      BY FramingAssumption
    <3>2. idle' \in 0..Budget /\ ~(idle' > 0) /\ buf' \in Seq(Octet)
      BY <1>1, <1>2, <3>1
    <3> QED
      BY <1>1, <1>2, <3>2 DEF StreamInv, TypeOK
  <2>2. PICK S : got \in Seq(S)
    BY DEF StreamInv, Settled, IsSequence
  <2> HIDE DEF r
  <2> DEFINE T == S \cup {r.msg}
  <2>3. got \in Seq(T) /\ r.msg \in T
    BY <2>2
  <2> HIDE DEF T
  <2>4. /\ got' \in Seq(T) /\ k \in Nat /\ Len(got') = k + 1 /\ got'[k + 1] = r.msg
        /\ \A i \in 1..k : got'[i] = got[i]
    BY <1>2, <2>3
  <2>5. Settled'
    <3>1. \A x : Valid(x)' <=> Valid(x)
      BY <1>1 DEF Valid
    <3> QED
      BY <1>1, <2>4, <3>1 DEF StreamInv, Settled, IsSequence, Valid
  <2> HIDE DEF k
  <2>6. CASE Lost
    <3>1. PICK j \in 1..Len(sent) : /\ j <= k + 1 /\ ~Readable(sent[j])
                                    /\ \A i \in 1..(j - 1) : got[i] = sent[i]
      BY <2>6 DEF Lost, k
    <3>2. j \in Nat /\ \A i \in 1..(j - 1) : i \in 1..k
      BY <2>4, <3>1
    <3>3. j <= Len(got') + 1 /\ \A i \in 1..(j - 1) : got'[i] = sent[i]
      BY <2>4, <3>1, <3>2
    <3>4. Lost'
      BY <1>1, <2>6, <3>1, <3>3 DEF Lost, Readable
    <3>5. Ended'
      BY <1>1, <1>2 DEF Ended
    <3> QED
      BY <2>1, <2>5, <3>4, <3>5 DEF StreamInv
  <2>7. CASE Follows
    <3>1. PICK all, pos : Laid(all, pos) /\ Place(all, pos)
      BY <2>7 DEF Follows
    <3>2. Copied /\ k < Len(sent) /\ buf # <<>>
      <4>1. Len(buf) \in Nat /\ Len(buf) >= HeadLen
        BY <1>1, HeadLens DEF Complete, InHeader, StreamInv, TypeOK
      <4>2. buf # <<>>
        BY <4>1, HeadLens
      <4> QED
        BY <2>7, <3>1, <4>2 DEF Follows, Place, k
    <3>3. Valid(m) /\ buf = OnWire(m) /\ pos[k] \in Nat /\ pos[k + 1] = pos[k] + Len(buf)
      <4>1. Len(buf) = Len(OnWire(m))
        BY <1>1, <3>1, <3>2, Ahead DEF k
      <4>2. buf = OnWire(m)
        BY <3>1, <3>2, <4>1, ReadWhole DEF k
      <4> QED
        BY <3>1, <3>2, <4>2, NextOne DEF k
    <3>4. r.msg = m
      BY <1>2, <3>3, MessageRead DEF Answer, StreamInv, Settled, r
    <3>5. Len(sent) \in Nat /\ k + 1 <= Len(sent)
      BY <2>4, <3>2 DEF StreamInv, Settled
    <3>6. ASSUME NEW i \in 1..(k + 1) PROVE got'[i] = sent[i]
      <4>1. i \in 1..k \/ i = k + 1
        BY <2>4
      <4>2. \A j \in 1..k : got[j] = sent[j]
        BY <3>2 DEF Copied, k
      <4> QED
        BY <2>4, <3>4, <4>1, <4>2
    <3>7. Copied'
      BY <1>1, <2>4, <3>5, <3>6 DEF Copied
    <3>8. Laid(all, pos)'
      BY <1>1, <3>1 DEF Laid, OnWire
    <3>9. Place(all, pos)'
      <4>1. /\ Lies(wire, all, pos[k] + Len(buf)) /\ Len(buf) \in Nat
            /\ ~cut => Len(all) = pos[k] + Len(buf) + Len(wire)
        BY <3>1 DEF Place, StreamInv, TypeOK, k
      <4>2. Len(all) \in Nat /\ pos[k + 1] \in Nat /\ pos[k + 1] <= Len(all) /\ Len(wire) \in Nat
        <5>1. Len(all) \in Nat /\ Len(wire) \in Nat
          BY <3>1 DEF Laid, StreamInv, TypeOK
        <5> QED
          BY <3>3, <4>1, <5>1 DEF Lies
      <4>3. Len(buf') = 0 /\ Len(got') = k + 1
        BY <1>2, <2>4
      <4>4. Lies(buf', all, pos[k + 1])
        BY <4>2, <4>3 DEF Lies
      <4>5. Lies(wire, all, pos[k + 1] + 0) /\ (~cut => Len(all) = pos[k + 1] + 0 + Len(wire))
        BY <3>3, <4>1, <4>2
      <4> QED
        BY <1>1, <1>2, <4>3, <4>4, <4>5 DEF Place
    <3>10. Ended'
      BY <1>1, <1>2 DEF Ended
    <3> QED
      BY <2>1, <2>5, <3>7, <3>8, <3>9, <3>10 DEF StreamInv, Follows
  <2> QED
    BY <1>1, <2>6, <2>7 DEF StreamInv
<1>3. CASE r.why # "ok" /\ Fail(r.why)
  <2> HIDE DEF r
  <2>1. /\ got' = got
        /\ IF link = "pipe" THEN buf' = <<>> /\ end' = end
           ELSE /\ end' = IF link = "down" /\ r.why = "short" THEN "crash" ELSE "error"
                /\ buf' = buf
    BY <1>3 DEF Fail
  <2>2. TypeOK'
    <3>1. Budget \in Nat
      BY FramingAssumption
    <3>2. idle' \in 0..Budget /\ ~(idle' > 0)
      BY <1>1, <3>1
    <3>3. buf' \in Seq(Octet) /\ end' \in {"open", "clean", "error", "crash"}
      <4>1. CASE link = "pipe"
        <5>1. buf' = <<>> /\ end' = "open"
          BY <1>1, <2>1, <4>1
        <5> QED
          BY <5>1
      <4>2. CASE link # "pipe"
        <5>1. buf' = buf /\ end' \in {"error", "crash"}
          BY <2>1, <4>2
        <5> QED
          BY <5>1 DEF StreamInv, TypeOK
      <4> QED
        BY <4>1, <4>2
    <3> QED
      BY <1>1, <3>2, <3>3 DEF StreamInv, TypeOK
  <2>3. Settled' /\ (Copied' <=> Copied) /\ (Lost' <=> Lost)
    BY <1>1, <2>1, Kept DEF StreamInv
  <2>4. CASE Lost
    <3>1. end' = "open"
      BY <1>1, <2>1, <2>4 DEF Lost
    <3>2. Ended'
      BY <3>1 DEF Ended
    <3> QED
      BY <2>2, <2>3, <2>4, <3>2 DEF StreamInv
  <2>5. CASE Follows
    <3>1. PICK all, pos : Laid(all, pos) /\ Place(all, pos)
      BY <2>5 DEF Follows
    <3>2. Copied /\ k < Len(sent) /\ buf # <<>>
      <4>1. Len(buf) \in Nat /\ Len(buf) >= HeadLen
        BY <1>1, HeadLens DEF Complete, InHeader, StreamInv, TypeOK
      <4>2. buf # <<>>
        BY <4>1, HeadLens
      <4> QED
        BY <2>5, <3>1, <4>2 DEF Follows, Place
    <3>3. Valid(m) /\ buf = OnWire(m)
      <4>1. Len(buf) = Len(OnWire(m))
        BY <1>1, <3>1, <3>2, Ahead
      <4>2. buf = OnWire(m)
        BY <3>1, <3>2, <4>1, ReadWhole
      <4> QED
        BY <3>1, <3>2, <4>2, NextOne
    <3>4. Answer(r, m)
      BY <3>3, MessageRead DEF StreamInv, Settled, r
    <3>5. link # "pipe" /\ end' = "error" /\ ~Agreed(m)
      BY <1>3, <2>1, <3>4 DEF Answer
    <3>6. k + 1 \in 1..Len(sent)
      BY <3>2 DEF StreamInv, Settled, IsSequence
    <3>7. Excused'
      <4>1. Agreed(m)' <=> Agreed(m)
        BY <1>1, <2>1 DEF Agreed
      <4> HIDE DEF k
      <4>2. \E i \in 1..Len(sent) : ~Agreed(sent[i])
        BY <3>5, <3>6
      <4>3. \A x : Agreed(x)' <=> Agreed(x)
        BY DEF Agreed
      <4> QED
        BY <1>1, <4>2, <4>3 DEF Excused
    <3>8. Ended'
      BY <3>5, <3>7 DEF Ended
    <3> QED
      BY <2>2, <2>3, <3>2, <3>5, <3>8 DEF StreamInv
  <2> QED
    BY <1>1, <2>4, <2>5 DEF StreamInv
<1> QED
  BY <1>2, <1>3 DEF Deliver

(* An end between two messages is that of the stream; any other comes of a cut.*)
LEMMA ReadEndStep == StreamInv /\ ReadEnd => StreamInv'
<1> SUFFICES ASSUME StreamInv, ReadEnd PROVE StreamInv'
  OBVIOUS
<1> DEFINE k == Len(got)
<1>1. /\ end = "open" /\ Wanted > 0 /\ shut /\ wire = <<>>
      /\ UNCHANGED <<link, script, sent, shut, cut, wire, buf, got, idle>>
      /\ end' = IF buf = <<>> /\ link # "pipe" THEN "clean" ELSE "error"
  BY DEF ReadEnd, AtEnd, Waiting, writerVars
<1>2. TypeOK'
  BY <1>1 DEF StreamInv, TypeOK
<1>3. /\ Settled' /\ (Copied' <=> Copied) /\ (Lost' <=> Lost)
  BY <1>1, Kept DEF StreamInv
<1>4. /\ Len(sent) \in Nat /\ k \in Nat /\ Len(buf) \in Nat /\ Len(wire) = 0
      /\ link \in Links /\ buf \in Seq(Octet)
  BY <1>1 DEF StreamInv, Settled, TypeOK, IsSequence
<1>5. ASSUME link # "pipe", ~cut
      PROVE  buf = <<>> /\ got = sent
  <2>1. Follows /\ Copied
    BY <1>1, <1>5 DEF StreamInv, Lost, Follows
  <2>2. PICK all, pos : Laid(all, pos) /\ Place(all, pos)
    BY <2>1 DEF Follows
  <2>3. Len(all) = pos[k] + Len(buf) + Len(wire) /\ k <= Len(sent)
    BY <1>5, <2>1, <2>2 DEF Place, Copied
  <2> HIDE DEF k
  <2>4. k = Len(sent)
    <3> SUFFICES ASSUME k < Len(sent) PROVE FALSE
      BY <1>4, <2>3
    <3> DEFINE f == OnWire(sent[k + 1])
    <3>1. /\ f \in Seq(Octet) /\ Len(f) \in Nat /\ pos[k] \in Nat
          /\ pos[k] + Len(f) <= Len(all)
      BY <2>1, <2>2, NextOne DEF k
    <3>2. Len(buf) + Wanted <= Len(f) /\ Wanted \in Int
      BY <1>1, <2>1, <2>2, Ahead DEF k
    <3> HIDE DEF f
    <3> QED
      BY <1>1, <1>4, <2>3, <3>1, <3>2
  <2>5. buf = <<>>
    BY <1>4, <2>2, <2>4 DEF Place, k
  <2>6. got = sent
    <3>1. PICK S : got \in Seq(S)
      BY DEF StreamInv, Settled, IsSequence
    <3> DEFINE T == S \cup AnyMessage
    <3>2. got \in Seq(T) /\ sent \in Seq(T)
      <4>1. got \in Seq(T)
        BY <3>1
      <4>2. sent \in Seq(T)
        BY DEF StreamInv, Settled
      <4> QED
        BY <4>1, <4>2
    <3> HIDE DEF T
    <3>3. Len(got) = Len(sent) /\ \A i \in 1..Len(got) : got[i] = sent[i]
      BY <2>1, <2>4 DEF Copied, k
    <3> QED
      BY <3>2, <3>3, SeqEqual
  <2> QED
    BY <2>5, <2>6
<1>6. Ended'
  <2>1. CASE buf = <<>> /\ link # "pipe"
    <3>1. end' = "clean" /\ (got = sent \/ cut)
      BY <1>1, <1>5, <2>1
    <3> QED
      BY <1>1, <2>1, <3>1 DEF Ended
  <2>2. CASE ~(buf = <<>> /\ link # "pipe")
    <3>1. end' = "error" /\ (link # "pipe" => cut)
      BY <1>1, <1>5, <2>2
    <3> QED
      BY <1>1, <3>1 DEF Ended, Excused
  <2> QED
    BY <2>1, <2>2
<1>7. Copied \/ Lost
  BY DEF StreamInv
<1>8. end' # "open"
  BY <1>1
<1> QED
  BY <1>2, <1>3, <1>6, <1>7, <1>8 DEF StreamInv

LEMMA StreamIdles == StreamInv /\ UNCHANGED vars => StreamInv'
<1> SUFFICES ASSUME StreamInv, UNCHANGED vars PROVE StreamInv'
  OBVIOUS
<1>1. /\ UNCHANGED <<link, sent, cut, wire, buf, got>> /\ UNCHANGED <<end, idle>>
      /\ script' = script /\ shut' = shut
  BY DEF vars, writerVars, readerVars
<1>2. TypeOK'
  BY <1>1 DEF StreamInv, TypeOK
<1> QED
  BY <1>1, <1>2, RestStep

-----------------------------------------------------------------------------

(* On every stream, whatever is written on it, however its octets arrive and    *)
(* wherever it breaks: behind the messages that were read follow the octets in  *)
(* the reader's buffer and those on the way, until reading ends; and it ends    *)
(* only as it may (read_message of lib.rs, read of Protocol.kt, the gnome       *)
(* source at its pipe).                                                      *)
THEOREM StreamInvariant == Spec => []StreamInv
<1>1. Init => StreamInv
  BY InitFollows
<1>2. StreamInv /\ [Next]_vars => StreamInv'
  BY WriteStep, WritePanicsStep, CloseStep, CutStep, ReadSomeStep, RefuseStep,
     DeliverStep, ReadEndStep, TickStep, TimesOutStep, StreamIdles DEF Next, Reader
<1> QED
  BY <1>1, <1>2, PTL DEF Spec

(* What every reader may rest on: a stream that ends clean was read to its last  *)
(* message, and half a message is an error and never the end.                  *)
THEOREM ReadingIsSafe == Spec => []ReadingSafe
<1>1. StreamInv => ReadingSafe
  BY DEF StreamInv, Ended, ReadingSafe, CleanIsComplete
<1> QED
  BY <1>1, StreamInvariant, PTL

(* Messages of any number, length and content are read as they were written,     *)
(* field by field, in order and without a gap; from the grabber's pipe, up to   *)
(* the first canvas above the limit.                                         *)
THEOREM WhatIsReadWasWritten == Spec => []ReadAsWritten
<1>1. ASSUME StreamInv PROVE ReadAsWritten
  <2>1. /\ DOMAIN got = 1..Len(got) /\ DOMAIN sent = 1..Len(sent)
        /\ Len(got) \in Nat /\ Len(sent) \in Nat
    BY <1>1 DEF StreamInv, Settled, IsSequence
  <2> SUFFICES ASSUME NEW i \in 1..Len(got),
                      \A j \in 1..i : j \in DOMAIN sent => Readable(sent[j])
               PROVE  i \in DOMAIN sent /\ got[i] = sent[i]
    BY <2>1 DEF ReadAsWritten
  <2>2. CASE Copied
    <3>1. i \in 1..Len(sent)
      BY <2>1, <2>2 DEF Copied
    <3> QED
      BY <2>1, <2>2, <3>1 DEF Copied
  <2>3. CASE Lost
    <3>1. PICK k \in 1..Len(sent) : /\ k <= Len(got) + 1 /\ ~Readable(sent[k])
                                    /\ \A j \in 1..(k - 1) : got[j] = sent[j]
      BY <2>3 DEF Lost
    <3>2. ~(k \in 1..i)
      BY <2>1, <3>1
    <3>3. i \in 1..(k - 1) /\ i \in 1..Len(sent)
      BY <2>1, <3>2
    <3> QED
      BY <2>1, <3>1, <3>3
  <2> QED
    BY <1>1, <2>2, <2>3 DEF StreamInv
<1> QED
  BY <1>1, StreamInvariant, PTL

(* No reader fails on a message both sides agreed on, and none crashes the app,  *)
(* for octets of any base and whatever the limits on texts, rectangles and      *)
(* payloads, as long as they are those of WireAssumption.                     *)
THEOREM AgreedUnderstood == Spec => []AgreedIsUnderstood
<1>1. ASSUME StreamInv PROVE AgreedIsUnderstood
  <2>1. DOMAIN sent = 1..Len(sent)
    BY <1>1 DEF StreamInv, Settled
  <2> QED
    BY <1>1, <2>1 DEF StreamInv, Ended, Excused, AgreedIsUnderstood
<1> QED
  BY <1>1, StreamInvariant, PTL
=============================================================================
