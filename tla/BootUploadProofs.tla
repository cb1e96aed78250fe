--------------------------- MODULE BootUploadProofs ---------------------------
(***************************************************************************)
(* The theorem about the upload of a program (BootUpload): what starts is  *)
(* the whole program, for every number of values of a byte, width of a     *)
(* word, program, divisor and number of attempts, of bytes lost or damaged *)
(* and of uploads.                                                         *)
(*                                                                         *)
(* Host and loader are at every moment in one of a few situations together *)
(* (Situation): the loader has been reset, the host has asked for its      *)
(* attention, a part is on its way, a byte of it is lost, ...  Each        *)
(* situation says where both are and what is on the line between them, and *)
(* each step leads from a situation to a situation.                        *)
(*                                                                         *)
(* What the loader has stored rests on three facts about numbers, that are *)
(* proved first: a field's value is the number it was made from, a running *)
(* sum may be cut to a word at every step, and a sum tells any one damaged *)
(* byte.                                                                   *)
(***************************************************************************)
EXTENDS BootUpload, WellFoundedInduction, TLAPS

(* ----------------------------------------------------------------------- *)
(* Induction and recursion                                                  *)
(* ----------------------------------------------------------------------- *)

LEMMA Least == ASSUME NEW T, T \subseteq Nat, T # {} PROVE \E x \in T : \A y \in T : x <= y
<1> DEFINE R == OpToRel(<, Nat)
<1>1. IsWellFoundedOn(R, Nat)
  BY NatLessThanWellFounded
<1>2. \A x, y \in Nat : <<x, y>> \in R <=> x < y
  BY DEF OpToRel
<1> HIDE DEF R
<1>3. PICK x \in T : \A y \in T : ~ (<<y, x>> \in R)
  BY <1>1, WFMin
<1>4. ASSUME NEW y \in T PROVE x <= y
  <2>1. x \in Nat /\ y \in Nat
    OBVIOUS
  <2>2. ~(y < x)
    BY <1>2, <1>3, <2>1
  <2> QED BY <2>1, <2>2
<1> QED BY <1>4

LEMMA SetInduction ==
  ASSUME NEW S, 0 \in S, \A n \in Nat : n \in S => n + 1 \in S PROVE \A n \in Nat : n \in S
<1> SUFFICES ASSUME NEW m \in Nat, m \notin S PROVE FALSE
  OBVIOUS
<1> DEFINE T == {n \in Nat : n \notin S}
<1>1. PICK x \in T : \A y \in T : x <= y
  <2>1. T \subseteq Nat /\ T # {}
    OBVIOUS
  <2> HIDE DEF T
  <2> QED BY <2>1, Least
<1>2. x - 1 \in Nat /\ x - 1 \notin T
  BY <1>1
<1> QED BY <1>1, <1>2

\* A recursion over the numbers has a solution: `next' is what follows a value at a number.
Solves(f, zero, step) == f = [n \in Nat |-> IF n = 0 THEN zero ELSE step[n][f[n - 1]]]

LEMMA Recursion ==
  ASSUME NEW zero, NEW V, zero \in V, NEW step, step \in [Nat -> [V -> V]]
  PROVE \E f \in [Nat -> V] : Solves(f, zero, step)
<1> DEFINE Approx(r, k) == r \in [Nat -> V] /\ r[0] = zero /\ \A n \in 0..(k - 1) : r[n + 1] = step[n + 1][r[n]]
           S == {k \in Nat : \E r : Approx(r, k)}
<1>1. 0 \in S
  <2>1. Approx([n \in Nat |-> zero], 0)
    OBVIOUS
  <2> QED BY <2>1
<1>2. \A k \in Nat : k \in S => k + 1 \in S
  <2> SUFFICES ASSUME NEW k \in Nat, k \in S PROVE k + 1 \in S
    OBVIOUS
  <2>0. PICK r : Approx(r, k)
    OBVIOUS
  <2> DEFINE q == [n \in Nat |-> IF n = k + 1 THEN step[k + 1][r[k]] ELSE r[n]]
  <2>1. step[k + 1] \in [V -> V] /\ r[k] \in V
    BY <2>0
  <2>2. q \in [Nat -> V]
    BY <2>0, <2>1
  <2>3. Approx(q, k + 1)
    BY <2>0, <2>2
  <2> QED BY <2>3, k + 1 \in Nat
<1>3. \A k \in Nat : k \in S
  <2> HIDE DEF S
  <2> QED BY <1>1, <1>2, SetInduction
<1> DEFINE at(k) == CHOOSE r : Approx(r, k)
           f == [n \in Nat |-> at(n)[n]]
<1>4. \A k \in Nat : Approx(at(k), k)
  BY <1>3
<1>5. \A k, l \in Nat : k <= l => at(k)[k] = at(l)[k]
  <2> SUFFICES ASSUME NEW l \in Nat PROVE \A k \in Nat : k <= l => at(k)[k] = at(l)[k]
    OBVIOUS
  <2> DEFINE E == {k \in Nat : k <= l => \A m \in Nat : m >= k => at(m)[k] = at(l)[k]}
  <2> HIDE DEF at
  <2>1. 0 \in E
    BY <1>4
  <2>2. \A k \in Nat : k \in E => k + 1 \in E
    <3> SUFFICES ASSUME NEW k \in Nat, k \in E, k + 1 <= l, NEW m \in Nat, m >= k + 1 PROVE at(m)[k + 1] = at(l)[k + 1]
      OBVIOUS
    <3>1. at(m)[k + 1] = step[k + 1][at(m)[k]] /\ at(l)[k + 1] = step[k + 1][at(l)[k]]
      BY <1>4
    <3>2. at(m)[k] = at(l)[k]
      OBVIOUS
    <3> QED BY <3>1, <3>2
  <2>3. \A k \in Nat : k \in E
    <3> HIDE DEF E
    <3> QED BY <2>1, <2>2, SetInduction
  <2> QED BY <2>3
<1>6. f \in [Nat -> V]
  <2> HIDE DEF at
  <2> QED BY <1>4
<1>7. f = [n \in Nat |-> IF n = 0 THEN zero ELSE step[n][f[n - 1]]]
  <2> HIDE DEF at
  <2> SUFFICES ASSUME NEW n \in Nat PROVE at(n)[n] = IF n = 0 THEN zero ELSE step[n][f[n - 1]]
    OBVIOUS
  <2>1. CASE n = 0
    BY <1>4, <2>1
  <2>2. CASE n # 0
    <3>1. n - 1 \in Nat /\ (n - 1) + 1 = n
      BY <2>2
    <3>2. at(n)[(n - 1) + 1] = step[(n - 1) + 1][at(n)[n - 1]]
      BY <1>4, <3>1
    <3>3. at(n)[n - 1] = at(n - 1)[n - 1]
      BY <1>5, <3>1
    <3> QED BY <2>2, <3>1, <3>2, <3>3
  <2> QED BY <2>1, <2>2
<1> HIDE DEF f
<1> QED BY <1>6, <1>7 DEF Solves

LEMMA Sizes == /\ RADIX \in Nat /\ RADIX > 1 /\ WIDTH \in Nat /\ WIDTH >= 1
               /\ SYNC_REQ \in Byte /\ SYNC_REQ # 0
               /\ \A b \in Byte : b \in Nat /\ b \in Int /\ b < RADIX
  BY UploadAssumption DEF Byte

LEMMA PowerIs == Power \in [Nat -> Nat] /\ Power[0] = 1 /\ \A n \in Nat : Power[n + 1] = RADIX * Power[n]
<1> DEFINE step == [n \in Nat |-> [x \in Nat |-> RADIX * x]]
           Def(f) == [n \in Nat |-> IF n = 0 THEN 1 ELSE RADIX * f[n - 1]]
<1>1. step \in [Nat -> [Nat -> Nat]]
  BY Sizes
<1>2. PICK f \in [Nat -> Nat] : Solves(f, 1, step)
  <2> HIDE DEF step
  <2>1. 1 \in Nat
    OBVIOUS
  <2> QED BY ONLY <1>1, <2>1, Recursion
<1>3. f = Def(f)
  <2> SUFFICES ASSUME NEW n \in Nat PROVE f[n] = IF n = 0 THEN 1 ELSE RADIX * f[n - 1]
    BY <1>2 DEF Solves
  <2>1. CASE n = 0
    BY <1>2, <2>1 DEF Solves
  <2>2. CASE n # 0
    <3>0. n - 1 \in Nat
      BY <2>2
    <3>1. f[n - 1] \in Nat
      BY <3>0
    <3>2. f[n] = step[n][f[n - 1]]
      BY ONLY <1>2, <2>2 DEF Solves
    <3> QED BY <2>2, <3>1, <3>2
  <2> QED BY <2>1, <2>2
<1>4. Power = CHOOSE r : r = Def(r)
  BY DEF Power
<1>5. Power = Def(Power)
  <2> HIDE DEF Def
  <2> QED BY <1>3, <1>4
<1>6. Power[0] = 1 /\ \A n \in Nat : Power[n + 1] = RADIX * Power[n]
  <2>1. Power[0] = 1
    BY <1>5
  <2>2. ASSUME NEW n \in Nat PROVE Power[n + 1] = RADIX * Power[n]
    <3>1. n + 1 \in Nat /\ n + 1 # 0 /\ (n + 1) - 1 = n
      OBVIOUS
    <3> QED BY <1>5, <3>1
  <2> QED BY <2>1, <2>2
<1>7. \A n \in Nat : Power[n] \in Nat
  <2> DEFINE S == {n \in Nat : Power[n] \in Nat}
  <2>1. 0 \in S
    BY <1>6
  <2>2. \A n \in Nat : n \in S => n + 1 \in S
    BY <1>6, Sizes
  <2>3. \A n \in Nat : n \in S
    <3> HIDE DEF S
    <3> QED BY <2>1, <2>2, SetInduction
  <2> QED BY <2>3
<1>8. Power = [n \in Nat |-> Power[n]]
  BY <1>5
<1> QED BY <1>6, <1>7, <1>8

\* A power is not less than the radix, but for the first.
LEMMA PowerAtLeast == \A n \in Nat : Power[n] >= 1 /\ (n >= 1 => Power[n] >= RADIX)
<1> DEFINE S == {n \in Nat : Power[n] >= 1 /\ (n >= 1 => Power[n] >= RADIX)}
<1>1. 0 \in S
  BY PowerIs
<1>2. ASSUME NEW n \in Nat, n \in S PROVE n + 1 \in S
  <2> DEFINE p == Power[n]
  <2>1. p \in Nat /\ p >= 1 /\ Power[n + 1] = RADIX * p
    BY <1>2, PowerIs
  <2>2. RADIX * p >= RADIX
    <3> HIDE DEF p
    <3> QED BY <2>1, Sizes
  <2> QED BY <2>1, <2>2, Sizes
<1>3. \A n \in Nat : n \in S
  <2> HIDE DEF S
  <2> QED BY <1>1, <1>2, SetInduction
<1> QED BY <1>3

\* The sums of a sequence of numbers.
LEMMA SumsAre ==
  ASSUME NEW t, Len(t) \in Nat, \A i \in 1 .. Len(t) : t[i] \in Int
  PROVE /\ Sums(t)[0] = 0
        /\ \A n \in 0 .. Len(t) : Sums(t)[n] \in Int
        /\ \A n \in 0 .. Len(t) - 1 : Sums(t)[n + 1] = Sums(t)[n] + t[n + 1]
<1> DEFINE L == Len(t)
           step == [n \in Nat |-> [x \in Int |-> x + IF n \in 1 .. L THEN t[n] ELSE 0]]
           Def(f) == [n \in 0 .. L |-> IF n = 0 THEN 0 ELSE f[n - 1] + t[n]]
<1>1. step \in [Nat -> [Int -> Int]]
  <2> SUFFICES ASSUME NEW n \in Nat, NEW x \in Int PROVE x + (IF n \in 1 .. L THEN t[n] ELSE 0) \in Int
    OBVIOUS
  <2>2. CASE n \in 1 .. L
    BY <2>2
  <2>3. CASE n \notin 1 .. L
    BY <2>3
  <2> QED BY <2>2, <2>3
<1>2. PICK f \in [Nat -> Int] : Solves(f, 0, step)
  <2> HIDE DEF step
  <2>1. 0 \in Int
    OBVIOUS
  <2> QED BY ONLY <1>1, <2>1, Recursion
<1> DEFINE g == [n \in 0 .. L |-> f[n]]
<1>3. g = Def(g)
  <2> SUFFICES ASSUME NEW n \in 0 .. L PROVE f[n] = IF n = 0 THEN 0 ELSE g[n - 1] + t[n]
    OBVIOUS
  <2>1. CASE n = 0
    BY <1>2, <2>1 DEF Solves
  <2>2. CASE n # 0
    <3>0. n - 1 \in 0 .. L /\ n \in 1 .. L /\ n \in Nat
      BY <2>2
    <3>1. f[n - 1] \in Int
      BY <3>0
    <3>2. f[n] = step[n][f[n - 1]]
      BY ONLY <1>2, <2>2, <3>0 DEF Solves
    <3>4. f[n] = f[n - 1] + t[n]
      BY <3>0, <3>1, <3>2
    <3> QED BY <2>2, <3>0, <3>4
  <2> QED BY <2>1, <2>2
<1>4. Sums(t) = CHOOSE r : r = Def(r)
  BY DEF Sums
<1>5. Sums(t) = Def(Sums(t))
  <2> HIDE DEF Def, g
  <2> QED BY <1>3, <1>4
<1>6. Sums(t)[0] = 0
  BY <1>5
<1>7. ASSUME NEW n \in 0 .. L - 1 PROVE Sums(t)[n + 1] = Sums(t)[n] + t[n + 1]
  <2>1. n + 1 \in 0 .. L /\ n + 1 # 0 /\ (n + 1) - 1 = n
    OBVIOUS
  <2> QED BY <1>5, <2>1
<1>8. \A n \in 0 .. L : Sums(t)[n] \in Int
  <2> DEFINE S == {n \in Nat : n <= L => Sums(t)[n] \in Int}
  <2>1. 0 \in S
    BY <1>6
  <2>2. ASSUME NEW n \in Nat, n \in S PROVE n + 1 \in S
    <3>1. CASE n + 1 <= L
      <4>1. n \in 0 .. L - 1 /\ n + 1 \in 1 .. L
        BY <3>1
      <4> QED BY <1>7, <2>2, <3>1, <4>1
    <3>2. CASE ~(n + 1 <= L)
      BY <3>2
    <3> QED BY <3>1, <3>2
  <2>3. \A n \in Nat : n \in S
    <3> HIDE DEF S
    <3> QED BY <2>1, <2>2, SetInduction
  <2> QED BY <2>3
<1> QED BY <1>6, <1>7, <1>8

Numbers(t) == Len(t) \in Nat /\ \A i \in 1 .. Len(t) : t[i] \in Int
AlikeBut(t, u, p) == \A i \in 1 .. Len(t) : i # p => t[i] = u[i]

\* Two sequences that differ in one place: their sums differ by as much.
LEMMA SumsDiffer ==
  ASSUME NEW t, NEW u, Numbers(t), Numbers(u), Len(u) = Len(t), NEW p, p \in 1 .. Len(t), AlikeBut(t, u, p)
  PROVE Sums(t)[Len(t)] = Sums(u)[Len(t)] + (t[p] - u[p])
<1>0. /\ Len(t) \in Nat /\ \A i \in 1 .. Len(t) : t[i] \in Int /\ u[i] \in Int
      /\ p \in Nat /\ \A i \in 1 .. Len(t) : i # p => t[i] = u[i]
  BY DEF Numbers, AlikeBut
<1> DEFINE L == Len(t)
           Right(n) == Sums(t)[n] = IF 1 <= p /\ p <= n THEN Sums(u)[n] + (t[p] - u[p]) ELSE Sums(u)[n]
           S == {n \in Nat : n <= L => Right(n)}
<1>1. /\ Sums(t)[0] = 0 /\ Sums(u)[0] = 0
      /\ \A n \in 0 .. L : Sums(t)[n] \in Int /\ Sums(u)[n] \in Int
      /\ \A n \in 0 .. L - 1 : Sums(t)[n + 1] = Sums(t)[n] + t[n + 1] /\ Sums(u)[n + 1] = Sums(u)[n] + u[n + 1]
  BY <1>0, SumsAre
<1>2. 0 \in S
  BY <1>1
<1>3. ASSUME NEW n \in Nat, n \in S PROVE n + 1 \in S
  <2>1. CASE n + 1 <= L
    <3>1. n \in 0 .. L - 1 /\ n + 1 \in 1 .. L /\ n \in 0 .. L
      BY <1>0, <2>1
    <3>2. /\ Sums(t)[n + 1] = Sums(t)[n] + t[n + 1] /\ Sums(u)[n + 1] = Sums(u)[n] + u[n + 1]
          /\ Sums(t)[n] \in Int /\ Sums(u)[n] \in Int /\ t[n + 1] \in Int /\ u[n + 1] \in Int
      BY <1>0, <1>1, <3>1
    <3>3. Right(n)
      BY <1>3, <3>1
    <3>4. CASE p = n + 1
      BY <3>2, <3>3, <3>4
    <3>5. CASE p # n + 1
      <4>1. t[n + 1] = u[n + 1]
        BY <1>0, <3>1, <3>5
      <4>3. t[p] \in Int /\ u[p] \in Int
        BY <1>0
      <4> QED BY <3>2, <3>3, <3>5, <4>1, <4>3
    <3> QED BY <3>4, <3>5
  <2>2. CASE ~(n + 1 <= L)
    BY <2>2
  <2> QED BY <2>1, <2>2
<1>4. \A n \in Nat : n \in S
  <2> HIDE DEF S
  <2> QED BY <1>2, <1>3, SetInduction
<1>5. L \in S
  BY <1>0, <1>4
<1> QED BY <1>0, <1>5

(* ----------------------------------------------------------------------- *)
(* Remainders                                                               *)
(* ----------------------------------------------------------------------- *)

LEMMA Remainder ==
  ASSUME NEW d \in Nat, d > 0, NEW t \in Int
  PROVE t = (t \div d) * d + (t % d) /\ t % d \in 0..(d - 1) /\ t \div d \in Int
  OBVIOUS

LEMMA OneMultiple ==
  ASSUME NEW d \in Nat, d > 0, NEW k \in Int, NEW e \in Int, e = k * d, -d < e, e < d
  PROVE e = 0
<1>1. CASE k = 0
  BY <1>1
<1>2. CASE k >= 1
  BY <1>2
<1>3. CASE k <= -1
  BY <1>3
<1> QED BY <1>1, <1>2, <1>3

\* A division is known by its remainder.
LEMMA Quotient ==
  ASSUME NEW d \in Nat, d > 0, NEW t \in Int, NEW a \in Int, NEW r \in 0..(d - 1), t = a * d + r
  PROVE t \div d = a /\ t % d = r
<1> DEFINE q == t \div d
           s == t % d
           e == s - r
<1>1. t = q * d + s /\ s \in 0..(d - 1) /\ q \in Int
  BY Remainder
<1>2. e = (a - q) * d
  <2> HIDE DEF q, s
  <2> QED BY <1>1
<1>3. e \in Int /\ -d < e /\ e < d /\ a - q \in Int
  <2> HIDE DEF q, s
  <2> QED BY <1>1
<1>4. e = 0
  <2> HIDE DEF q, s, e
  <2> QED BY <1>2, <1>3, OneMultiple
<1>5. (a - q) * d = 0
  <2> HIDE DEF q, s
  <2> QED BY <1>2, <1>4
<1>6. a - q = 0
  <2> HIDE DEF q, s, e
  <2> DEFINE z == a - q
  <2>1. z \in Int /\ z * d = 0
    BY <1>3, <1>5
  <2> HIDE DEF z
  <2>2. z = 0
    BY <2>1
  <2> QED BY <2>2 DEF z
<1>7. q = a /\ s = r
  <2> HIDE DEF q, s
  <2> QED BY <1>1, <1>4, <1>6
<1> QED BY <1>7

\* A running sum may be cut to a word at every step.
LEMMA RunningSum ==
  ASSUME NEW d \in Nat, d > 0, NEW s \in Int, NEW x \in Int PROVE ((s % d) + x) % d = (s + x) % d
<1> DEFINE r == s % d
           w == (r + x) % d
           q == s \div d
           h == (r + x) \div d
<1>1. s = q * d + r /\ q \in Int /\ r \in Int
  BY Remainder
<1>2. r + x = h * d + w /\ h \in Int /\ w \in 0..(d - 1)
  BY <1>1, Remainder
<1>3. s + x = (q + h) * d + w
  <2> HIDE DEF r, w, q, h
  <2> QED BY <1>1, <1>2
<1>4. (s + x) % d = w
  <2> DEFINE t == s + x
             a == q + h
  <2>1. t = a * d + w /\ t \in Int /\ a \in Int /\ w \in 0..(d - 1)
    BY <1>1, <1>2, <1>3
  <2> HIDE DEF r, w, q, h, t, a
  <2>2. t % d = w
    BY <2>1, Quotient
  <2> QED BY <2>2 DEF t
<1> QED BY <1>4

\* Numbers with the same remainder that are less than a multiple apart.
LEMMA SameRemainder ==
  ASSUME NEW d \in Nat, d > 0, NEW s \in Int, NEW x \in Int, -d < x, x < d, (s + x) % d = s % d
  PROVE x = 0
<1>1. s = (s \div d) * d + (s % d) /\ s \div d \in Int
  BY Remainder
<1>2. s + x = ((s + x) \div d) * d + (s % d) /\ (s + x) \div d \in Int
  BY Remainder
<1> DEFINE q == s \div d
           h == (s + x) \div d
           r == s % d
<1>3. x = (h - q) * d
  <2>1. r \in Int
    BY Remainder
  <2> HIDE DEF q, h, r
  <2> QED BY <1>1, <1>2, <2>1 DEF q, h, r
<1>4. h - q \in Int
  BY <1>1, <1>2
<1> DEFINE k == h - q
<1>5. k \in Int /\ x = k * d
  BY <1>3, <1>4
<1> HIDE DEF k
<1> QED BY <1>5, OneMultiple

LEMMA DivDiv ==
  ASSUME NEW v \in Nat, NEW p \in Nat, p > 0, NEW r \in Nat, r > 0
  PROVE v \div (r * p) = (v \div p) \div r
<1> DEFINE q == v \div p
           c == v % p
           a == q \div r
           b == q % r
<1>1. v = q * p + c /\ c \in 0..(p - 1) /\ q \in Int
  BY Remainder
<1>2. q = a * r + b /\ b \in 0..(r - 1) /\ a \in Int
  BY <1>1, Remainder
<1> HIDE DEF q, c, a, b
<1>3. v = a * (r * p) + (b * p + c)
  <2>1. q * p = (a * r) * p + b * p
    BY <1>1, <1>2
  <2>2. (a * r) * p = a * (r * p)
    BY <1>1, <1>2
  <2>3. q * p \in Int /\ b * p \in Int /\ a * (r * p) \in Int
    BY <1>1, <1>2
  <2> DEFINE qp == q * p
             ar == a * (r * p)
             bp == b * p
  <2>4. v = qp + c /\ c \in Int
    BY <1>1
  <2>5. qp = ar + bp
    BY <2>1, <2>2
  <2>6. qp \in Int /\ ar \in Int /\ bp \in Int
    BY <2>3
  <2> HIDE DEF qp, ar, bp
  <2>7. v = ar + (bp + c)
    BY <2>4, <2>5, <2>6
  <2> QED BY <2>7 DEF ar, bp
<1>4. b * p + c \in 0..(r * p - 1)
  <2>1. b * p <= (r - 1) * p
    BY <1>1, <1>2
  <2>2. (r - 1) * p = r * p - p
    OBVIOUS
  <2>3. b * p >= 0 /\ b * p \in Int /\ r * p \in Int
    BY <1>2
  <2> QED BY <1>1, <2>1, <2>2, <2>3
<1>5. r * p \in Nat /\ r * p > 0
  OBVIOUS
<1>6. v \div (r * p) = a
  <2> DEFINE d == r * p
             e == b * p + c
  <2>1. d \in Nat /\ d > 0 /\ e \in 0..(d - 1) /\ v = a * d + e
    BY <1>3, <1>4, <1>5
  <2> HIDE DEF d, e
  <2>2. v \div d = a
    BY <1>2, <2>1, Quotient
  <2> QED BY <2>2 DEF d
<1> QED BY <1>6 DEF a, q

(* ----------------------------------------------------------------------- *)
(* Fields and their sums                                                    *)
(* ----------------------------------------------------------------------- *)

LEMMA FieldIs ==
  ASSUME NEW v \in Nat
  PROVE Le32(v) \in Seq(Byte) /\ Len(Le32(v)) = WIDTH /\ DOMAIN Le32(v) = 1 .. WIDTH
<1>1. ASSUME NEW i \in 1 .. WIDTH PROVE (v \div Power[i - 1]) % RADIX \in Byte
  <2>1. i - 1 \in Nat /\ WIDTH \in Nat
    BY Sizes
  <2> DEFINE p == Power[i - 1]
  <2>2. p \in Nat /\ p > 0
    BY <2>1, PowerIs, PowerAtLeast
  <2> HIDE DEF p
  <2>3. v \div p \in Int
    BY <2>2, Remainder
  <2> DEFINE q == v \div p
  <2>4. q \in Int /\ RADIX \in Nat /\ RADIX > 0
    BY <2>3, Sizes
  <2> HIDE DEF q
  <2>5. q % RADIX \in 0 .. RADIX - 1
    BY <2>4, Remainder
  <2> QED BY <2>5 DEF Byte, q, p
<1>2. Le32(v) \in [1 .. WIDTH -> Byte]
  BY <1>1 DEF Le32
<1>3. WIDTH \in Nat
  BY Sizes
<1> QED BY <1>2, <1>3

\* The terms of a value.
Terms(t) == [i \in 1 .. Len(t) |-> t[i] * Power[i - 1]]

LEMMA TermsAre ==
  ASSUME NEW t \in Seq(Byte)
  PROVE /\ Value(t) = Sums(Terms(t))[Len(t)]
        /\ Len(Terms(t)) = Len(t) /\ Len(t) \in Nat
        /\ \A i \in 1 .. Len(t) : Terms(t)[i] = t[i] * Power[i - 1] /\ Terms(t)[i] \in Nat
<1>1. Len(t) \in Nat
  OBVIOUS
<1>2. ASSUME NEW i \in 1 .. Len(t) PROVE t[i] * Power[i - 1] \in Nat
  <2>0. t[i] \in Byte
    OBVIOUS
  <2>1. i - 1 \in Nat /\ t[i] \in Nat
    BY <1>1, <2>0, Sizes
  <2>2. Power[i - 1] \in Nat
    BY <2>1, PowerIs
  <2> QED BY <2>1, <2>2
<1>3. Terms(t) \in [1 .. Len(t) -> Nat]
  BY <1>2 DEF Terms
<1>4. Len(Terms(t)) = Len(t)
  BY <1>1, <1>3
<1>5. Value(t) = Sums(Terms(t))[Len(t)]
  BY <1>4 DEF Value, Total, Terms
<1> QED BY <1>1, <1>2, <1>4, <1>5 DEF Terms

LEMMA TermSums ==
  ASSUME NEW t \in Seq(Byte)
  PROVE /\ Sums(Terms(t))[0] = 0
        /\ \A n \in 0 .. Len(t) : Sums(Terms(t))[n] \in Int
        /\ \A n \in 0 .. Len(t) - 1 : Sums(Terms(t))[n + 1] = Sums(Terms(t))[n] + t[n + 1] * Power[n]
<1> DEFINE u == Terms(t)
<1>1. Len(u) = Len(t) /\ Len(u) \in Nat /\ \A i \in 1 .. Len(u) : u[i] \in Int /\ u[i] = t[i] * Power[i - 1]
  BY TermsAre
<1>2. /\ Sums(u)[0] = 0
      /\ \A n \in 0 .. Len(u) : Sums(u)[n] \in Int
      /\ \A n \in 0 .. Len(u) - 1 : Sums(u)[n + 1] = Sums(u)[n] + u[n + 1]
  <2> HIDE DEF u
  <2> QED BY <1>1, SumsAre
<1>3. ASSUME NEW n \in 0 .. Len(t) - 1 PROVE Sums(u)[n + 1] = Sums(u)[n] + t[n + 1] * Power[n]
  <2>1. n + 1 \in 1 .. Len(u) /\ (n + 1) - 1 = n /\ n \in 0 .. Len(u) - 1
    BY <1>1
  <2> HIDE DEF u
  <2>2. u[n + 1] = t[n + 1] * Power[(n + 1) - 1]
    BY <1>1, <2>1
  <2> QED BY <1>2, <2>1, <2>2
<1> QED BY <1>1, <1>2, <1>3

\* A word arrives as it was sent.
LEMMA ValueOfField == ASSUME NEW v \in U32 PROVE Value(Le32(v)) = v
<1> DEFINE t == Le32(v)
           u == Terms(t)
<1>1. WIDTH \in Nat /\ Power[WIDTH] \in Nat /\ v \in Nat /\ v < Power[WIDTH]
  <2>1. WIDTH \in Nat
    BY Sizes
  <2>2. Power[WIDTH] \in Nat
    BY <2>1, PowerIs
  <2> QED BY <2>1, <2>2 DEF U32
<1>2. t \in Seq(Byte) /\ Len(t) = WIDTH
  BY <1>1, FieldIs
<1>3. ASSUME NEW i \in 1 .. WIDTH PROVE t[i] = (v \div Power[i - 1]) % RADIX
  BY DEF Le32
<1>4. /\ Sums(u)[0] = 0
      /\ \A n \in 0 .. WIDTH : Sums(u)[n] \in Int
      /\ \A n \in 0 .. WIDTH - 1 : Sums(u)[n + 1] = Sums(u)[n] + t[n + 1] * Power[n]
  <2> HIDE DEF t
  <2> QED BY <1>2, TermSums
<1> HIDE DEF t, u
<1> DEFINE S == {n \in Nat : n <= WIDTH => Sums(u)[n] = v - Power[n] * (v \div Power[n])}
<1>5. 0 \in S
  <2>1. v \div 1 = v
    BY <1>1
  <2>2. Power[0] * (v \div Power[0]) = v
    BY <1>1, <2>1, PowerIs
  <2> QED BY <1>1, <1>4, <2>2
<1>6. ASSUME NEW n \in Nat, n \in S PROVE n + 1 \in S
  <2> SUFFICES ASSUME n + 1 <= WIDTH PROVE Sums(u)[n + 1] = v - Power[n + 1] * (v \div Power[n + 1])
    OBVIOUS
  <2>1. n \in 0 .. WIDTH - 1 /\ n + 1 \in 1 .. WIDTH /\ (n + 1) - 1 = n
    BY <1>1
  <2> DEFINE p == Power[n]
             q == v \div p
             a == q \div RADIX
             s == Sums(u)[n]
  <2>2. p \in Nat /\ p > 0 /\ Power[n + 1] = RADIX * p
    BY PowerIs, PowerAtLeast
  <2>3. s = v - p * q
    <3>1. n <= WIDTH
      BY <1>1, <2>1
    <3> QED BY <1>6, <3>1
  <2>4. t[n + 1] = q % RADIX
    BY <1>3, <2>1
  <2>5. Sums(u)[n + 1] = s + t[n + 1] * p
    BY <1>4, <2>1
  <2> HIDE DEF s
  <2>6. q \in Int
    <3> HIDE DEF p
    <3> QED BY <1>1, <2>2, Remainder
  <2>7. v \div (RADIX * p) = a
    <3> HIDE DEF p
    <3> QED BY <1>1, <2>2, DivDiv, Sizes
  <2> HIDE DEF p, q
  <2>8. q = a * RADIX + (q % RADIX) /\ a \in Int /\ q % RADIX \in Int
    BY <2>6, Remainder, Sizes
  <2> DEFINE b == q % RADIX
  <2>9. q = a * RADIX + b /\ a \in Int /\ b \in Int
    BY <2>8
  <2> HIDE DEF a, b
  <2>10. (v - p * q) + b * p = v - (RADIX * p) * a
    <3>1. p * q = (RADIX * p) * a + b * p
      BY <2>2, <2>9, Sizes
    <3> DEFINE x == p * q
               y == (RADIX * p) * a
               z == b * p
    <3>2. x = y + z /\ x \in Int /\ y \in Int /\ z \in Int
      BY <2>2, <2>6, <2>9, <3>1, Sizes
    <3> HIDE DEF x, y, z
    <3>3. (v - x) + z = v - y
      BY <1>1, <3>2
    <3> QED BY <3>3 DEF x, y, z
  <2> QED BY <2>2, <2>3, <2>4, <2>5, <2>7, <2>10 DEF b
<1>7. \A n \in Nat : n \in S
  <2> HIDE DEF S
  <2> QED BY <1>5, <1>6, SetInduction
<1>8. Sums(u)[WIDTH] = v - Power[WIDTH] * (v \div Power[WIDTH])
  BY <1>1, <1>7
<1>9. v \div Power[WIDTH] = 0
  <2> DEFINE m == Power[WIDTH]
  <2>1. m \in Nat /\ m > 0 /\ v \in 0..(m - 1) /\ v = 0 * m + v
    BY <1>1
  <2> HIDE DEF m
  <2>2. v \div m = 0
    BY <2>1, Quotient
  <2> QED BY <2>2 DEF m
<1>10. Value(t) = Sums(u)[WIDTH]
  BY <1>2, TermsAre DEF u
<1> QED BY <1>1, <1>8, <1>9, <1>10 DEF t

\* The first byte of a field is its value's last digit.
LEMMA LowByte ==
  ASSUME NEW t \in Seq(Byte), Len(t) >= 1 PROVE Value(t) \in Int /\ Value(t) % RADIX = t[1]
<1> DEFINE u == Terms(t)
           L == Len(t)
           Right(n) == \E q \in Int : Sums(u)[n] = q * RADIX + t[1]
           S == {n \in Nat : n + 1 <= L => Right(n + 1)}
<1>1. L \in Nat /\ t[1] \in Byte /\ t[1] \in Int
  <2>1. L \in Nat /\ t[1] \in Byte
    OBVIOUS
  <2> QED BY <2>1, Sizes
<1>2. /\ Sums(u)[0] = 0
      /\ \A n \in 0 .. L : Sums(u)[n] \in Int
      /\ \A n \in 0 .. L - 1 : Sums(u)[n + 1] = Sums(u)[n] + t[n + 1] * Power[n]
  BY TermSums
<1> HIDE DEF u
<1>3. 0 \in S
  <2>1. Sums(u)[0 + 1] = 0 + t[0 + 1] * Power[0]
    BY <1>1, <1>2
  <2>2. Power[0] = 1 /\ 0 * RADIX = 0
    BY PowerIs, Sizes
  <2>3. Sums(u)[1] = t[1] * 1
    BY <1>1, <2>1, <2>2
  <2>4. Sums(u)[1] = 0 * RADIX + t[1]
    BY <1>1, <2>2, <2>3
  <2> QED BY <2>4
<1>4. ASSUME NEW n \in Nat, n \in S PROVE n + 1 \in S
  <2> SUFFICES ASSUME n + 1 + 1 <= L PROVE Right(n + 1 + 1)
    OBVIOUS
  <2>1. n + 1 \in 0 .. L - 1 /\ n + 1 <= L /\ n + 1 + 1 \in 1 .. L
    BY <1>1
  <2>2. PICK q \in Int : Sums(u)[n + 1] = q * RADIX + t[1]
    BY <1>4, <2>1
  <2>3. Sums(u)[n + 1 + 1] = Sums(u)[n + 1] + t[n + 1 + 1] * Power[n + 1]
    BY <1>2, <2>1
  <2> DEFINE p == Power[n]
             b == t[n + 1 + 1]
  <2>4. p \in Nat /\ Power[n + 1] = RADIX * p
    BY PowerIs
  <2>5. b \in Int
    <3>1. b \in Byte
      BY <2>1
    <3> QED BY <3>1, Sizes
  <2> HIDE DEF p, b
  <2>6. Sums(u)[n + 1 + 1] = (q * RADIX + t[1]) + b * (RADIX * p)
    BY <2>2, <2>3, <2>4 DEF b
  <2>7. b * (RADIX * p) = (b * p) * RADIX
    BY <2>4, <2>5, Sizes
  <2>8. (q + b * p) * RADIX = q * RADIX + (b * p) * RADIX
    BY <2>4, <2>5, Sizes
  <2> DEFINE x == q * RADIX
             y == (b * p) * RADIX
             z == (q + b * p) * RADIX
  <2>9. x \in Int /\ y \in Int /\ z = x + y /\ b * (RADIX * p) = y
    BY <2>4, <2>5, <2>7, <2>8, Sizes
  <2>10. Sums(u)[n + 1 + 1] = (x + t[1]) + y
    BY <2>6, <2>9
  <2> HIDE DEF x, y, z
  <2>11. Sums(u)[n + 1 + 1] = z + t[1]
    BY <1>1, <2>9, <2>10
  <2>12. q + b * p \in Int
    BY <2>4, <2>5
  <2> QED BY <2>11, <2>12 DEF z
<1>5. \A n \in Nat : n \in S
  <2> HIDE DEF S
  <2> QED BY <1>3, <1>4, SetInduction
<1>6. L - 1 \in Nat /\ (L - 1) + 1 = L
  BY <1>1
<1>7. Right(L)
  <2>1. L - 1 \in S
    BY <1>5, <1>6
  <2> QED BY <1>6, <2>1
<1>8. PICK q \in Int : Value(t) = q * RADIX + t[1]
  BY <1>7, TermsAre DEF u
<1>9. RADIX \in Nat /\ RADIX > 0 /\ t[1] \in 0 .. RADIX - 1
  BY <1>1, Sizes DEF Byte
<1> DEFINE v == Value(t)
           r == t[1]
<1>10. v = q * RADIX + r /\ r \in 0 .. (RADIX - 1)
  BY <1>8, <1>9
<1> HIDE DEF v, r
<1>11. v \in Int
  BY <1>9, <1>10
<1>12. v % RADIX = r
  BY <1>9, <1>10, <1>11, Quotient
<1> QED BY <1>11, <1>12 DEF v, r

\* A value that begins with a SYNC_REQ is no divisor, and not zero.
LEMMA NoDivisor ==
  ASSUME NEW t \in Seq(Byte), Len(t) >= 1, t[1] = SYNC_REQ PROVE Value(t) # 0 /\ Value(t) \notin Divisors
<1>1. Value(t) \in Int /\ Value(t) % RADIX = SYNC_REQ
  BY LowByte
<1>2. 0 % RADIX = 0
  BY Sizes
<1> QED BY <1>1, <1>2, Sizes, UploadAssumption

LEMMA SumIs ==
  ASSUME NEW t \in Seq(Byte)
  PROVE Sum(t) = Sums(t)[Len(t)] % Power[WIDTH] /\ Sum(t) \in U32
<1>1. Power[WIDTH] \in Nat /\ Power[WIDTH] > 0
  <2>1. WIDTH \in Nat
    BY Sizes
  <2>2. Power[WIDTH] \in Nat
    BY <2>1, PowerIs
  <2>3. Power[WIDTH] >= 1
    BY <2>1, PowerAtLeast
  <2> QED BY <2>2, <2>3
<1>2. Len(t) \in Nat /\ \A i \in 1 .. Len(t) : t[i] \in Int
  <2>1. \A i \in 1 .. Len(t) : t[i] \in Byte
    OBVIOUS
  <2> QED BY <2>1, Sizes
<1>3. Sums(t)[Len(t)] \in Int
  BY <1>2, SumsAre
<1>4. Sum(t) = Sums(t)[Len(t)] % Power[WIDTH]
  BY DEF Sum, Total
<1> DEFINE m == Power[WIDTH]
           s == Sums(t)[Len(t)]
<1>5. m \in Nat /\ m > 0 /\ s \in Int
  BY <1>1, <1>3
<1> HIDE DEF m, s
<1>6. s % m \in 0 .. m - 1
  BY <1>5, Remainder
<1> QED BY <1>4, <1>6 DEF m, s, U32

Alike(t, u, n) == \A i \in 1 .. n : t[i] = u[i]

\* The sum of a part is of the bytes in it.
LEMMA SumsOfPart ==
  ASSUME NEW t, NEW u, NEW n \in Nat, n <= Len(t), n <= Len(u), Numbers(t), Numbers(u), Alike(t, u, n)
  PROVE Sums(t)[n] = Sums(u)[n]
<1>0. /\ Len(t) \in Nat /\ \A i \in 1 .. Len(t) : t[i] \in Int
      /\ Len(u) \in Nat /\ \A i \in 1 .. Len(u) : u[i] \in Int
      /\ \A i \in 1 .. n : t[i] = u[i]
  BY DEF Numbers, Alike
<1> DEFINE S == {k \in Nat : k <= n => Sums(t)[k] = Sums(u)[k]}
<1>1. /\ Sums(t)[0] = 0 /\ Sums(u)[0] = 0
      /\ \A k \in 0 .. Len(t) - 1 : Sums(t)[k + 1] = Sums(t)[k] + t[k + 1]
      /\ \A k \in 0 .. Len(u) - 1 : Sums(u)[k + 1] = Sums(u)[k] + u[k + 1]
  BY <1>0, SumsAre
<1>2. 0 \in S
  BY <1>1
<1>3. ASSUME NEW k \in Nat, k \in S PROVE k + 1 \in S
  <2> SUFFICES ASSUME k + 1 <= n PROVE Sums(t)[k + 1] = Sums(u)[k + 1]
    OBVIOUS
  <2>1. k \in 0 .. Len(t) - 1 /\ k \in 0 .. Len(u) - 1 /\ k + 1 \in 1 .. n /\ k <= n
    BY <1>0
  <2>2. Sums(t)[k] = Sums(u)[k] /\ t[k + 1] = u[k + 1]
    BY <1>0, <1>3, <2>1
  <2> QED BY <1>1, <2>1, <2>2
<1>4. \A k \in Nat : k \in S
  <2> HIDE DEF S
  <2> QED BY <1>2, <1>3, SetInduction
<1> QED BY <1>4

\* What the checksum tells: with at most one byte of the data and its checksum
\* damaged, a checksum that is found right means that the data is.
LEMMA ChecksumTells ==
  ASSUME NEW d \in Seq(Byte), NEW x \in [1 .. Len(d) + WIDTH -> Byte], NEW p \in Nat,
         \A k \in 1 .. Len(d) : k # p => x[k] = d[k],
         \A k \in 1 .. WIDTH : Len(d) + k # p => x[Len(d) + k] = Le32(Sum(d))[k],
         Sums(x)[Len(d)] % Power[WIDTH] = Value([k \in 1 .. WIDTH |-> x[Len(d) + k]])
  PROVE \A k \in 1 .. Len(d) : x[k] = d[k]
<1>1. CASE ~(p \in 1 .. Len(d))
  BY <1>1
<1>2. CASE p \in 1 .. Len(d)
  <2> DEFINE L == Len(d)
             y == [k \in 1 .. WIDTH |-> x[L + k]]
             m == Power[WIDTH]
             e == x[p] - d[p]
  <2>1. L \in Nat /\ WIDTH \in Nat /\ WIDTH >= 1 /\ Len(x) = L + WIDTH /\ Len(x) \in Nat
    BY Sizes
  <2>2. /\ \A i \in 1 .. L : d[i] \in Byte /\ d[i] \in Int
        /\ \A i \in 1 .. Len(x) : x[i] \in Byte /\ x[i] \in Int
    <3>1. \A i \in 1 .. L : d[i] \in Byte
      OBVIOUS
    <3>2. \A i \in 1 .. Len(x) : x[i] \in Byte
      BY <2>1
    <3> QED BY <3>1, <3>2, Sizes
  <2>3. m \in Nat /\ m >= RADIX
    <3>1. m \in Nat
      BY <2>1, PowerIs
    <3> QED BY <2>1, <3>1, PowerAtLeast
  <2>4. y = Le32(Sum(d))
    <3>1. Sum(d) \in Nat
      BY SumIs, <2>3 DEF U32
    <3>2. DOMAIN Le32(Sum(d)) = 1 .. WIDTH
      BY <3>1, FieldIs
    <3>3. \A k \in 1 .. WIDTH : x[L + k] = Le32(Sum(d))[k]
      BY <1>2, <2>1
    <3> QED BY <3>2, <3>3 DEF Le32
  <2>5. Value(y) = Sum(d)
    BY <2>4, SumIs, ValueOfField
  <2>6. Sums(x)[L] = Sums(d)[L] + e
    <3> DEFINE z == [i \in 1 .. L |-> x[i]]
    <3>1. z \in [1 .. L -> Byte]
      BY <2>1, <2>2
    <3>2. Len(z) = L
      BY <2>1, <3>1
    <3>3. \A i \in 1 .. L : z[i] = x[i] /\ z[i] \in Int
      BY <2>1, <2>2
    <3> HIDE DEF z
    <3>4. Sums(x)[L] = Sums(z)[L]
      <4>1. Numbers(x) /\ Numbers(z) /\ Alike(x, z, L) /\ L <= Len(x) /\ L <= Len(z)
        BY <2>1, <2>2, <3>2, <3>3 DEF Numbers, Alike
      <4> HIDE DEF L
      <4> QED BY <2>1, <4>1, SumsOfPart
    <3>5. Sums(z)[Len(z)] = Sums(d)[Len(z)] + (z[p] - d[p])
      <4>1. Numbers(z) /\ Numbers(d) /\ AlikeBut(z, d, p) /\ Len(d) = Len(z) /\ p \in 1 .. Len(z)
        BY <1>2, <2>1, <2>2, <3>2, <3>3 DEF Numbers, AlikeBut
      <4> QED BY <4>1, SumsDiffer
    <3>6. L \in 0 .. Len(z) /\ 1 <= p /\ p <= L /\ z[p] = x[p]
      BY <1>2, <2>1, <3>2, <3>3
    <3> QED BY ONLY <3>2, <3>4, <3>5, <3>6
  <2> DEFINE s == Sums(d)[L]
  <2>7. s \in Int
    BY <2>1, <2>2, SumsAre
  <2>8. e \in Int /\ -m < e /\ e < m
    <3>1. x[p] \in Byte /\ d[p] \in Byte
      BY <1>2, <2>1, <2>2
    <3>2. x[p] \in 0 .. RADIX - 1 /\ d[p] \in 0 .. RADIX - 1
      BY <3>1 DEF Byte
    <3>3. RADIX \in Nat
      BY Sizes
    <3> DEFINE u == x[p]
               v == d[p]
    <3>4. u \in 0 .. RADIX - 1 /\ v \in 0 .. RADIX - 1 /\ m \in Nat /\ m >= RADIX
      BY <2>3, <3>2
    <3> HIDE DEF u, v, m
    <3>5. u - v \in Int /\ -m < u - v /\ u - v < m
      BY <3>3, <3>4
    <3> QED BY <3>5 DEF u, v
  <2>9. (s + e) % m = s % m
    BY <2>5, <2>6, SumIs
  <2>10. e = 0
    <3>1. m > 0
      BY <2>3, Sizes
    <3> HIDE DEF e, s, m
    <3> QED BY <2>3, <2>7, <2>8, <2>9, <3>1, SameRemainder
  <2>11. x[p] = d[p]
    <3>1. x[p] \in Int /\ d[p] \in Int
      BY <1>2, <2>1, <2>2
    <3> QED BY <2>10, <3>1
  <2> QED BY <2>11
<1> QED BY <1>1, <1>2

(* ----------------------------------------------------------------------- *)
(* The invariant                                                            *)
(* ----------------------------------------------------------------------- *)

N == Len(Segments)
Answer == {"TEXT", "SYNC_ACK", "ACK", "NAK"}
Typed ==
  /\ to_dev \in Seq(Byte) /\ to_host \in Seq(Answer)
  /\ field \in Seq(Byte) /\ Len(field) < WIDTH
  /\ sent \in Nat /\ sent >= 1 /\ divisor \in Divisors /\ host_speed \in {0, divisor}
  /\ damaged \in Nat

NoAck(t) == \A k \in 1 .. Len(t) : t[k] # "ACK"
AllText(t) == \A k \in 1 .. Len(t) : t[k] = "TEXT"
TextThenSync(t) == \A k \in 1 .. Len(t) : t[k] = "TEXT" \/ (t[k] = "SYNC_ACK" /\ k = Len(t))
SyncIsLate(t) == \A k \in 1 .. Len(t) : t[k] = "SYNC_ACK" => k >= Len(t) - 1
AllSync(t) == \A k \in 1 .. Len(t) : t[k] = SYNC_REQ

\* The board has been reset; the host may have asked for its attention.
Starting ==
  /\ dev \in {"boot", "sync"} /\ host \in {"start", "sync", "sync_wait", "failed"}
  /\ dev_speed = 0 /\ host_speed = 0 /\ sent = 1 /\ field = <<>>
  /\ AllSync(to_dev) /\ AllText(to_host)

\* The loader waits for the divisor, and the host has not sent it: it may have
\* asked again, and the loader takes that for the divisor.
Asked ==
  /\ dev = "baud" /\ host \in {"start", "sync", "sync_wait", "baud", "failed"}
  /\ dev_speed = 0 /\ host_speed = 0 /\ sent = 1
  /\ AllSync(to_dev) /\ AllSync(field) /\ TextThenSync(to_host)
  /\ host = "baud" => to_host = <<>>

\* The host has sent the divisor: the loader does not get all of it, or takes an
\* earlier SYNC_REQ for its first byte, or does not take one so far, or gets it.
Queued(t) ==
  /\ Len(t) >= WIDTH
  /\ \A k \in 1 .. Len(t) :
       t[k] = IF k <= Len(t) - WIDTH THEN SYNC_REQ ELSE Le32(divisor)[k - (Len(t) - WIDTH)]
Offered ==
  /\ dev = "baud" /\ host \in {"baud_wait", "failed"}
  /\ dev_speed = 0 /\ host_speed = 0 /\ sent = 1 /\ to_host = <<>>
  /\ \/ Len(field) + Len(to_dev) < WIDTH
     \/ field # <<>> /\ field[1] = SYNC_REQ
     \/ host = "baud_wait" /\ field = <<>> /\ Queued(to_dev)
     \/ host = "baud_wait" /\ field \o to_dev = Le32(divisor)

\* The loader has taken another divisor than the host's, and hears no more of it.
Deaf ==
  /\ \/ dev = "switch" /\ dev_speed = 0 /\ left \notin {0, divisor}
     \/ dev = "count" /\ dev_speed \notin {0, divisor}
  /\ host \in {"start", "sync", "sync_wait", "baud", "baud_wait", "switch", "ready_wait", "count", "count_wait", "failed"}
  /\ SyncIsLate(to_host) /\ sent = 1
  /\ host \in {"baud", "baud_wait"} => Len(to_host) <= 1
  /\ host \in {"switch", "ready_wait", "count", "count_wait"} => to_host = <<>>

\* The host has switched, the loader not yet.
Switched ==
  /\ dev = "switch" /\ host = "ready_wait" /\ left = divisor /\ host_speed = divisor
  /\ to_dev = <<>> /\ to_host = <<>> /\ field = <<>> /\ sent = 1

\* The loader waits for the first byte of a part: all before it has come.
Kept(n, m) == damaged <= 1 => Images(n, m)
SameSpeed == host_speed = dev_speed
AtSegment(s) == seg = s /\ seg_count = N /\ s \in 1 .. N /\ SameSpeed
AtBase(s) == dev = "base" /\ AtSegment(s) /\ Kept(s - 1, s - 1)
AtData(s) == /\ dev = "data" /\ AtSegment(s) /\ Kept(s - 1, s)
             /\ base = Segments[s].base /\ left = Len(Segments[s].data) /\ left >= 1 /\ checksum = 0
AtEntry == dev = "entry" /\ seg_count = N /\ SameSpeed /\ Kept(N, N)

\* What the loader has come to when the host sends a part.
Expects(pc, s) ==
  \/ /\ pc = "switch" /\ divisor # 0 /\ host_speed = 0 /\ s = 1
     /\ (dev = "switch" /\ left = divisor) \/ (dev = "count" /\ dev_speed = divisor)
  \/ pc = "count" /\ dev = "count" /\ SameSpeed /\ s = 1
  \/ pc \in {"count_drain", "header"} /\ AtBase(s)
  \/ pc \in {"header_drain", "data"} /\ AtData(s)
  \/ pc = "entry" /\ AtEntry

\* It is the host's turn.
Turn ==
  /\ host \in {"switch", "count", "count_drain", "header", "header_drain", "data", "entry"}
  /\ to_dev = <<>> /\ field = <<>> /\ Expects(host, sent)
  /\ host \notin {"count_drain", "header_drain"} => to_host = <<>>

\* It will be when it gets the answer that is on the line.
Sent == IF host = "sum_wait" /\ sent < N THEN sent + 1 ELSE sent
Acked ==
  /\ host \in {"baud_wait", "ready_wait", "count_wait", "header_wait", "sum_wait"}
  /\ to_dev = <<>> /\ field = <<>> /\ Expects(AfterAck, Sent)
  /\ to_host # <<>> /\ to_host[1] = "ACK" /\ NoAck(Tail(to_host))
  /\ host \notin {"count_wait", "header_wait"} => Len(to_host) = 1

\* A part is on its way, whole.
Counting == host = "count_wait" /\ dev = "count" /\ to_dev = <<N>> /\ field = <<>> /\ SameSpeed /\ sent = 1
Heading ==
  /\ host = "header_wait" /\ AtSegment(sent) /\ Kept(sent - 1, sent - 1)
  /\ \/ dev = "base" /\ field \o to_dev = Le32(Segments[sent].base) \o Le32(Len(Segments[sent].data))
     \/ /\ dev = "size" /\ field \o to_dev = Le32(Len(Segments[sent].data))
        /\ base = Segments[sent].base
Body(s) == Segments[s].data \o Le32(Sum(Segments[s].data))
\* x is y as it comes.
Comes(x, y) ==
  /\ damaged = 0 => \A k \in 1 .. Len(y) : x[k] = y[k]
  /\ damaged = 1 => \E p \in Nat : \A k \in 1 .. Len(y) : k # p => x[k] = y[k]
\* Of the part's n bytes that have come, all but those in the field are stored.
Reading(x, s, n) ==
  /\ dev = "data" /\ n \in 0 .. Len(Segments[s].data) - 1 /\ left = Len(Segments[s].data) - n
  /\ Len(to_dev) = Len(Body(s)) - n /\ \A k \in 1 .. Len(to_dev) : to_dev[k] = x[n + k]
  /\ Len(field) <= n /\ \A k \in 1 .. Len(field) : field[k] = x[n - Len(field) + k]
  /\ field = <<>> \/ left + Len(field) >= WIDTH
  /\ base = Segments[s].base + n - Len(field)
  /\ checksum = Sums(x)[n] % Power[WIDTH]
  /\ \A a \in Segments[s].base .. base - 1 : a \in DOMAIN mem /\ mem[a] = x[a - Segments[s].base + 1]
Summing(x, s) ==
  /\ dev = "sum"
  /\ field \o to_dev = [k \in 1 .. WIDTH |-> x[Len(Segments[s].data) + k]]
  /\ checksum = Sums(x)[Len(Segments[s].data)] % Power[WIDTH]
  /\ \A a \in Area(s) : a \in DOMAIN mem /\ mem[a] = x[a - Segments[s].base + 1]
Storing ==
  /\ host = "sum_wait" /\ AtSegment(sent) /\ Kept(sent - 1, sent)
  /\ \E x \in [1 .. Len(Body(sent)) -> Byte] :
       Comes(x, Body(sent)) /\ (Summing(x, sent) \/ \E n \in Nat : Reading(x, sent, n))
Entering == host = "entry_wait" /\ AtEntry /\ field \o to_dev = Le32(Entry)
UnderWay == to_host = <<>> /\ (Counting \/ Heading \/ Storing \/ Entering)

\* The loader waits for more than will come, or has said NAK.
Short ==
  \/ dev \in {"switch", "count"} /\ to_dev = <<>>
  \/ dev = "base" /\ Len(field) + Len(to_dev) < 2 * WIDTH
  \/ dev \in {"size", "sum", "entry"} /\ Len(field) + Len(to_dev) < WIDTH
  \/ dev = "data" /\ Len(to_dev) < left + WIDTH
Waits == {"baud_wait", "ready_wait", "count_wait", "header_wait", "sum_wait", "entry_wait"}
Lost ==
  /\ host \in Waits \cup {"failed"} /\ NoAck(to_host)
  /\ dev = "hung" \/ Short
  /\ dev = "switch" => host_speed # left
  /\ dev = "data" => left \in Nat /\ left >= 1
  /\ host = "header_wait" => dev \in {"base", "size", "hung"} \/ (dev = "data" /\ to_dev = <<>>)
  /\ host = "sum_wait" => dev \in {"data", "sum", "hung"} \/ (dev \in {"base", "entry"} /\ to_dev = <<>>)
  /\ host = "entry_wait" => dev = "entry"

\* The program has been started.
Started ==
  /\ dev \in {"jump", "running"} /\ host \in {"entry_wait", "entry_drain", "ok", "failed"}
  /\ entry = Entry /\ seg_count = N /\ Kept(N, N)

Situation ==
  \/ Starting \/ Asked \/ Offered \/ Deaf \/ Switched
  \/ Turn \/ Acked \/ UnderWay \/ Lost \/ Started
IInv == Typed /\ Situation

(* ----------------------------------------------------------------------- *)
(* Sequences                                                                *)
(* ----------------------------------------------------------------------- *)

LEMMA Taking ==
  ASSUME NEW S, NEW t \in Seq(S), t # <<>>
  PROVE /\ Head(t) = t[1] /\ t[1] \in S /\ Tail(t) \in Seq(S)
        /\ Len(t) \in Nat /\ Len(t) >= 1 /\ Len(Tail(t)) = Len(t) - 1
        /\ \A k \in 1 .. Len(t) - 1 : Tail(t)[k] = t[k + 1]
  OBVIOUS

LEMMA Appending ==
  ASSUME NEW S, NEW t \in Seq(S), NEW b \in S
  PROVE /\ Append(t, b) \in Seq(S) /\ Len(Append(t, b)) = Len(t) + 1 /\ Append(t, b)[Len(t) + 1] = b
        /\ \A k \in 1 .. Len(t) : Append(t, b)[k] = t[k]
  OBVIOUS

LEMMA Joining ==
  ASSUME NEW S, NEW t \in Seq(S), NEW u \in Seq(S)
  PROVE /\ t \o u \in Seq(S) /\ Len(t \o u) = Len(t) + Len(u) /\ Len(t) \in Nat /\ Len(u) \in Nat
        /\ \A k \in 1 .. Len(t) : (t \o u)[k] = t[k]
        /\ \A k \in 1 .. Len(u) : (t \o u)[Len(t) + k] = u[k]
  OBVIOUS

LEMMA Second ==
  ASSUME NEW S, NEW t \in Seq(S), NEW u \in Seq(S), NEW k \in 1 .. Len(u) PROVE (t \o u)[Len(t) + k] = u[k]
  OBVIOUS

\* Sequences are equal that are so place by place.
LEMMA SameSequence ==
  ASSUME NEW S, NEW t \in Seq(S), NEW u \in Seq(S), Len(t) = Len(u), \A k \in 1 .. Len(t) : t[k] = u[k]
  PROVE t = u
  OBVIOUS

\* A byte goes from the line into the field.
LEMMA Shift ==
  ASSUME NEW S, NEW f \in Seq(S), NEW t \in Seq(S), t # <<>>
  PROVE Append(f, Head(t)) \o Tail(t) = f \o t
<1> DEFINE g == Append(f, Head(t)) \o Tail(t)
           h == f \o t
<1>1. g \in Seq(S) /\ h \in Seq(S) /\ Len(g) = Len(f) + Len(t) /\ Len(h) = Len(f) + Len(t)
  OBVIOUS
<1>2. ASSUME NEW k \in 1 .. Len(f) + Len(t) PROVE g[k] = h[k]
  OBVIOUS
<1> HIDE DEF g, h
<1>3. g = h
  BY <1>1, <1>2, SameSequence
<1> QED BY <1>3 DEF g, h

\* A field that is full is the first word of what was sent.
LEMMA Split ==
  ASSUME NEW S, NEW f \in Seq(S), NEW t \in Seq(S), NEW x \in Seq(S), NEW y \in Seq(S),
         f \o t = x \o y, Len(f) = Len(x)
  PROVE f = x /\ t = y
<1>1. Len(f \o t) = Len(f) + Len(t) /\ Len(x \o y) = Len(x) + Len(y)
  OBVIOUS
<1>2. Len(t) = Len(y)
  BY <1>1
<1>3. \A k \in 1 .. Len(f) : f[k] = (f \o t)[k] /\ x[k] = (x \o y)[k]
  OBVIOUS
<1>4. f = x
  BY <1>3, SameSequence
<1>5. \A k \in 1 .. Len(t) : t[k] = (f \o t)[Len(f) + k] /\ y[k] = (x \o y)[Len(x) + k]
  <2>1. \A k \in 1 .. Len(t) : (f \o t)[Len(f) + k] = t[k]
    BY Second
  <2>2. \A k \in 1 .. Len(y) : (x \o y)[Len(x) + k] = y[k]
    BY Second
  <2> QED BY <1>2, <2>1, <2>2
<1>6. t = y
  BY <1>2, <1>5, SameSequence
<1> QED BY <1>4, <1>6

LEMMA Nothing == ASSUME NEW S, NEW t \in Seq(S) PROVE (t = <<>> <=> Len(t) = 0) /\ t \o <<>> = t /\ <<>> \o t = t
  OBVIOUS

(* ----------------------------------------------------------------------- *)
(* Types                                                                    *)
(* ----------------------------------------------------------------------- *)

Replies == {<<"ACK">>, <<"ACK", "TEXT">>, <<"NAK", "TEXT">>, <<"SYNC_ACK">>, <<"TEXT">>}

LEMMA RepliesAre == \A a \in Replies : a \in Seq(Answer)
<1>1. <<"ACK">> \in Seq(Answer) /\ <<"SYNC_ACK">> \in Seq(Answer) /\ <<"TEXT">> \in Seq(Answer)
  BY DEF Answer
<1>2. <<"ACK", "TEXT">> \in Seq(Answer) /\ <<"NAK", "TEXT">> \in Seq(Answer)
  BY DEF Answer
<1> QED BY <1>1, <1>2 DEF Replies

\* What the loader says to a byte.
LEMMA Replied ==
  ASSUME NEW b, Receive(b) PROVE to_host' = to_host \/ \E a \in Replies : to_host' = to_host \o a
<1>1. CASE Sync(b)
  BY <1>1 DEF Sync, Answers, Replies
<1>2. CASE Count(b)
  BY <1>2 DEF Count, Fail, Answers, Replies
<1>3. CASE Data(b)
  BY <1>3 DEF Data
<1>4. CASE Collect(b, Baud)
  BY <1>4 DEF Collect, Baud, Answers, Replies
<1>5. CASE Collect(b, SegBase)
  BY <1>5 DEF Collect, SegBase
<1>6. CASE Collect(b, SegSize)
  BY <1>6 DEF Collect, SegSize, Fail, Answers, Replies
<1>7. CASE Collect(b, CheckSum)
  BY <1>7 DEF Collect, CheckSum, Fail, Answers, Replies
<1>8. CASE Collect(b, EntryPoint)
  BY <1>8 DEF Collect, EntryPoint, Answers, Replies
<1> QED BY <1>1, <1>2, <1>3, <1>4, <1>5, <1>6, <1>7, <1>8 DEF Receive

LEMMA TypedInit == ASSUME Init PROVE Typed
<1>1. <<>> \in Seq(Byte) /\ <<>> \in Seq(Answer) /\ Len(<<>>) = 0
  OBVIOUS
<1> QED BY <1>1, Sizes DEF Init, Typed

LEMMA TypedLoader == ASSUME Typed, Loader PROVE Typed'
<1>0. UNCHANGED <<sent, divisor, host_speed, damaged>>
  BY DEF Loader, host_vars, faults
<1>1. CASE DevReceive
  <2>1. to_dev # <<>> /\ to_dev' = Tail(to_dev)
    BY <1>1 DEF DevReceive
  <2>2. to_dev' \in Seq(Byte) /\ Head(to_dev) \in Byte
    BY <2>1, Taking DEF Typed
  <2> DEFINE b == Head(to_dev)
  <2>3. Append(field, b) \in Seq(Byte) /\ Len(Append(field, b)) = Len(field) + 1
    BY <2>2, Appending DEF Typed
  <2>4. <<>> \in Seq(Byte) /\ Len(<<>>) < WIDTH
    BY Sizes
  <2>5. field' \in Seq(Byte) /\ Len(field)' < WIDTH
    <3>1. CASE host_speed # dev_speed
      BY <1>1, <3>1 DEF DevReceive, dev_vars, Typed
    <3>2. CASE Receive(b)
      <4>1. CASE Sync(b)
        BY <4>1 DEF Sync, Typed
      <4>2. CASE Count(b)
        BY <4>2 DEF Count, Typed
      <4>3. CASE Data(b)
        <5>1. field' = <<>> \/ (field' = Append(field, b) /\ Len(Append(field, b)) < WIDTH)
          BY <4>3 DEF Data
        <5> QED BY <2>3, <2>4, <5>1
      <4>4. CASE Collect(b, Baud) \/ Collect(b, SegBase) \/ Collect(b, SegSize) \/ Collect(b, CheckSum) \/ Collect(b, EntryPoint)
        <5>1. field' = <<>> \/ (field' = Append(field, b) /\ Len(field) + 1 < WIDTH)
          BY <4>4 DEF Collect
        <5> QED BY <2>3, <2>4, <5>1
      <4> QED BY <3>2, <4>1, <4>2, <4>3, <4>4 DEF Receive
    <3> QED BY <1>1, <3>1, <3>2 DEF DevReceive
  <2>6. to_host' \in Seq(Answer)
    <3>1. to_host' = to_host \/ \E a \in Replies : to_host' = to_host \o a
      BY <1>1, Replied DEF DevReceive
    <3> QED BY <3>1, RepliesAre, Joining DEF Typed
  <2> QED BY <1>0, <2>2, <2>5, <2>6 DEF Typed
<1>2. CASE SwitchSpeed \/ Speak
  <2>1. UNCHANGED <<to_dev, field>>
    BY <1>2 DEF SwitchSpeed, Speak
  <2>2. to_host' = to_host \/ (\E a \in Replies : to_host' = to_host \o a) \/ (\E a \in Answer : to_host' = Append(to_host, a))
    BY <1>2 DEF SwitchSpeed, Speak, Answers, Replies, Answer
  <2>3. to_host \in Seq(Answer)
    BY DEF Typed
  <2>4. to_host' \in Seq(Answer)
    <3>1. CASE \E a \in Replies : to_host' = to_host \o a
      BY <2>3, <3>1, RepliesAre, Joining
    <3>2. CASE \E a \in Answer : to_host' = Append(to_host, a)
      BY <2>3, <3>2, Appending
    <3> QED BY <2>2, <2>3, <3>1, <3>2
  <2> QED BY <1>0, <2>1, <2>4 DEF Typed
<1> QED BY <1>1, <1>2 DEF Loader

LEMMA Words == \A v \in U32 : v \in Nat
<1>1. Power[WIDTH] \in Nat
  BY Sizes, PowerIs
<1> QED BY <1>1 DEF U32

LEMMA DivisorIs == \A d \in Divisors : d \in U32 /\ d \in Nat
  BY Words, UploadAssumption

LEMMA SegmentIs ==
  ASSUME NEW s, s \in 1 .. N
  PROVE /\ Segments[s].data \in Seq(Byte) /\ Len(Segments[s].data) \in U32 /\ Segments[s].base \in U32
        /\ Len(Segments[s].data) \in Nat /\ Segments[s].base \in Nat
<1> DEFINE R == [base : U32, data : Seq(Byte)]
<1>0. Segments \in Seq(R) /\ N = Len(Segments)
  BY UploadAssumption DEF N
<1> HIDE DEF R
<1>a. s \in DOMAIN Segments /\ Segments[s] \in R
  BY <1>0
<1>1. s \in DOMAIN Segments /\ Segments[s] \in [base : U32, data : Seq(Byte)]
  BY <1>a DEF R
<1>2. Segments[s].data \in Seq(Byte) /\ Segments[s].base \in U32
  BY <1>1
<1>3. Len(Segments[s].data) \in U32
  BY <1>1, UploadAssumption
<1> QED BY <1>2, <1>3, Words

LEMMA EntryIs == Entry \in U32 /\ Entry \in Nat /\ N \in Byte /\ N \in Nat
  BY Words, Sizes, UploadAssumption DEF N

LEMMA TypedHost == ASSUME Typed, Host, host \in {"header", "data"} => sent \in 1 .. N PROVE Typed'

<1>0. UNCHANGED <<field, damaged>>
  BY DEF Host, dev_vars
<1>1. to_host' = to_host \/ to_host' = <<>> \/ (to_host # <<>> /\ to_host' = Tail(to_host))
  BY DEF Host, SendSync, AwaitSync, SendDivisor, Reconfigure, SendCount, SendHeader, SendData, SendEntry, Drain, Await
<1>2. to_host' \in Seq(Answer)
  <2>1. to_host \in Seq(Answer) /\ <<>> \in Seq(Answer)
    BY DEF Typed
  <2>2. CASE to_host # <<>> /\ to_host' = Tail(to_host)
    BY <2>1, <2>2, Taking
  <2> QED BY <1>1, <2>1, <2>2
<1>3. sent' \in Nat /\ sent' >= 1
  <2>1. sent' = sent \/ sent' = sent + 1
    BY DEF Host, SendSync, AwaitSync, SendDivisor, Reconfigure, SendCount, SendHeader, SendData, SendEntry, Drain, Await, KeepsCounters
  <2> QED BY <2>1 DEF Typed
<1>4. divisor' = divisor /\ (host_speed' = host_speed \/ host_speed' = divisor)
  BY DEF Host, SendSync, AwaitSync, SendDivisor, Reconfigure, SendCount, SendHeader, SendData, SendEntry, Drain, Await, KeepsCounters
<1>5. to_dev' \in Seq(Byte)
  <2>1. CASE SendSync
    <3>1. to_dev' = to_dev \/ to_dev' = to_dev \o <<SYNC_REQ>>
      BY <2>1 DEF SendSync, Write
    <3>2. <<SYNC_REQ>> \in Seq(Byte)
      BY Sizes
    <3> QED BY <3>1, <3>2, Joining DEF Typed
  <2>2. CASE SendDivisor
    <3>1. divisor \in Nat
      BY DivisorIs DEF Typed
    <3> QED BY <2>2, <3>1, FieldIs, Joining DEF SendDivisor, Write, Typed
  <2>3. CASE SendCount
    <3>1. <<N>> \in Seq(Byte)
      BY EntryIs
    <3> QED BY <2>3, <3>1, Joining DEF SendCount, Write, Typed, N
  <2>4. CASE SendHeader
    <3>1. sent \in 1 .. N
      BY <2>4 DEF SendHeader
    <3> DEFINE x == Le32(Segments[sent].base)
               y == Le32(Len(Segments[sent].data))
    <3>2. x \in Seq(Byte) /\ y \in Seq(Byte)
      BY <3>1, SegmentIs, FieldIs
    <3>3. to_dev' = to_dev \o (x \o y)
      BY <2>4 DEF SendHeader, Write
    <3> HIDE DEF x, y
    <3>4. x \o y \in Seq(Byte)
      BY <3>2, Joining
    <3> QED BY <3>3, <3>4, Joining DEF Typed
  <2>5. CASE SendData
    <3>1. sent \in 1 .. N
      BY <2>5 DEF SendData
    <3> DEFINE x == Segments[sent].data
               y == Le32(Sum(x))
    <3>2. x \in Seq(Byte)
      BY <3>1, SegmentIs
    <3>3. y \in Seq(Byte)
      BY <3>2, SumIs, Words, FieldIs
    <3>4. to_dev' = to_dev \o (x \o y)
      BY <2>5 DEF SendData, Write
    <3> HIDE DEF x, y
    <3>5. x \o y \in Seq(Byte)
      BY <3>2, <3>3, Joining
    <3> QED BY <3>4, <3>5, Joining DEF Typed
  <2>6. CASE SendEntry
    <3>1. Le32(Entry) \in Seq(Byte)
      BY EntryIs, FieldIs
    <3> QED BY <2>6, <3>1, Joining DEF SendEntry, Write, Typed
  <2>7. CASE AwaitSync \/ Reconfigure \/ Drain \/ Await
    BY <2>7 DEF AwaitSync, Reconfigure, Drain, Await, Typed
  <2> QED BY <2>1, <2>2, <2>3, <2>4, <2>5, <2>6, <2>7 DEF Host
<1> QED BY <1>0, <1>2, <1>3, <1>4, <1>5 DEF Typed

LEMMA TypedLine == ASSUME Typed, Lose \/ Damage PROVE Typed'
<1>0. UNCHANGED <<field, sent, divisor, host_speed>>
  BY DEF Lose, Damage, host_vars, dev_vars
<1>1. damaged' = damaged \/ damaged' = damaged + 1
  BY DEF Lose, Damage
<1>2. to_host' = to_host \/ (to_host # <<>> /\ to_host' = Tail(to_host))
  BY DEF Lose, Damage
<1>3. to_host' \in Seq(Answer)
  BY <1>2, Taking DEF Typed
<1>4. to_dev' \in Seq(Byte)
  <2>1. CASE Lose
    <3>1. to_dev' = to_dev \/ (to_dev # <<>> /\ to_dev' = Tail(to_dev))
      BY <2>1 DEF Lose
    <3> QED BY <3>1, Taking DEF Typed
  <2>2. CASE Damage
    <3>1. PICK b \in Byte : to_dev # <<>> /\ to_dev' = <<b>> \o Tail(to_dev)
      BY <2>2 DEF Damage
    <3>2. <<b>> \in Seq(Byte) /\ Tail(to_dev) \in Seq(Byte)
      BY <3>1, Taking DEF Typed
    <3> QED BY <3>1, <3>2, Joining
  <2> QED BY <2>1, <2>2
<1> QED BY <1>0, <1>1, <1>3, <1>4 DEF Typed

LEMMA TypedAgain == ASSUME Typed, RunAgain PROVE Typed' /\ Starting'
<1>1. <<>> \in Seq(Byte) /\ <<>> \in Seq(Answer) /\ Len(<<>>) = 0
  OBVIOUS
<1>2. Typed'
  BY <1>1, Sizes DEF RunAgain, Typed
<1>3. Starting'
  BY <1>1 DEF RunAgain, Starting, AllSync, AllText
<1> QED BY <1>2, <1>3

(* ----------------------------------------------------------------------- *)
(* The answers on the line                                                  *)
(* ----------------------------------------------------------------------- *)

\* The last of a sequence with one more.
LEMMA OneMore ==
  ASSUME NEW S, NEW t \in Seq(S), NEW b \in S
  PROVE /\ t \o <<b>> \in Seq(S) /\ Len(t \o <<b>>) = Len(t) + 1 /\ (t \o <<b>>)[Len(t) + 1] = b
        /\ \A k \in 1 .. Len(t) : (t \o <<b>>)[k] = t[k]
  OBVIOUS

LEMMA SyncsOnly ==
  ASSUME NEW t \in Seq(Byte), AllSync(t)
  PROVE /\ AllSync(t \o <<SYNC_REQ>>) /\ AllSync(Append(t, SYNC_REQ))
        /\ t # <<>> => AllSync(Tail(t)) /\ Head(t) = SYNC_REQ
<1>1. SYNC_REQ \in Byte
  BY Sizes
<1>2. AllSync(t \o <<SYNC_REQ>>)
  BY <1>1 DEF AllSync
<1>3. AllSync(Append(t, SYNC_REQ))
  BY <1>1 DEF AllSync
<1>4. ASSUME t # <<>> PROVE AllSync(Tail(t)) /\ Head(t) = SYNC_REQ
  BY <1>4 DEF AllSync
<1> QED BY <1>2, <1>3, <1>4

LEMMA AnswersAre ==
  ASSUME NEW t \in Seq(Answer)
  PROVE /\ AllText(t) => AllText(t \o <<"TEXT">>) /\ TextThenSync(t \o <<"SYNC_ACK">>) /\ NoAck(t)
        /\ TextThenSync(t) => SyncIsLate(t \o <<"ACK">>)
        /\ NoAck(t) => NoAck(t \o <<"NAK", "TEXT">>)
  BY DEF AllText, TextThenSync, SyncIsLate, NoAck, Answer

LEMMA AnswerTaken ==
  ASSUME NEW t \in Seq(Answer), t # <<>>
  PROVE /\ AllText(t) => AllText(Tail(t)) /\ Head(t) = "TEXT"
        /\ TextThenSync(t) => TextThenSync(Tail(t)) /\ (Head(t) = "SYNC_ACK" => Tail(t) = <<>>)
        /\ SyncIsLate(t) => SyncIsLate(Tail(t)) /\ (Head(t) = "SYNC_ACK" => Len(Tail(t)) <= 1)
        /\ NoAck(t) => NoAck(Tail(t)) /\ Head(t) # "ACK"
  BY DEF AllText, TextThenSync, SyncIsLate, NoAck

LEMMA NoAnswer == AllText(<<>>) /\ TextThenSync(<<>>) /\ SyncIsLate(<<>>) /\ NoAck(<<>>) /\ AllSync(<<>>)
  BY DEF AllText, TextThenSync, SyncIsLate, NoAck, AllSync

(* ----------------------------------------------------------------------- *)
(* Before the divisor                                                       *)
(* ----------------------------------------------------------------------- *)

LEMMA StartingLoader == ASSUME Typed, Starting, Loader PROVE Situation'
<1>0. UNCHANGED <<host, sent, host_speed>> /\ host \in {"start", "sync", "sync_wait", "failed"} /\ host_speed = 0 /\ sent = 1
  BY DEF Loader, host_vars, Starting
<1>1. CASE DevReceive
  <2>1. dev = "sync" /\ to_dev # <<>> /\ to_dev' = Tail(to_dev) /\ Sync(Head(to_dev))
    BY <1>1 DEF DevReceive, Receive, Starting, Receiving
  <2>2. AllSync(to_dev') /\ Head(to_dev) = SYNC_REQ
    BY <2>1, SyncsOnly DEF Starting, Typed
  <2>3. dev' = "baud" /\ to_host' = to_host \o <<"SYNC_ACK">> /\ field' = field /\ dev_speed' = dev_speed
    BY <2>1, <2>2 DEF Sync, Answers
  <2>4. TextThenSync(to_host')
    BY <2>3, AnswersAre DEF Starting, Typed
  <2>5. AllSync(field')
    BY <2>3, NoAnswer DEF Starting
  <2>6. Asked'
    BY <1>0, <2>2, <2>3, <2>4, <2>5 DEF Asked, Starting
  <2> QED BY <2>6 DEF Situation
<1>2. CASE Speak
  <2>1. dev' = "sync" /\ to_host' = to_host \o <<"TEXT">> /\ UNCHANGED <<to_dev, field, dev_speed>>
    BY <1>2 DEF Speak, Starting, Answers
  <2>2. AllText(to_host')
    BY <2>1, AnswersAre DEF Starting, Typed
  <2>3. Starting'
    BY <1>0, <2>1, <2>2 DEF Starting
  <2> QED BY <2>3 DEF Situation
<1>3. CASE SwitchSpeed
  BY <1>3 DEF SwitchSpeed, Starting
<1> QED BY <1>1, <1>2, <1>3 DEF Loader

LEMMA StartingHost == ASSUME Typed, Starting, Host PROVE Situation'
<1>0. UNCHANGED <<dev, field, dev_speed>>
  BY DEF Host, dev_vars
<1>1. CASE SendSync
  <2>1. AllSync(to_dev')
    BY <1>1, SyncsOnly DEF SendSync, Write, Starting, Typed
  <2>2. host' \in {"sync_wait", "failed"} /\ UNCHANGED <<to_host, sent, host_speed>>
    BY <1>1 DEF SendSync, Goto
  <2> QED BY <1>0, <2>1, <2>2 DEF Starting, Situation
<1>2. CASE AwaitSync
  <2>1. to_host # <<>> => Head(to_host) = "TEXT"
    BY AnswerTaken DEF Starting, Typed
  <2>2. host' = "sync" /\ UNCHANGED <<to_dev, sent, host_speed>> /\ (to_host' = to_host \/ to_host' = <<>>)
    BY <1>2, <2>1 DEF AwaitSync, Goto, KeepsCounters
  <2> QED BY <1>0, <2>2, NoAnswer DEF Starting, Situation
<1>3. CASE Drain
  <2>1. host' = "sync" /\ to_host' = <<>> /\ UNCHANGED <<to_dev, sent, host_speed>>
    BY <1>3 DEF Drain, Goto, KeepsCounters, Starting
  <2> QED BY <1>0, <2>1, NoAnswer DEF Starting, Situation
<1>4. ~(SendDivisor \/ Reconfigure \/ SendCount \/ SendHeader \/ SendData \/ SendEntry \/ Await)
  BY DEF Starting, SendDivisor, Reconfigure, SendCount, SendHeader, SendData, SendEntry, Await
<1> QED BY <1>1, <1>2, <1>3, <1>4 DEF Host

LEMMA StartingLine == ASSUME Typed, Starting, Lose \/ Damage PROVE Situation'
<1>1. Lose
  BY DEF Damage, Starting
<1>2. UNCHANGED <<dev, field, dev_speed, host, sent, host_speed>>
  BY <1>1 DEF Lose, host_vars, dev_vars
<1>3. AllSync(to_dev') /\ AllText(to_host')
  BY <1>1, SyncsOnly, AnswerTaken DEF Lose, Starting, Typed
<1> QED BY <1>2, <1>3 DEF Starting, Situation

LEMMA AskedLoader == ASSUME Typed, Asked, Loader PROVE Situation'
<1>0. UNCHANGED <<host, sent, host_speed, divisor>>
  BY DEF Loader, host_vars
<1>1. DevReceive /\ Collect(Head(to_dev), Baud)
  BY DEF Loader, DevReceive, Receive, SwitchSpeed, Speak, Asked
<1>2. to_dev # <<>> /\ to_dev' = Tail(to_dev)
  BY <1>1 DEF DevReceive
<1> DEFINE got == Append(field, Head(to_dev))
<1>3. AllSync(to_dev') /\ Head(to_dev) = SYNC_REQ
  BY <1>2, SyncsOnly DEF Asked, Typed
<1>4. got \in Seq(Byte) /\ AllSync(got) /\ Len(got) = Len(field) + 1
  BY <1>3, SyncsOnly, Sizes, Appending DEF Asked, Typed
<1>5. CASE Len(field) + 1 < WIDTH
  <2>1. field' = got /\ UNCHANGED <<to_host, dev, dev_speed>>
    BY <1>1, <1>5 DEF Collect
  <2> HIDE DEF got
  <2> QED BY <1>0, <1>3, <1>4, <2>1 DEF Asked, Situation
<1>6. CASE ~(Len(field) + 1 < WIDTH)
  <2>1. field' = <<>> /\ Baud(Value(got))
    BY <1>1, <1>6 DEF Collect
  <2> HIDE DEF got
  <2>2. Len(got) >= 1 /\ got[1] = SYNC_REQ
    BY <1>4 DEF AllSync, Typed
  <2>3. Value(got) # 0 /\ Value(got) \notin Divisors
    BY <1>4, <2>2, NoDivisor
  <2>4. dev' = "switch" /\ left' = Value(got) /\ to_host' = to_host \o <<"ACK">> /\ dev_speed' = dev_speed
    BY <2>1, <2>3 DEF Baud, Switches, Answers
  <2>5. SyncIsLate(to_host')
    BY <2>4, AnswersAre DEF Asked, Typed
  <2>6. host = "baud" => Len(to_host)' <= 1
    BY <2>4 DEF Asked
  <2>7. Deaf'
    BY <1>0, <2>3, <2>4, <2>5, <2>6 DEF Deaf, Asked, Typed
  <2> QED BY <2>7 DEF Situation
<1> QED BY <1>5, <1>6

LEMMA DivisorField ==
  ASSUME Typed PROVE Le32(divisor) \in Seq(Byte) /\ Len(Le32(divisor)) = WIDTH /\ WIDTH \in Nat /\ WIDTH >= 1
  BY DivisorIs, FieldIs, Sizes DEF Typed

LEMMA QueuedAfter ==
  ASSUME Typed, AllSync(to_dev) PROVE Queued(to_dev \o Le32(divisor))
<1> DEFINE d == Le32(divisor)
           t == to_dev \o d
<1>1. d \in Seq(Byte) /\ Len(d) = WIDTH /\ WIDTH \in Nat /\ WIDTH >= 1
  BY DivisorField
<1> HIDE DEF d
<1>2. Len(t) = Len(to_dev) + WIDTH /\ Len(to_dev) \in Nat
  BY <1>1, Joining DEF Typed
<1>3. \A k \in 1 .. Len(to_dev) : t[k] = to_dev[k]
  BY <1>1, Joining DEF Typed
<1>4. \A k \in 1 .. WIDTH : t[Len(to_dev) + k] = d[k]
  BY <1>1, Second DEF Typed
<1>5. ASSUME NEW k \in 1 .. Len(t) PROVE t[k] = IF k <= Len(t) - WIDTH THEN SYNC_REQ ELSE d[k - (Len(t) - WIDTH)]
  <2>1. CASE k <= Len(to_dev)
    <3>1. k \in 1 .. Len(to_dev)
      BY <1>2, <2>1
    <3>2. t[k] = SYNC_REQ
      BY <1>3, <3>1 DEF AllSync
    <3> HIDE DEF t
    <3> QED BY <1>1, <1>2, <2>1, <3>2
  <2>2. CASE ~(k <= Len(to_dev))
    <3> DEFINE j == k - Len(to_dev)
    <3>1. j \in 1 .. WIDTH /\ Len(to_dev) + j = k
      BY <1>1, <1>2, <2>2
    <3>2. t[k] = d[j]
      <4> HIDE DEF t, j
      <4> QED BY <1>4, <3>1
    <3> HIDE DEF t
    <3> QED BY <1>1, <1>2, <2>2, <3>2
  <2> QED BY <2>1, <2>2
<1> HIDE DEF t
<1>6. Len(t) >= WIDTH
  BY <1>1, <1>2
<1>7. Queued(t)
  BY <1>5, <1>6 DEF Queued, d
<1> QED BY <1>7 DEF t, d

LEMMA AskedHost == ASSUME Typed, Asked, Host PROVE Situation'
<1>0. UNCHANGED <<dev, field, dev_speed>>
  BY DEF Host, dev_vars
<1>1. CASE SendSync
  <2>1. AllSync(to_dev')
    BY <1>1, SyncsOnly DEF SendSync, Write, Asked, Typed
  <2>2. host' \in {"sync_wait", "failed"} /\ UNCHANGED <<to_host, sent, host_speed>>
    BY <1>1 DEF SendSync, Goto
  <2> QED BY <1>0, <2>1, <2>2 DEF Asked, Situation
<1>2. CASE AwaitSync
  <2>1. to_host # <<>> => (Head(to_host) = "SYNC_ACK" => Tail(to_host) = <<>>)
    BY AnswerTaken DEF Asked, Typed
  <2>2. /\ host' \in {"sync", "baud"} /\ UNCHANGED <<to_dev, sent, host_speed>>
        /\ to_host' = <<>> \/ (to_host' = to_host /\ host' = "sync")
    BY <1>2, <2>1 DEF AwaitSync, Goto, KeepsCounters
  <2> QED BY <1>0, <2>2, NoAnswer DEF Asked, Situation
<1>3. CASE Drain
  <2>1. host' = "sync" /\ to_host' = <<>> /\ UNCHANGED <<to_dev, sent, host_speed>>
    BY <1>3 DEF Drain, Goto, KeepsCounters, Asked
  <2> QED BY <1>0, <2>1, NoAnswer DEF Asked, Situation
<1>4. CASE SendDivisor
  <2>1. host' = "baud_wait" /\ to_dev' = to_dev \o Le32(divisor) /\ UNCHANGED <<to_host, sent, host_speed, divisor>> /\ to_host = <<>>
    BY <1>4 DEF SendDivisor, Goto, Write, KeepsCounters, Asked
  <2>2. Queued(to_dev \o Le32(divisor))
    BY QueuedAfter DEF Asked
  <2>3. Queued(to_dev)'
    BY <2>1, <2>2 DEF Queued
  <2>4. field # <<>> => field[1] = SYNC_REQ
    BY DEF Asked, AllSync, Typed
  <2>5. Offered'
    BY <1>0, <2>1, <2>3, <2>4 DEF Offered, Asked
  <2> QED BY <2>5 DEF Situation
<1>5. ~(Reconfigure \/ SendCount \/ SendHeader \/ SendData \/ SendEntry \/ Await)
  BY DEF Asked, Reconfigure, SendCount, SendHeader, SendData, SendEntry, Await
<1> QED BY <1>1, <1>2, <1>3, <1>4, <1>5 DEF Host

LEMMA AskedLine == ASSUME Typed, Asked, Lose \/ Damage PROVE Situation'
<1>1. Lose
  BY DEF Damage, Asked
<1>2. UNCHANGED <<dev, field, dev_speed, host, sent, host_speed>>
  BY <1>1 DEF Lose, host_vars, dev_vars
<1>3. AllSync(to_dev') /\ TextThenSync(to_host') /\ (host = "baud" => to_host' = <<>>)
  BY <1>1, SyncsOnly, AnswerTaken DEF Lose, Asked, Typed
<1> QED BY <1>2, <1>3 DEF Asked, Situation

\* The loader takes what is not the host's divisor.
LEMMA Misunderstood ==
  ASSUME Typed, NEW got, got \in Seq(Byte), Len(got) >= 1, got[1] = SYNC_REQ, Baud(Value(got)), dev_speed = 0,
         host' \in {"baud_wait", "failed"}, to_host = <<>>, sent' = 1, divisor' = divisor
  PROVE Deaf'
<1>1. Value(got) # 0 /\ Value(got) \notin Divisors
  BY NoDivisor
<1>2. dev' = "switch" /\ left' = Value(got) /\ to_host' = to_host \o <<"ACK">> /\ dev_speed' = dev_speed
  BY <1>1 DEF Baud, Switches, Answers
<1>3. SyncIsLate(to_host') /\ Len(to_host') <= 1
  <2>1. TextThenSync(to_host) /\ to_host \in Seq(Answer)
    BY NoAnswer DEF Typed
  <2>2. SyncIsLate(to_host \o <<"ACK">>)
    BY <2>1, AnswersAre
  <2>3. Len(<<>> \o <<"ACK">>) = 1
    OBVIOUS
  <2> QED BY <1>2, <2>2, <2>3
<1> QED BY <1>1, <1>2, <1>3 DEF Deaf, Typed

LEMMA QueueIsRead ==
  ASSUME Typed, Queued(to_dev)
  PROVE IF Len(to_dev) = WIDTH THEN to_dev = Le32(divisor) ELSE to_dev # <<>> /\ to_dev[1] = SYNC_REQ
<1>1. Le32(divisor) \in Seq(Byte) /\ Len(Le32(divisor)) = WIDTH /\ WIDTH \in Nat /\ WIDTH >= 1
  BY DivisorField
<1>2. CASE Len(to_dev) = WIDTH
  <2>1. ASSUME NEW k \in 1 .. Len(to_dev) PROVE to_dev[k] = Le32(divisor)[k]
    <3>1. ~(k <= Len(to_dev) - WIDTH) /\ k - (Len(to_dev) - WIDTH) = k
      BY <1>1, <1>2
    <3> QED BY <3>1 DEF Queued
  <2>2. to_dev = Le32(divisor)
    BY <1>1, <1>2, <2>1, SameSequence DEF Typed
  <2> QED BY <1>2, <2>2
<1>3. CASE Len(to_dev) # WIDTH
  <2>1. Len(to_dev) \in Nat /\ Len(to_dev) >= WIDTH
    BY DEF Typed, Queued
  <2>2. 1 \in 1 .. Len(to_dev) /\ 1 <= Len(to_dev) - WIDTH
    BY <1>1, <1>3, <2>1
  <2>3. to_dev[1] = SYNC_REQ
    BY <2>2 DEF Queued
  <2>4. to_dev # <<>>
    BY <1>1, <2>1
  <2> QED BY <1>3, <2>3, <2>4
<1> QED BY <1>2, <1>3

LEMMA OfferedLoader == ASSUME Typed, Offered, Loader PROVE Situation'
<1>0. UNCHANGED <<host, sent, host_speed, divisor>>
  BY DEF Loader, host_vars
<1>1. DevReceive /\ Collect(Head(to_dev), Baud)
  BY DEF Loader, DevReceive, Receive, SwitchSpeed, Speak, Offered
<1>2. to_dev # <<>> /\ to_dev' = Tail(to_dev)
  BY <1>1 DEF DevReceive
<1> DEFINE b == Head(to_dev)
           got == Append(field, b)
<1>3. /\ b = to_dev[1] /\ b \in Byte /\ to_dev' \in Seq(Byte)
      /\ Len(to_dev) \in Nat /\ Len(to_dev) >= 1 /\ Len(to_dev') = Len(to_dev) - 1
  BY <1>2, Taking DEF Typed
<1>4. /\ got \in Seq(Byte) /\ Len(got) = Len(field) + 1 /\ Len(field) \in Nat
      /\ field # <<>> => got[1] = field[1]
      /\ field = <<>> => got[1] = b
  BY <1>3, Appending DEF Typed
<1>5. got \o to_dev' = field \o to_dev
  BY <1>2, Shift DEF Typed
<1>6. WIDTH \in Nat /\ WIDTH >= 1 /\ Len(field) < WIDTH
  BY Sizes DEF Typed
<1>7. Len(field) + 1 < WIDTH => field' = got /\ UNCHANGED <<to_host, dev, dev_speed>>
  BY <1>1 DEF Collect
<1>8. ~(Len(field) + 1 < WIDTH) => field' = <<>> /\ Baud(Value(got))
  BY <1>1 DEF Collect
<1> HIDE DEF b, got
<1>9. CASE Len(field) + Len(to_dev) < WIDTH
  <2>1. Len(field) + 1 < WIDTH
    BY <1>3, <1>4, <1>6, <1>9
  <2>2. Len(field)' + Len(to_dev)' < WIDTH
    BY <1>3, <1>4, <1>7, <1>9, <2>1
  <2> QED BY <1>0, <1>7, <2>1, <2>2 DEF Offered, Situation
<1>10. CASE got[1] = SYNC_REQ
  <2>1. CASE Len(field) + 1 < WIDTH
    <3>1. field' # <<>> /\ field'[1] = SYNC_REQ
      BY <1>4, <1>7, <1>10, <2>1
    <3> QED BY <1>0, <1>7, <2>1, <3>1 DEF Offered, Situation
  <2>2. CASE ~(Len(field) + 1 < WIDTH)
    <3>1. dev_speed = 0 /\ host' \in {"baud_wait", "failed"} /\ to_host = <<>> /\ sent' = 1 /\ divisor' = divisor
      BY <1>0 DEF Offered
    <3>2. Len(got) >= 1
      BY <1>4
    <3>3. Deaf'
      BY <1>4, <1>8, <1>10, <2>2, <3>1, <3>2, Misunderstood
    <3> QED BY <3>3 DEF Situation
  <2> QED BY <2>1, <2>2
<1>11. CASE host = "baud_wait" /\ field \o to_dev = Le32(divisor)
  <2>1. CASE Len(field) + 1 < WIDTH
    <3>1. field' \o to_dev' = Le32(divisor)
      BY <1>5, <1>7, <1>11, <2>1
    <3>2. (field \o to_dev = Le32(divisor))'
      BY <1>0, <3>1 DEF Le32
    <3> QED BY <1>0, <1>7, <1>11, <2>1, <3>2 DEF Offered, Situation
  <2>2. CASE ~(Len(field) + 1 < WIDTH)
    <3>1. Le32(divisor) \in Seq(Byte) /\ Len(Le32(divisor)) = WIDTH /\ Le32(divisor) \o <<>> = Le32(divisor)
      BY DivisorField, Nothing
    <3>2. Len(got) = Len(Le32(divisor))
      BY <1>4, <1>6, <2>2, <3>1
    <3>3. got = Le32(divisor) /\ to_dev' = <<>>
      <4>1. got \o to_dev' = Le32(divisor) \o <<>> /\ <<>> \in Seq(Byte)
        BY <1>5, <1>11, <3>1
      <4> QED BY <1>3, <1>4, <3>1, <3>2, <4>1, Split
    <3>4. Value(got) = divisor
      BY <3>3, DivisorIs, ValueOfField DEF Typed
    <3>5. /\ dev' = IF divisor # 0 THEN "switch" ELSE "count"
          /\ left' = divisor /\ dev_speed' = 0 /\ to_host' = <<>> \o <<"ACK">> /\ field' = <<>>
      BY <1>8, <2>2, <3>4 DEF Baud, Switches, Answers, Offered
    <3>6. to_host' = <<"ACK">> /\ host' = "baud_wait" /\ sent' = 1 /\ host_speed' = 0 /\ divisor' = divisor
      BY <1>0, <1>11, <3>5 DEF Offered
    <3>7. to_host' # <<>> /\ to_host'[1] = "ACK" /\ NoAck(Tail(to_host')) /\ Len(to_host') = 1
      BY <3>6, NoAnswer
    <3>8. AfterAck' = IF divisor # 0 THEN "switch" ELSE "count"
      BY <3>6 DEF AfterAck
    <3>9. Sent' = 1
      BY <3>6 DEF Sent
    <3>10. Expects(AfterAck, Sent)'
      BY <3>5, <3>6, <3>8, <3>9 DEF Expects, SameSpeed
    <3>11. Acked'
      BY <3>3, <3>5, <3>6, <3>7, <3>10 DEF Acked
    <3> QED BY <3>11 DEF Situation
  <2> QED BY <2>1, <2>2
<1>12. CASE field # <<>> /\ field[1] = SYNC_REQ
  BY <1>4, <1>10, <1>12
<1>13. CASE host = "baud_wait" /\ field = <<>> /\ Queued(to_dev)
  <2>1. CASE Len(to_dev) = WIDTH
    <3>1. to_dev = Le32(divisor)
      BY <1>13, <2>1, QueueIsRead
    <3>2. field \o to_dev = Le32(divisor)
      BY <1>13, <3>1, Nothing DEF Typed
    <3> QED BY <1>11, <1>13, <3>2
  <2>2. CASE Len(to_dev) # WIDTH
    <3>1. to_dev[1] = SYNC_REQ
      BY <1>13, <2>2, QueueIsRead
    <3> QED BY <1>3, <1>4, <1>10, <1>13, <3>1
  <2> QED BY <2>1, <2>2
<1> QED BY <1>9, <1>11, <1>12, <1>13 DEF Offered

LEMMA OfferedHost == ASSUME Typed, Offered, Host PROVE Situation'
<1>0. UNCHANGED <<dev, field, dev_speed>>
  BY DEF Host, dev_vars
<1>1. host = "baud_wait" /\ Await
  BY DEF Host, Offered, SendSync, AwaitSync, SendDivisor, Reconfigure, SendCount, SendHeader, SendData, SendEntry, Drain, Await
<1>2. Silence /\ host' = "failed" /\ UNCHANGED <<to_host, to_dev, sent, host_speed>>
  BY <1>1 DEF Offered, Await, Goto
<1>3. to_dev = <<>>
  BY <1>1, <1>2 DEF Silence, Halted, Offered
<1>4. Len(field) + Len(to_dev) < WIDTH
  <2>1. Len(to_dev) = 0 /\ Len(field) \in Nat
    BY <1>3 DEF Typed
  <2> QED BY <2>1, Sizes DEF Typed
<1> QED BY <1>0, <1>2, <1>4 DEF Offered, Situation

LEMMA OfferedLine == ASSUME Typed, Offered, Lose \/ Damage PROVE Situation'
<1>1. Lose
  BY DEF Damage, Offered
<1>2. UNCHANGED <<dev, field, dev_speed, host, sent, host_speed, divisor>>
  BY <1>1 DEF Lose, host_vars, dev_vars
<1>3. to_dev # <<>> /\ to_dev' = Tail(to_dev) /\ to_host' = <<>>
  BY <1>1 DEF Lose, Offered
<1>4. Len(to_dev) \in Nat /\ Len(to_dev') = Len(to_dev) - 1 /\ \A k \in 1 .. Len(to_dev) - 1 : to_dev'[k] = to_dev[k + 1]
  BY <1>3, Taking DEF Typed
<1>5. WIDTH \in Nat /\ WIDTH >= 1 /\ Len(field) < WIDTH /\ Len(field) \in Nat
  BY Sizes DEF Typed
<1>6. CASE Len(field) + Len(to_dev) <= WIDTH
  <2>1. Len(field)' + Len(to_dev)' < WIDTH
    BY <1>2, <1>4, <1>5, <1>6
  <2> QED BY <1>2, <1>3, <2>1 DEF Offered, Situation
<1>7. CASE field # <<>> /\ field[1] = SYNC_REQ
  BY <1>2, <1>3, <1>7 DEF Offered, Situation
<1>8. CASE host = "baud_wait" /\ field = <<>> /\ Queued(to_dev)
  <2>1. CASE Len(to_dev) <= WIDTH
    <3>1. Len(field) = 0
      BY <1>8
    <3> QED BY <1>4, <1>5, <1>6, <2>1, <3>1
  <2>2. CASE ~(Len(to_dev) <= WIDTH)
    <3>1. Len(to_dev') >= WIDTH
      BY <1>4, <1>5, <2>2
    <3>2. ASSUME NEW k \in 1 .. Len(to_dev')
          PROVE to_dev'[k] = IF k <= Len(to_dev') - WIDTH THEN SYNC_REQ ELSE Le32(divisor)[k - (Len(to_dev') - WIDTH)]
      <4>1. k + 1 \in 1 .. Len(to_dev) /\ to_dev'[k] = to_dev[k + 1]
        BY <1>4
      <4>2. to_dev[k + 1] = IF k + 1 <= Len(to_dev) - WIDTH THEN SYNC_REQ ELSE Le32(divisor)[(k + 1) - (Len(to_dev) - WIDTH)]
        BY <1>8, <4>1 DEF Queued
      <4>3. k + 1 <= Len(to_dev) - WIDTH <=> k <= Len(to_dev') - WIDTH
        BY <1>4, <1>5
      <4>4. (k + 1) - (Len(to_dev) - WIDTH) = k - (Len(to_dev') - WIDTH)
        BY <1>4, <1>5
      <4> QED BY ONLY <4>1, <4>2, <4>3, <4>4
    <3>3. Queued(to_dev)'
      BY <1>2, <3>1, <3>2 DEF Queued, Le32
    <3> QED BY <1>2, <1>3, <1>8, <3>3 DEF Offered, Situation
  <2> QED BY <2>1, <2>2
<1>9. CASE host = "baud_wait" /\ field \o to_dev = Le32(divisor)
  <2>1. Len(field) + Len(to_dev) = WIDTH
    <3>1. Len(field \o to_dev) = Len(field) + Len(to_dev)
      BY Joining DEF Typed
    <3> QED BY <1>9, <3>1, DivisorField
  <2> QED BY <1>6, <2>1, <1>5
<1>10. CASE Len(field) + Len(to_dev) < WIDTH
  BY <1>4, <1>5, <1>6, <1>10
<1> QED BY <1>7, <1>8, <1>9, <1>10 DEF Offered

LEMMA DeafLoader == ASSUME Typed, Deaf, Loader PROVE Situation'
<1>0. UNCHANGED <<host, sent, host_speed, divisor>>
  BY DEF Loader, host_vars
<1>1. CASE DevReceive
  <2>1. dev = "count" /\ host_speed # dev_speed
    BY <1>1 DEF DevReceive, Receiving, Deaf, Typed
  <2>2. UNCHANGED <<to_host, dev, dev_speed, left>>
    BY <1>1, <2>1 DEF DevReceive, dev_vars
  <2>3. Deaf'
    BY <1>0, <2>2 DEF Deaf
  <2> QED BY <2>3 DEF Situation
<1>2. CASE SwitchSpeed
  <2>1. dev = "switch" /\ host_speed # left
    BY <1>2 DEF SwitchSpeed, Deaf, Typed
  <2>2. dev' = "count" /\ dev_speed' = left /\ to_host' = to_host
    BY <1>2, <2>1 DEF SwitchSpeed
  <2>3. Deaf'
    BY <1>0, <2>1, <2>2 DEF Deaf
  <2> QED BY <2>3 DEF Situation
<1>3. CASE Speak
  BY <1>3 DEF Speak, Deaf
<1> QED BY <1>1, <1>2, <1>3 DEF Loader

LEMMA DeafHost == ASSUME Typed, Deaf, Host PROVE Situation'
<1>0. UNCHANGED <<dev, left, dev_speed>>
  BY DEF Host, dev_vars
<1>1. CASE SendSync
  <2>1. host' \in {"sync_wait", "failed"} /\ UNCHANGED <<to_host, sent, host_speed, divisor>>
    BY <1>1 DEF SendSync, Goto
  <2>2. Deaf'
    BY <1>0, <2>1 DEF Deaf
  <2> QED BY <2>2 DEF Situation
<1>2. CASE AwaitSync
  <2>1. to_host # <<>> => (Head(to_host) = "SYNC_ACK" => Len(Tail(to_host)) <= 1) /\ SyncIsLate(Tail(to_host))
    BY AnswerTaken DEF Deaf, Typed
  <2>2. /\ UNCHANGED <<sent, host_speed, divisor>> /\ SyncIsLate(to_host')
        /\ host' = "sync" \/ (host' = "baud" /\ Len(to_host') <= 1)
    BY <1>2, <2>1, NoAnswer DEF AwaitSync, Goto, KeepsCounters, Deaf
  <2>3. Deaf'
    BY <1>0, <2>2 DEF Deaf
  <2> QED BY <2>3 DEF Situation
<1>3. CASE SendDivisor \/ SendCount
  <2>1. /\ UNCHANGED <<to_host, sent, host_speed, divisor>>
        /\ (host = "baud" /\ host' = "baud_wait") \/ (host = "count" /\ host' = "count_wait")
    BY <1>3 DEF SendDivisor, SendCount, Goto, KeepsCounters
  <2>2. Deaf'
    BY <1>0, <2>1 DEF Deaf
  <2> QED BY <2>2 DEF Situation
<1>4. CASE Reconfigure \/ Drain
  <2>1. /\ UNCHANGED <<sent, divisor>> /\ to_host' = <<>>
        /\ host' = "ready_wait" \/ host' = "sync"
    BY <1>4 DEF Reconfigure, Drain, Goto, KeepsCounters, Deaf
  <2>2. Deaf'
    BY <1>0, <2>1, NoAnswer DEF Deaf
  <2> QED BY <2>2 DEF Situation
<1>5. CASE Await
  <2>1. CASE to_host = <<>>
    <3>1. host' = "failed" /\ UNCHANGED <<to_host, sent, divisor>>
      BY <1>5, <2>1 DEF Await, Goto
    <3>2. Deaf'
      BY <1>0, <3>1 DEF Deaf
    <3> QED BY <3>2 DEF Situation
  <2>2. CASE to_host # <<>>
    <3>1. host = "baud_wait" /\ Len(to_host) <= 1
      BY <1>5, <2>2 DEF Await, Deaf
    <3>2. Tail(to_host) = <<>>
      <4>1. Tail(to_host) \in Seq(Answer) /\ Len(Tail(to_host)) = Len(to_host) - 1 /\ Len(to_host) \in Nat /\ Len(to_host) >= 1
        BY <2>2, Taking DEF Typed
      <4>2. Len(Tail(to_host)) = 0
        BY <3>1, <4>1
      <4> QED BY <4>1, <4>2, Nothing
    <3>3. host' \in {"switch", "count", "failed"} /\ to_host' = <<>> /\ UNCHANGED <<sent, divisor>>
      BY <1>5, <2>2, <3>1, <3>2 DEF Await, Goto, AfterAck
    <3>4. Deaf'
      BY <1>0, <3>3, NoAnswer DEF Deaf
    <3> QED BY <3>4 DEF Situation
  <2> QED BY <2>1, <2>2
<1>6. ~(SendHeader \/ SendData \/ SendEntry)
  BY DEF Deaf, SendHeader, SendData, SendEntry
<1> QED BY <1>1, <1>2, <1>3, <1>4, <1>5, <1>6 DEF Host

LEMMA DeafLine == ASSUME Typed, Deaf, Lose \/ Damage PROVE Situation'
<1>1. Lose
  BY DEF Damage, Deaf
<1>2. UNCHANGED <<dev, dev_speed, left, host, sent, divisor>>
  BY <1>1 DEF Lose, host_vars, dev_vars
<1>3. to_host' = to_host \/ (to_host # <<>> /\ to_host' = Tail(to_host))
  BY <1>1 DEF Lose
<1>4. to_host # <<>> => SyncIsLate(Tail(to_host)) /\ Len(Tail(to_host)) = Len(to_host) - 1 /\ Len(to_host) \in Nat
  BY AnswerTaken, Taking DEF Deaf, Typed
<1>5. SyncIsLate(to_host')
  BY <1>3, <1>4 DEF Deaf
<1>6. host \in {"baud", "baud_wait"} => Len(to_host') <= 1
  BY <1>3, <1>4 DEF Deaf
<1>7. host \in {"switch", "ready_wait", "count", "count_wait"} => to_host' = <<>>
  BY <1>3 DEF Deaf
<1>8. Deaf'
  BY <1>2, <1>5, <1>6, <1>7 DEF Deaf
<1> QED BY <1>8 DEF Situation

LEMMA SwitchedLoader == ASSUME Typed, Switched, Loader PROVE Situation'
<1>0. UNCHANGED <<host, sent, host_speed, divisor>>
  BY DEF Loader, host_vars
<1>1. SwitchSpeed
  BY DEF Loader, DevReceive, Speak, Switched
<1>2. dev' = "count" /\ dev_speed' = left /\ to_host' = Append(<<>>, "ACK") /\ UNCHANGED <<to_dev, field>>
  BY <1>1 DEF SwitchSpeed, Switched
<1>3. to_host' = <<"ACK">>
  BY <1>2
<1>4. to_host' # <<>> /\ to_host'[1] = "ACK" /\ NoAck(Tail(to_host')) /\ Len(to_host') = 1
  BY <1>3, NoAnswer
<1>5. host' = "ready_wait" /\ sent' = 1 /\ host_speed' = divisor /\ dev_speed' = divisor /\ to_dev' = <<>> /\ field' = <<>>
  BY <1>0, <1>2 DEF Switched
<1>6. AfterAck' = "count" /\ Sent' = 1
  BY <1>5 DEF AfterAck, Sent
<1>7. Expects(AfterAck, Sent)'
  BY <1>2, <1>5, <1>6 DEF Expects, SameSpeed
<1>8. Acked'
  BY <1>4, <1>5, <1>7 DEF Acked
<1> QED BY <1>8 DEF Situation

LEMMA SwitchedElse == ASSUME Typed, Switched PROVE ~Host /\ ~Lose /\ ~Damage
<1>1. ~Await
  BY DEF Switched, Await, Silence, Quiet, Receiving, Halted
<1>2. ~Host
  BY <1>1 DEF Switched, Host, SendSync, AwaitSync, SendDivisor, Reconfigure, SendCount, SendHeader, SendData, SendEntry, Drain
<1>3. ~Lose /\ ~Damage
  BY DEF Switched, Lose, Damage
<1> QED BY <1>2, <1>3

(* ----------------------------------------------------------------------- *)
(* The host's turn                                                          *)
(* ----------------------------------------------------------------------- *)

LEMMA KeptStays == ASSUME NEW n, NEW m, Kept(n, m), UNCHANGED <<mem, damaged>> PROVE Kept(n, m)'
  BY DEF Kept, Images

LEMMA ExpectsStays ==
  ASSUME NEW pc, NEW s, Expects(pc, s),
         UNCHANGED <<dev, seg_count, seg, base, left, checksum, mem, dev_speed, host_speed, divisor, damaged>>
  PROVE Expects(pc, s)'
<1>1. CASE pc \in {"count_drain", "header"} /\ AtBase(s)
  <2>1. Kept(s - 1, s - 1)'
    BY <1>1, KeptStays DEF AtBase
  <2> QED BY <1>1, <2>1 DEF Expects, AtBase, AtSegment, SameSpeed
<1>2. CASE pc \in {"header_drain", "data"} /\ AtData(s)
  <2>1. Kept(s - 1, s)'
    BY <1>2, KeptStays DEF AtData
  <2> QED BY <1>2, <2>1 DEF Expects, AtData, AtSegment, SameSpeed
<1>3. CASE pc = "entry" /\ AtEntry
  <2>1. Kept(N, N)'
    BY <1>3, KeptStays DEF AtEntry
  <2> QED BY <1>3, <2>1 DEF Expects, AtEntry, SameSpeed
<1>4. CASE pc \in {"switch", "count"}
  BY <1>4 DEF Expects, SameSpeed
<1> QED BY <1>1, <1>2, <1>3, <1>4 DEF Expects

\* The loader switches before the host.
LEMMA ExpectsSwitched ==
  ASSUME Typed, NEW pc, NEW s, Expects(pc, s), SwitchSpeed, host_speed' = host_speed, divisor' = divisor
  PROVE Expects(pc, s)' /\ to_host' = to_host
<1>1. pc = "switch" /\ divisor # 0 /\ host_speed = 0 /\ s = 1 /\ left = divisor
  BY DEF Expects, SwitchSpeed, AtBase, AtData, AtEntry
<1>2. dev' = "count" /\ dev_speed' = divisor /\ to_host' = to_host
  BY <1>1 DEF SwitchSpeed
<1> QED BY <1>1, <1>2 DEF Expects

LEMMA TurnLoader == ASSUME Typed, Turn, Loader PROVE Situation'
<1>0. UNCHANGED <<host, sent, host_speed, divisor, damaged>>
  BY DEF Loader, host_vars, faults
<1>1. SwitchSpeed
  <2>1. ~Speak
    BY DEF Speak, Turn, Expects, AtBase, AtData, AtEntry
  <2> QED BY <2>1 DEF Loader, DevReceive, Turn
<1>2. PICK pc, s : pc = host /\ s = sent
  OBVIOUS
<1>3. Expects(pc, s)' /\ to_host' = to_host
  BY <1>0, <1>1, <1>2, ExpectsSwitched DEF Turn
<1>4. UNCHANGED <<to_dev, field>>
  BY <1>1 DEF SwitchSpeed
<1>5. Expects(host, sent)'
  BY <1>0, <1>2, <1>3
<1> QED BY <1>0, <1>3, <1>4, <1>5 DEF Turn, Situation

LEMMA Modulus == Power[WIDTH] \in Nat /\ Power[WIDTH] > 0
<1>1. WIDTH \in Nat
  BY Sizes
<1>2. Power[WIDTH] \in Nat
  BY <1>1, PowerIs
<1>3. Power[WIDTH] >= 1
  BY <1>1, PowerAtLeast
<1> QED BY <1>2, <1>3

LEMMA SequenceIs == ASSUME NEW S, NEW t \in Seq(S) PROVE t \in [1 .. Len(t) -> S]
  OBVIOUS

LEMMA BodyIs ==
  ASSUME NEW s, s \in 1 .. N
  PROVE /\ Body(s) \in Seq(Byte) /\ Len(Body(s)) = Len(Segments[s].data) + WIDTH /\ Body(s) \in [1 .. Len(Body(s)) -> Byte]
        /\ Len(Segments[s].data) \in Nat /\ WIDTH \in Nat /\ WIDTH >= 1
        /\ \A k \in 1 .. Len(Segments[s].data) : Body(s)[k] = Segments[s].data[k]
        /\ \A k \in 1 .. WIDTH : Body(s)[Len(Segments[s].data) + k] = Le32(Sum(Segments[s].data))[k]
<1> DEFINE x == Segments[s].data
           y == Le32(Sum(x))
           z == x \o y
<1>1. x \in Seq(Byte)
  BY SegmentIs
<1>2. y \in Seq(Byte) /\ Len(y) = WIDTH
  BY <1>1, SumIs, Words, FieldIs
<1>3. Body(s) = z
  BY DEF Body
<1> HIDE DEF x, y
<1>4. z \in Seq(Byte) /\ Len(z) = Len(x) + Len(y) /\ Len(x) \in Nat
  BY <1>1, <1>2, Joining
<1>5. z \in [1 .. Len(z) -> Byte]
  <2> HIDE DEF z
  <2> QED BY <1>4, SequenceIs
<1>6. \A k \in 1 .. Len(x) : z[k] = x[k]
  BY <1>1, <1>2, Joining
<1>7. \A k \in 1 .. Len(y) : z[Len(x) + k] = y[k]
  BY <1>1, <1>2, Second
<1> HIDE DEF z
<1>8. /\ z \in Seq(Byte) /\ Len(z) = Len(x) + WIDTH /\ z \in [1 .. Len(z) -> Byte]
      /\ \A k \in 1 .. WIDTH : z[Len(x) + k] = y[k]
  BY <1>2, <1>4, <1>5, <1>7
<1> QED BY <1>3, <1>4, <1>6, <1>8, Sizes DEF x, y

LEMMA TurnHost == ASSUME Typed, Turn, Host PROVE Situation'
<1>0. UNCHANGED <<dev, field, seg_count, seg, base, left, checksum, entry, mem, dev_speed, damaged>>
  BY DEF Host, dev_vars
<1>1. CASE Reconfigure
  <2>1. /\ host = "switch" /\ host' = "ready_wait" /\ host_speed' = divisor /\ to_host' = <<>>
        /\ UNCHANGED <<to_dev, sent, divisor>>
    BY <1>1 DEF Reconfigure, Goto
  <2>2. /\ divisor # 0 /\ host_speed = 0 /\ sent = 1 /\ to_dev = <<>> /\ field = <<>>
        /\ (dev = "switch" /\ left = divisor) \/ (dev = "count" /\ dev_speed = divisor)
    BY <2>1 DEF Turn, Expects
  <2>3. CASE dev = "switch" /\ left = divisor
    BY <1>0, <2>1, <2>2, <2>3 DEF Switched, Situation
  <2>4. CASE dev = "count" /\ dev_speed = divisor
    <3>1. Lost'
      BY <1>0, <2>1, <2>2, <2>4, NoAnswer DEF Lost, Waits, Short
    <3> QED BY <3>1 DEF Situation
  <2> QED BY <2>2, <2>3, <2>4
<1>2. CASE SendCount
  <2>1. /\ host = "count" /\ host' = "count_wait" /\ to_dev' = <<>> \o <<N>> /\ to_host' = <<>>
        /\ UNCHANGED <<sent, divisor, host_speed>>
    BY <1>2 DEF SendCount, Goto, Write, KeepsCounters, Turn, N
  <2>2. to_dev' = <<N>>
    BY <2>1
  <2>3. UnderWay'
    BY <1>0, <2>1, <2>2 DEF UnderWay, Counting, Turn, Expects, SameSpeed
  <2> QED BY <2>3 DEF Situation
<1>3. CASE SendHeader
  <2> DEFINE x == Le32(Segments[sent].base)
             y == Le32(Len(Segments[sent].data))
  <2>1. /\ host = "header" /\ host' = "header_wait" /\ to_dev' = to_dev \o (x \o y) /\ to_host' = <<>>
        /\ UNCHANGED <<sent, divisor, host_speed>>
    BY <1>3 DEF SendHeader, Goto, Write, KeepsCounters, Turn
  <2>2. AtBase(sent) /\ to_dev = <<>> /\ field = <<>>
    BY <2>1 DEF Turn, Expects
  <2>3. x \in Seq(Byte) /\ y \in Seq(Byte)
    BY <2>2, SegmentIs, FieldIs DEF AtBase, AtSegment
  <2>4. field' \o to_dev' = x \o y
    <3> DEFINE z == x \o y
    <3>1. z \in Seq(Byte)
      <4> HIDE DEF x, y
      <4> QED BY <2>3, Joining
    <3> HIDE DEF x, y, z
    <3>2. <<>> \o (<<>> \o z) = z
      BY <3>1, Nothing
    <3> QED BY <1>0, <2>1, <2>2, <3>2 DEF z
  <2>5. Kept(sent - 1, sent - 1)'
    <3>1. PICK n : n = sent - 1
      OBVIOUS
    <3>2. Kept(n, n)'
      BY <1>0, <2>2, <3>1, KeptStays DEF AtBase
    <3> QED BY <2>1, <3>1, <3>2
  <2>6. Heading'
    <3>1. x' = x /\ y' = y
      BY <2>1
    <3> HIDE DEF x, y
    <3>2. (field \o to_dev)' = x' \o y'
      BY <2>4, <3>1
    <3>3. AtSegment(sent)' /\ dev' = "base"
      BY <1>0, <2>1, <2>2 DEF AtBase, AtSegment, SameSpeed
    <3> QED BY <2>1, <2>5, <3>2, <3>3 DEF Heading, x, y
  <2> QED BY <2>1, <2>6 DEF UnderWay, Situation
<1>4. CASE SendData
  <2>1. /\ host = "data" /\ host' = "sum_wait" /\ to_dev' = to_dev \o Body(sent) /\ to_host' = <<>>
        /\ UNCHANGED <<sent, divisor, host_speed>>
    BY <1>4 DEF SendData, Goto, Write, KeepsCounters, Turn, Body
  <2>2. AtData(sent) /\ to_dev = <<>> /\ field = <<>>
    BY <2>1 DEF Turn, Expects
  <2>3. PICK s, x : s = sent /\ x = Body(sent)
    OBVIOUS
  <2>4. s \in 1 .. N
    BY <2>2, <2>3 DEF AtData, AtSegment
  <2>5. /\ x \in Seq(Byte) /\ x \in [1 .. Len(x) -> Byte] /\ Len(x) = Len(Segments[s].data) + WIDTH
        /\ Len(Segments[s].data) \in Nat /\ WIDTH \in Nat /\ \A i \in 1 .. Len(x) : x[i] \in Int /\ Len(x) \in Nat
    <3>1. x = Body(s)
      BY <2>3
    <3>2. \A i \in 1 .. Len(x) : x[i] \in Byte
      BY <2>4, <3>1, BodyIs
    <3> QED BY <2>4, <3>1, <3>2, BodyIs, Sizes
  <2>6. to_dev' = x
    BY <2>1, <2>2, <2>3, <2>5, Nothing
  <2>7. /\ dev' = "data" /\ field' = <<>> /\ left' = Len(Segments[s].data) /\ left' >= 1
        /\ base' = Segments[s].base /\ checksum' = 0
    BY <1>0, <2>2, <2>3 DEF AtData
  <2>8. checksum' = Sums(x)[0] % Power[WIDTH]
    <3>1. Sums(x)[0] = 0
      BY <2>5, SumsAre
    <3>2. Power[WIDTH] \in Nat /\ Power[WIDTH] > 0
      BY Modulus
    <3> QED BY <2>7, <3>1, <3>2
  <2>9. Reading(x, s, 0)'
    <3>1. Len(Body(s)) = Len(x) /\ Segments[s].base \in Nat
      BY <2>3, <2>4, SegmentIs
    <3>2. Len(to_dev') = Len(Body(s)) - 0 /\ \A k \in 1 .. Len(to_dev') : to_dev'[k] = x[0 + k]
      BY <2>5, <2>6, <3>1
    <3>3. Len(field') <= 0 /\ \A k \in 1 .. Len(field') : field'[k] = x[0 - Len(field') + k]
      BY <2>7
    <3>4. base' = Segments[s].base + 0 - Len(field')
      BY <2>7, <3>1
    <3>5. 0 \in 0 .. Len(Segments[s].data) - 1 /\ left' = Len(Segments[s].data) - 0
      BY <2>5, <2>7
    <3>6. \A a \in Segments[s].base .. base' - 1 : a \in DOMAIN mem' /\ mem'[a] = x[a - Segments[s].base + 1]
      BY <2>7, <3>1
    <3> QED BY <2>7, <2>8, <3>2, <3>3, <3>4, <3>5, <3>6 DEF Reading
  <2>10. Comes(x, Body(s))'
    <3>1. \A k \in 1 .. Len(Body(s)) : x[k] = Body(s)[k]
      BY <2>3
    <3> QED BY <3>1 DEF Comes
  <2>11. Kept(s - 1, s)'
    BY <1>0, <2>2, <2>3, KeptStays DEF AtData
  <2>12. Storing'
    <3>1. AtSegment(sent)' /\ sent' = s /\ Kept(sent - 1, sent)'
      BY <1>0, <2>1, <2>2, <2>3, <2>11 DEF AtData, AtSegment, SameSpeed
    <3>2. x \in [1 .. Len(Body(s)) -> Byte]
      BY <2>3, <2>5
    <3>3. \E y \in [1 .. Len(Body(s)) -> Byte] : Comes(y, Body(s))' /\ (Summing(y, s)' \/ \E n \in Nat : Reading(y, s, n)')
      <4>1. 0 \in Nat
        OBVIOUS
      <4> QED BY <2>9, <2>10, <3>2, <4>1
    <3>4. \E y \in [1 .. Len(Body(sent')) -> Byte] : Comes(y, Body(sent))' /\ (Summing(y, sent)' \/ \E n \in Nat : Reading(y, sent, n)')
      BY <3>1, <3>3
    <3> QED BY <2>1, <3>1, <3>4 DEF Storing
  <2> QED BY <2>1, <2>12 DEF UnderWay, Situation
<1>5. CASE SendEntry
  <2>1. /\ host = "entry" /\ host' = "entry_wait" /\ to_dev' = to_dev \o Le32(Entry) /\ to_host' = <<>>
        /\ UNCHANGED <<sent, divisor, host_speed>>
    BY <1>5 DEF SendEntry, Goto, Write, KeepsCounters, Turn
  <2>2. AtEntry /\ to_dev = <<>> /\ field = <<>>
    BY <2>1 DEF Turn, Expects
  <2>3. Le32(Entry) \in Seq(Byte)
    BY EntryIs, FieldIs
  <2>4. <<>> \o (<<>> \o Le32(Entry)) = Le32(Entry)
    BY <2>3, Nothing
  <2>5. field' \o to_dev' = Le32(Entry)
    BY <1>0, <2>1, <2>2, <2>4
  <2>6. Kept(N, N)'
    BY <1>0, <2>2, KeptStays DEF AtEntry
  <2>7. Entering'
    BY <1>0, <2>1, <2>2, <2>5, <2>6 DEF Entering, AtEntry, SameSpeed
  <2> QED BY <2>1, <2>7 DEF UnderWay, Situation
<1>6. CASE Drain
  <2>1. PICK pc, s : pc = host /\ s = sent
    OBVIOUS
  <2>2. /\ (pc = "count_drain" /\ host' = "header") \/ (pc = "header_drain" /\ host' = "data")
        /\ to_host' = <<>> /\ UNCHANGED <<to_dev, sent, divisor, host_speed>>
    BY <1>6, <2>1 DEF Drain, Goto, KeepsCounters, Turn
  <2>3. Expects(pc, s)'
    BY <1>0, <2>1, <2>2, ExpectsStays DEF Turn
  <2>5. Expects(host, sent)'
    BY <2>1, <2>2, <2>3 DEF Expects
  <2> QED BY <1>0, <2>2, <2>5 DEF Turn, Situation
<1>7. ~(SendSync \/ AwaitSync \/ SendDivisor \/ Await)
  BY DEF Turn, SendSync, AwaitSync, SendDivisor, Await
<1> QED BY <1>1, <1>2, <1>3, <1>4, <1>5, <1>6, <1>7 DEF Host

LEMMA TurnLine == ASSUME Typed, Turn, Lose \/ Damage PROVE Situation'
<1>1. Lose
  BY DEF Damage, Turn
<1>2. /\ UNCHANGED <<to_dev, field, dev, seg_count, seg, base, left, checksum, mem, dev_speed>>
      /\ UNCHANGED <<host, sent, host_speed, divisor, damaged>>
      /\ to_host # <<>>
  BY <1>1 DEF Lose, host_vars, dev_vars, Turn
<1>3. PICK pc, s : pc = host /\ s = sent
  OBVIOUS
<1>4. Expects(pc, s)'
  BY <1>2, <1>3, ExpectsStays DEF Turn
<1>5. Expects(host, sent)'
  BY <1>2, <1>3, <1>4
<1> QED BY <1>2, <1>5 DEF Turn, Situation

LEMMA AckedLoader == ASSUME Typed, Acked, Loader PROVE Situation'
<1>0. UNCHANGED <<host, sent, host_speed, divisor, damaged>>
  BY DEF Loader, host_vars, faults
<1>1. SwitchSpeed
  <2>1. ~Speak
    BY DEF Speak, Acked, Expects, AtBase, AtData, AtEntry
  <2> QED BY <2>1 DEF Loader, DevReceive, Acked
<1>2. PICK pc, s : pc = AfterAck /\ s = Sent
  OBVIOUS
<1>3. Expects(pc, s)' /\ to_host' = to_host
  BY <1>0, <1>1, <1>2, ExpectsSwitched DEF Acked
<1>4. UNCHANGED <<to_dev, field>>
  BY <1>1 DEF SwitchSpeed
<1>5. AfterAck' = pc /\ Sent' = s
  BY <1>0, <1>2 DEF AfterAck, Sent
<1>6. Expects(AfterAck, Sent)'
  BY <1>3, <1>5
<1> QED BY <1>0, <1>3, <1>4, <1>6 DEF Acked, Situation

LEMMA AckedHost == ASSUME Typed, Acked, Host PROVE Situation'
<1>0. UNCHANGED <<dev, field, seg_count, seg, base, left, checksum, entry, mem, dev_speed, damaged>>
  BY DEF Host, dev_vars
<1>1. Await
  BY DEF Host, Acked, SendSync, AwaitSync, SendDivisor, Reconfigure, SendCount, SendHeader, SendData, SendEntry, Drain
<1>2. to_host # <<>> /\ Head(to_host) = "ACK" /\ Tail(to_host) \in Seq(Answer) /\ Len(Tail(to_host)) = Len(to_host) - 1
  BY Taking DEF Acked, Typed
<1>3. /\ host' = AfterAck /\ sent' = Sent /\ to_host' = Tail(to_host)
      /\ UNCHANGED <<to_dev, divisor, host_speed>>
  BY <1>1, <1>2 DEF Await, Accepted, Goto, Sent, N
<1>4. PICK pc, s : pc = AfterAck /\ s = Sent
  OBVIOUS
<1>5. Expects(pc, s)'
  BY <1>0, <1>3, <1>4, ExpectsStays DEF Acked
<1>6. Expects(host, sent)'
  BY <1>3, <1>4, <1>5
<1>7. host' \in {"switch", "count", "count_drain", "header", "header_drain", "entry"}
  BY <1>3 DEF Acked, AfterAck
<1>8. host' \notin {"count_drain", "header_drain"} => to_host' = <<>>
  <2>1. host' \notin {"count_drain", "header_drain"} => host \notin {"count_wait", "header_wait"}
    BY <1>3 DEF Acked, AfterAck
  <2>2. host \notin {"count_wait", "header_wait"} => Len(Tail(to_host)) = 0
    BY <1>2 DEF Acked
  <2>3. Len(Tail(to_host)) = 0 => Tail(to_host) = <<>>
    BY <1>2, Nothing
  <2> QED BY <1>3, <2>1, <2>2, <2>3
<1>9. Turn'
  BY <1>0, <1>3, <1>6, <1>7, <1>8 DEF Turn, Acked
<1> QED BY <1>9 DEF Situation

LEMMA AckedLine == ASSUME Typed, Acked, Lose \/ Damage PROVE Situation'
<1>1. Lose
  BY DEF Damage, Acked
<1>2. /\ UNCHANGED <<to_dev, field, dev, left, host, host_speed>>
      /\ to_host' = Tail(to_host)
  BY <1>1 DEF Lose, host_vars, dev_vars, Acked
<1>3. to_dev = <<>> /\ field = <<>> /\ Len(to_dev) = 0 /\ Len(field) = 0 /\ WIDTH \in Nat /\ WIDTH >= 1
  BY Sizes DEF Acked
<1>4. NoAck(to_host')
  BY <1>2 DEF Acked
<1>5. Expects(AfterAck, Sent)
  BY DEF Acked
<1>6. dev \in {"switch", "count", "base", "data", "entry"}
  BY <1>5 DEF Expects, AtBase, AtData, AtEntry
<1>7. dev = "data" => left \in Nat /\ left >= 1
  <2>1. dev = "data" => AtData(Sent)
    BY <1>5 DEF Expects, AtBase, AtEntry
  <2> QED BY <2>1, SegmentIs DEF AtData, AtSegment
<1>8. Short'
  BY <1>2, <1>3, <1>6, <1>7 DEF Short
<1>9. dev = "switch" => host_speed # left
  BY <1>5 DEF Expects, AtBase, AtData, AtEntry
<1>10. host = "header_wait" => dev = "data"
  BY <1>5 DEF Expects, AfterAck, AtData
<1>11. host = "sum_wait" => dev \in {"base", "entry"}
  BY <1>5 DEF Expects, AfterAck, AtBase, AtEntry
<1>12. host \in Waits /\ host # "entry_wait"
  BY DEF Acked, Waits
<1>13. Lost'
  BY <1>2, <1>3, <1>4, <1>7, <1>8, <1>9, <1>10, <1>11, <1>12 DEF Lost
<1> QED BY <1>13 DEF Situation

(* ----------------------------------------------------------------------- *)
(* A part is on its way                                                     *)
(* ----------------------------------------------------------------------- *)

\* The last byte of a field.
LEMMA Filled ==
  ASSUME NEW f \in Seq(Byte), NEW t \in Seq(Byte), t # <<>>, NEW x \in Seq(Byte), NEW y \in Seq(Byte),
         f \o t = x \o y, Len(f) < Len(x), ~(Len(f) + 1 < Len(x))
  PROVE Append(f, Head(t)) = x /\ Tail(t) = y
<1> DEFINE g == Append(f, Head(t))
           h == Tail(t)
<1>1. Head(t) \in Byte /\ h \in Seq(Byte)
  BY Taking
<1>2. g \in Seq(Byte) /\ Len(g) = Len(f) + 1
  BY <1>1, Appending
<1>3. g \o h = x \o y
  BY Shift
<1>4. Len(g) = Len(x)
  BY <1>2
<1> HIDE DEF g, h
<1>5. g = x /\ h = y
  BY <1>1, <1>2, <1>3, <1>4, Split
<1> QED BY <1>5 DEF g, h

LEMMA FilledWord ==
  ASSUME NEW f \in Seq(Byte), NEW t \in Seq(Byte), t # <<>>, NEW x \in Seq(Byte),
         f \o t = x, Len(f) < Len(x), ~(Len(f) + 1 < Len(x))
  PROVE Append(f, Head(t)) = x /\ Tail(t) = <<>>
<1>1. x = x \o <<>> /\ <<>> \in Seq(Byte)
  BY Nothing
<1>2. f \o t = x \o <<>>
  BY <1>1
<1> QED BY <1>1, <1>2, Filled

\* Only the loader's turn at the byte: it hears the host.
LEMMA Hears ==
  ASSUME UnderWay, Loader
  PROVE /\ to_dev # <<>> /\ to_dev' = Tail(to_dev) /\ Receive(Head(to_dev)) /\ to_host = <<>>
        /\ UNCHANGED <<host, sent, host_speed, divisor, damaged>>
<1>1. dev \in {"count", "base", "size", "data", "sum", "entry"} /\ SameSpeed
  BY DEF UnderWay, Counting, Heading, Storing, Reading, Summing, Entering, AtSegment, AtEntry
<1>2. DevReceive
  BY <1>1 DEF Loader, SwitchSpeed, Speak
<1> QED BY <1>1, <1>2 DEF DevReceive, SameSpeed, Loader, host_vars, faults, UnderWay

LEMMA Said ==
  /\ <<>> \o <<"ACK", "TEXT">> = <<"ACK", "TEXT">> /\ <<>> \o <<"NAK", "TEXT">> = <<"NAK", "TEXT">> /\ <<>> \o <<"ACK">> = <<"ACK">>
  /\ NoAck(Tail(<<"ACK", "TEXT">>)) /\ NoAck(<<"NAK", "TEXT">>) /\ NoAck(Tail(<<"ACK">>))
  BY DEF NoAck

\* It says NAK and stops.
LEMMA Failing ==
  ASSUME to_host = <<>>, Fail, UNCHANGED host, host \in Waits \ {"entry_wait"} PROVE Lost'
<1>1. dev' = "hung" /\ to_host' = <<"NAK", "TEXT">>
  BY Said DEF Fail, Answers
<1>2. NoAck(to_host')
  BY <1>1, Said
<1> QED BY <1>1, <1>2 DEF Lost, Waits

LEMMA CountingLoader == ASSUME Typed, UnderWay, Counting, Loader PROVE Situation'
<1>0. /\ to_dev # <<>> /\ to_dev' = Tail(to_dev) /\ Receive(Head(to_dev)) /\ to_host = <<>>
      /\ UNCHANGED <<host, sent, host_speed, divisor, damaged>>
  BY Hears
<1>1. /\ host = "count_wait" /\ dev = "count" /\ to_dev = <<N>> /\ field = <<>> /\ host_speed = dev_speed /\ sent = 1
  BY DEF Counting, SameSpeed
<1>2. to_dev' = <<>> /\ Count(N)
  BY <1>0, <1>1 DEF Receive
<1>3. CASE BadCount(N)
  <2>1. Lost'
    BY <1>0, <1>1, <1>2, <1>3, Failing DEF Count, Waits
  <2> QED BY <2>1 DEF Situation
<1>4. CASE ~BadCount(N)
  <2>1. /\ dev' = "base" /\ seg_count' = N /\ seg' = 1 /\ to_host' = <<"ACK", "TEXT">>
        /\ UNCHANGED <<field, dev_speed>>
    BY <1>0, <1>2, <1>4, Said DEF Count, Answers
  <2>2. 1 \in 1 .. N
    BY <1>4, EntryIs DEF BadCount
  <2>3. Kept(0, 0)'
    BY DEF Kept, Images
  <2>4. AtBase(1)'
    BY <1>0, <1>1, <2>1, <2>2, <2>3 DEF AtBase, AtSegment, SameSpeed
  <2>5. AfterAck' = "count_drain" /\ Sent' = 1
    BY <1>0, <1>1 DEF AfterAck, Sent
  <2>6. Expects(AfterAck, Sent)'
    BY <2>4, <2>5 DEF Expects
  <2>7. to_host' # <<>> /\ to_host'[1] = "ACK" /\ NoAck(Tail(to_host'))
    BY <2>1, Said
  <2>8. Acked'
    BY <1>0, <1>1, <1>2, <2>1, <2>6, <2>7 DEF Acked
  <2> QED BY <2>8 DEF Situation
<1> QED BY <1>3, <1>4

LEMMA HeadingLoader == ASSUME Typed, UnderWay, Heading, Loader PROVE Situation'
<1>0. /\ to_dev # <<>> /\ to_dev' = Tail(to_dev) /\ Receive(Head(to_dev)) /\ to_host = <<>>
      /\ UNCHANGED <<host, sent, host_speed, divisor, damaged>>
  BY Hears
<1>1. PICK s : s = sent
  OBVIOUS
<1> DEFINE x == Le32(Segments[s].base)
           y == Le32(Len(Segments[s].data))
           got == Append(field, Head(to_dev))
<1>2. host = "header_wait" /\ AtSegment(s) /\ Kept(s - 1, s - 1) /\ s \in 1 .. N
  BY <1>1 DEF Heading, AtSegment
<1>3. /\ x \in Seq(Byte) /\ y \in Seq(Byte) /\ Len(x) = WIDTH /\ Len(y) = WIDTH
      /\ Value(x) = Segments[s].base /\ Value(y) = Len(Segments[s].data) /\ Len(Segments[s].data) \in Nat
  <2>1. Segments[s].base \in U32 /\ Segments[s].base \in Nat /\ Len(Segments[s].data) \in U32 /\ Len(Segments[s].data) \in Nat
    BY <1>2, SegmentIs
  <2> QED BY <2>1, FieldIs, ValueOfField
<1>4. /\ field \in Seq(Byte) /\ to_dev \in Seq(Byte) /\ Len(field) < WIDTH /\ Len(field) \in Nat
      /\ WIDTH \in Nat /\ WIDTH >= 1
  BY Sizes DEF Typed
<1>5. got \o Tail(to_dev) = field \o to_dev
  BY <1>0, <1>4, Shift
<1>6. \/ dev = "base" /\ field \o to_dev = x \o y
      \/ dev = "size" /\ field \o to_dev = y /\ base = Segments[s].base
  BY <1>1 DEF Heading
<1>7. /\ UNCHANGED mem => Kept(s - 1, s - 1)'
      /\ UNCHANGED <<seg, seg_count, dev_speed>> => AtSegment(s)'
  <2>1. UNCHANGED mem => Kept(s - 1, s - 1)'
    <3>1. PICK n : n = s - 1
      OBVIOUS
    <3>2. UNCHANGED mem => Kept(n, n)'
      BY <1>0, <1>2, <3>1, KeptStays
    <3> QED BY <3>1, <3>2
  <2> QED BY <1>0, <1>2, <2>1 DEF AtSegment, SameSpeed
<1> HIDE DEF x, y, got
\* To say again what holds of the part.
<1>8. ASSUME UNCHANGED <<mem, seg, seg_count, dev_speed, to_host>>,
             \/ dev' = "base" /\ field' \o to_dev' = x \o y
             \/ dev' = "size" /\ field' \o to_dev' = y /\ base' = Segments[s].base
      PROVE Situation'
  <2>1. Kept(sent - 1, sent - 1)'
    BY <1>0, <1>1, <1>7, <1>8
  <2>2. AtSegment(sent)'
    BY <1>0, <1>1, <1>7, <1>8
  <2>3. Heading'
    BY <1>0, <1>1, <1>2, <1>8, <2>1, <2>2 DEF Heading, x, y
  <2> QED BY <1>0, <1>8, <2>3 DEF UnderWay, Situation
<1>9. CASE Len(field) + 1 < WIDTH
  <2>1. field' = got /\ UNCHANGED <<to_host, dev, seg_count, seg, base, mem, dev_speed>>
    BY <1>0, <1>6, <1>9 DEF Receive, Collect, got
  <2>2. field' \o to_dev' = field \o to_dev
    BY <1>0, <1>5, <2>1
  <2> QED BY <1>6, <1>8, <2>1, <2>2
<1>10. CASE ~(Len(field) + 1 < WIDTH) /\ dev = "base"
  <2>1. field' = <<>> /\ SegBase(Value(got))
    BY <1>0, <1>10 DEF Receive, Collect, got
  <2>2. got = x /\ Tail(to_dev) = y
    <3>1. field \o to_dev = x \o y
      BY <1>6, <1>10
    <3>2. Len(field) < Len(x) /\ ~(Len(field) + 1 < Len(x))
      BY <1>3, <1>4, <1>10
    <3>3. field \in Seq(Byte) /\ to_dev \in Seq(Byte) /\ to_dev # <<>> /\ x \in Seq(Byte) /\ y \in Seq(Byte)
      BY <1>0, <1>3, <1>4
    <3>4. Append(field, Head(to_dev)) = x /\ Tail(to_dev) = y
      BY ONLY <3>1, <3>2, <3>3, Filled
    <3> QED BY <3>4 DEF got
  <2>3. dev' = "size" /\ base' = Segments[s].base /\ UNCHANGED <<mem, seg, seg_count, dev_speed, to_host>>
    BY <1>3, <2>1, <2>2 DEF SegBase
  <2>4. field' \o to_dev' = y
    BY <1>0, <1>3, <2>1, <2>2, Nothing
  <2> QED BY <1>8, <2>3, <2>4
<1>11. CASE ~(Len(field) + 1 < WIDTH) /\ dev = "size"
  <2>1. field' = <<>> /\ SegSize(Value(got))
    BY <1>0, <1>11 DEF Receive, Collect, got
  <2>2. got = y /\ Tail(to_dev) = <<>>
    BY <1>0, <1>3, <1>4, <1>6, <1>11, FilledWord DEF got
  <2> DEFINE v == Len(Segments[s].data)
  <2>3. SegSize(v) /\ v \in Nat
    BY <1>3, <2>1, <2>2
  <2>4. left' = v /\ checksum' = 0 /\ UNCHANGED <<seg_count, seg, base, mem, dev_speed>>
    BY <2>3 DEF SegSize
  <2> HIDE DEF v
  <2>5. CASE v = 0
    <3>1. Fail
      BY <2>3, <2>5 DEF SegSize
    <3>2. Lost'
      BY <1>0, <1>2, <3>1, Failing DEF Waits
    <3> QED BY <3>2 DEF Situation
  <2>6. CASE v # 0
    <3>1. dev' = "data" /\ to_host' = <<"ACK", "TEXT">>
      BY <1>0, <2>3, <2>6, Said DEF SegSize, Answers
    <3>2. Kept(s - 1, s)'
      <4>1. Kept(s - 1, s - 1)'
        BY <1>7, <2>4
      <4>2. \A r \in Nat : UNION {Area(t) : t \in r + 1 .. s - 1} \subseteq UNION {Area(t) : t \in r + 1 .. s}
        <5>1. s \in Int
          BY <1>2, EntryIs
        <5>2. \A r \in Nat : r + 1 .. s - 1 \subseteq r + 1 .. s
          BY <5>1
        <5> QED BY <5>2
      <4>3. \A r \in 1 .. s - 1 : r \in Nat
        BY <1>2
      <4> QED BY <4>1, <4>2, <4>3 DEF Kept, Images
    <3>3. AtSegment(s)'
      BY <1>7, <2>4
    <3>4. base' = Segments[s].base
      BY <1>6, <1>11, <2>4
    <3>5. AtData(s)'
      BY <2>3, <2>4, <2>6, <3>1, <3>2, <3>3, <3>4 DEF AtData, v
    <3>6. AfterAck' = "header_drain" /\ Sent' = s
      BY <1>0, <1>1, <1>2 DEF AfterAck, Sent
    <3>7. Expects(AfterAck, Sent)'
      BY <3>5, <3>6 DEF Expects
    <3>8. to_host' # <<>> /\ to_host'[1] = "ACK" /\ NoAck(Tail(to_host'))
      BY <3>1, Said
    <3>9. Acked'
      BY <1>0, <1>2, <2>1, <2>2, <3>7, <3>8 DEF Acked
    <3> QED BY <3>9 DEF Situation
  <2> QED BY <2>5, <2>6
<1> QED BY <1>6, <1>9, <1>10, <1>11

LEMMA EnteringLoader == ASSUME Typed, UnderWay, Entering, Loader PROVE Situation'
<1>0. /\ to_dev # <<>> /\ to_dev' = Tail(to_dev) /\ Receive(Head(to_dev)) /\ to_host = <<>>
      /\ UNCHANGED <<host, sent, host_speed, divisor, damaged>>
  BY Hears
<1> DEFINE x == Le32(Entry)
           got == Append(field, Head(to_dev))
<1>1. host = "entry_wait" /\ AtEntry /\ field \o to_dev = x /\ dev = "entry" /\ seg_count = N /\ Kept(N, N)
  BY DEF Entering, AtEntry
<1>2. x \in Seq(Byte) /\ Len(x) = WIDTH /\ Value(x) = Entry
  BY EntryIs, FieldIs, ValueOfField
<1>3. /\ field \in Seq(Byte) /\ to_dev \in Seq(Byte) /\ Len(field) < WIDTH /\ Len(field) \in Nat
  BY DEF Typed
<1>4. got \o Tail(to_dev) = field \o to_dev
  BY <1>0, <1>3, Shift
<1>5. Collect(Head(to_dev), EntryPoint)
  BY <1>0, <1>1 DEF Receive
<1> HIDE DEF x, got
<1>6. CASE Len(field) + 1 < WIDTH
  <2>1. field' = got /\ UNCHANGED <<to_host, dev, seg_count, mem, dev_speed>>
    BY <1>5, <1>6 DEF Collect, got
  <2>2. field' \o to_dev' = x
    BY <1>0, <1>1, <1>4, <2>1
  <2>3. Kept(N, N)'
    BY <1>0, <1>1, <2>1, KeptStays
  <2>4. Entering'
    BY <1>0, <1>1, <2>1, <2>2, <2>3 DEF Entering, AtEntry, SameSpeed, x
  <2> QED BY <1>0, <2>1, <2>4 DEF UnderWay, Situation
<1>7. CASE ~(Len(field) + 1 < WIDTH)
  <2>1. EntryPoint(Value(got))
    BY <1>5, <1>7 DEF Collect, got
  <2>2. got = x
    BY <1>0, <1>1, <1>2, <1>3, <1>7, FilledWord DEF got
  <2>3. dev' = "jump" /\ entry' = Entry /\ UNCHANGED <<seg_count, mem>>
    BY <1>2, <2>1, <2>2 DEF EntryPoint
  <2>4. Kept(N, N)'
    BY <1>0, <1>1, <2>3, KeptStays
  <2>5. Started'
    BY <1>0, <1>1, <2>3, <2>4 DEF Started
  <2> QED BY <2>5 DEF Situation
<1> QED BY <1>6, <1>7

\* Storing bytes of a segment leaves what was not to be overwritten by it.
LEMMA KeptAround ==
  ASSUME NEW s, s \in 1 .. N, Kept(s - 1, s), damaged' = damaged,
         \A a \in DOMAIN mem : a \notin Area(s) => a \in DOMAIN mem' /\ mem'[a] = mem[a]
  PROVE Kept(s - 1, s)'
<1> SUFFICES ASSUME damaged' <= 1, NEW r \in 1 .. s - 1, NEW a \in Area(r) \ UNION {Area(t) : t \in r + 1 .. s}
             PROVE a \in DOMAIN mem' /\ mem'[a] = Segments[r].data[a - Segments[r].base + 1]
  BY DEF Kept, Images
<1>1. a \in DOMAIN mem /\ mem[a] = Segments[r].data[a - Segments[r].base + 1]
  BY DEF Kept, Images
<1>2. s \in r + 1 .. s
  BY EntryIs
<1>3. a \notin Area(s)
  BY <1>2
<1> QED BY <1>1, <1>3

LEMMA ReadingStep ==
  ASSUME Typed, NEW s, s \in 1 .. N, NEW x, x \in [1 .. Len(Body(s)) -> Byte], NEW n \in Nat, Reading(x, s, n),
         to_dev # <<>>, to_dev' = Tail(to_dev), Data(Head(to_dev))
  PROVE /\ IF n + 1 <= Len(Segments[s].data) - 1 THEN Reading(x, s, n + 1)' ELSE Summing(x, s)'
        /\ \A a \in DOMAIN mem : a \notin Area(s) => a \in DOMAIN mem' /\ mem'[a] = mem[a]
        /\ UNCHANGED <<to_host, seg_count, seg, dev_speed>>
<1> DEFINE L == Len(Segments[s].data)
           B == Segments[s].base
           T == Len(Body(s))
           b == Head(to_dev)
           got == Append(field, b)
           f == Len(field)
           m == Power[WIDTH]
<1>1. L \in Nat /\ B \in Nat /\ T = L + WIDTH /\ WIDTH \in Nat /\ WIDTH >= 1 /\ T \in Nat
  BY SegmentIs, BodyIs
<1>2. /\ b = to_dev[1] /\ b \in Byte /\ Tail(to_dev) \in Seq(Byte)
      /\ Len(to_dev) \in Nat /\ Len(to_dev) >= 1 /\ Len(Tail(to_dev)) = Len(to_dev) - 1
      /\ \A k \in 1 .. Len(to_dev) - 1 : Tail(to_dev)[k] = to_dev[k + 1]
  BY Taking DEF Typed
<1>3. /\ field \in Seq(Byte) /\ f \in Nat /\ f < WIDTH
      /\ got \in Seq(Byte) /\ Len(got) = f + 1 /\ got[f + 1] = b /\ \A k \in 1 .. f : got[k] = field[k]
  <2>1. field \in Seq(Byte) /\ f \in Nat /\ f < WIDTH
    BY DEF Typed
  <2> HIDE DEF b
  <2>2. got \in Seq(Byte) /\ Len(got) = f + 1 /\ got[f + 1] = b /\ \A k \in 1 .. f : got[k] = field[k]
    BY <1>2, <2>1, Appending
  <2> QED BY <2>1, <2>2
<1>4. /\ dev = "data" /\ n \in 0 .. L - 1 /\ left = L - n
      /\ Len(to_dev) = T - n /\ \A k \in 1 .. Len(to_dev) : to_dev[k] = x[n + k]
      /\ f <= n /\ \A k \in 1 .. f : field[k] = x[n - f + k]
      /\ field = <<>> \/ left + f >= WIDTH
      /\ base = B + n - f
      /\ checksum = Sums(x)[n] % m
      /\ \A a \in B .. base - 1 : a \in DOMAIN mem /\ mem[a] = x[a - B + 1]
  BY DEF Reading
<1>5. /\ checksum' = (checksum + b) % m /\ left' = left - 1
      /\ dev' = (IF left = 1 THEN "sum" ELSE "data") /\ UNCHANGED <<to_host, seg_count, seg, entry, dev_speed>>
  BY DEF Data
<1>6. IF left >= WIDTH - f /\ Len(got) < WIDTH
      THEN field' = got /\ UNCHANGED <<mem, base>>
      ELSE field' = <<>> /\ Place(base, got) /\ base' = base + Len(got)
  BY DEF Data
<1>7. x[n + 1] = b
  <2>1. 1 \in 1 .. Len(to_dev)
    BY <1>2
  <2> QED BY <1>2, <1>4, <2>1
<1> HIDE DEF L, B, T, b, got, f
<1>8. Len(to_dev') = T - (n + 1) /\ \A k \in 1 .. Len(to_dev') : to_dev'[k] = x[n + 1 + k]
  <2>1. Len(to_dev') = T - (n + 1)
    BY <1>1, <1>2, <1>4
  <2>2. ASSUME NEW k \in 1 .. Len(to_dev') PROVE to_dev'[k] = x[n + 1 + k]
    <3>1. k + 1 \in 1 .. Len(to_dev) /\ k \in 1 .. Len(to_dev) - 1
      BY <1>2, <2>2
    <3>2. to_dev'[k] = to_dev[k + 1]
      BY <1>2, <3>1
    <3>3. to_dev[k + 1] = x[n + (k + 1)] /\ n + (k + 1) = n + 1 + k
      BY <1>4, <3>1
    <3> QED BY <3>2, <3>3
  <2> QED BY <2>1, <2>2
<1>9. checksum' = Sums(x)[n + 1] % m
  <2>1. \A i \in 1 .. T : x[i] \in Byte /\ x[i] \in Int
    BY Sizes DEF T
  <2>2. Len(x) = T /\ Len(x) \in Nat /\ \A i \in 1 .. Len(x) : x[i] \in Int
    BY <1>1, <2>1 DEF T
  <2>3. n \in 0 .. Len(x) - 1 /\ n \in 0 .. Len(x)
    BY <1>1, <1>4, <2>2
  <2>4. Sums(x)[n] \in Int /\ Sums(x)[n + 1] = Sums(x)[n] + b
    BY <1>7, <2>2, <2>3, SumsAre
  <2>5. b \in Int
    BY <1>2, Sizes
  <2> DEFINE p == Sums(x)[n]
  <2>6. p \in Int /\ m \in Nat /\ m > 0 /\ checksum' = ((p % m) + b) % m /\ Sums(x)[n + 1] = p + b
    BY <1>4, <1>5, <2>4, Modulus
  <2> HIDE DEF p, m
  <2>7. ((p % m) + b) % m = (p + b) % m
    BY <2>5, <2>6, RunningSum
  <2> QED BY <2>6, <2>7
<1> HIDE DEF m
<1>10. CASE left >= WIDTH - f /\ Len(got) < WIDTH
  <2>1. field' = got /\ mem' = mem /\ base' = base
    BY <1>6, <1>10
  <2>0. Len(field') = f + 1 /\ f + 1 \in Nat
    BY <1>3, <2>1
  <2>2. n + 1 \in 0 .. L - 1 /\ left' = L - (n + 1) /\ dev' = "data"
    BY <1>1, <1>3, <1>4, <1>5, <1>10
  <2>3. ASSUME NEW k \in 1 .. Len(field') PROVE field'[k] = x[(n + 1) - Len(field') + k]
    <3>0. (n + 1) - Len(field') + k = n - f + k /\ k \in 1 .. f + 1
      BY <1>3, <2>0, <2>3
    <3>1. CASE k \in 1 .. f
      <4>1. field'[k] = field[k] /\ field[k] = x[n - f + k]
        BY <1>3, <1>4, <2>1, <3>1
      <4> QED BY <3>0, <4>1
    <3>2. CASE k = f + 1
      <4>1. n - f + k = n + 1
        BY <1>3, <3>2
      <4>2. field'[k] = b
        BY <1>3, <2>1, <3>2
      <4> QED BY <1>7, <3>0, <4>1, <4>2
    <3> QED BY <1>3, <3>0, <3>1, <3>2
  <2>4. Len(field') <= n + 1 /\ left' + Len(field') >= WIDTH /\ base' = B + (n + 1) - Len(field')
    BY <1>1, <1>3, <1>4, <1>5, <1>10, <2>0, <2>1
  <2>5. \A a \in B .. base' - 1 : a \in DOMAIN mem' /\ mem'[a] = x[a - B + 1]
    BY <1>4, <2>1
  <2>6. n + 1 <= L - 1
    BY <1>1, <2>2
  <2>7. Reading(x, s, n + 1)'
    BY <1>8, <1>9, <2>2, <2>3, <2>4, <2>5 DEF Reading, L, B, T, m
  <2> QED BY <1>5, <2>1, <2>6, <2>7 DEF L
<1>11. CASE ~(left >= WIDTH - f /\ Len(got) < WIDTH)
  <2>1. field' = <<>> /\ Place(base, got) /\ base' = base + Len(got)
    BY <1>6, <1>11
  <2> DEFINE area == base .. base + Len(got) - 1
  <2>2. mem' = [a \in DOMAIN mem \union area |-> IF a \in area THEN got[a - base + 1] ELSE mem[a]]
    BY <2>1 DEF Place
  <2>3. base' = B + (n + 1) /\ base \in Int /\ base + Len(got) - 1 = B + n
    BY <1>1, <1>3, <1>4, <2>1
  <2>4. \A k \in 1 .. f + 1 : got[k] = x[n - f + k]
    <3>1. ASSUME NEW k \in 1 .. f + 1 PROVE got[k] = x[n - f + k]
      <4>1. CASE k \in 1 .. f
        BY <1>3, <1>4, <4>1
      <4>2. CASE k = f + 1
        <5>1. n - f + k = n + 1
          BY <1>3, <4>2
        <5> QED BY <1>3, <1>7, <4>2, <5>1
      <4> QED BY <1>3, <4>1, <4>2
    <3> QED BY <3>1
  <2>5. ASSUME NEW a \in B .. base' - 1 PROVE a \in DOMAIN mem' /\ mem'[a] = x[a - B + 1]
    <3>1. CASE a \in area
      <4>1. a - base + 1 \in 1 .. f + 1 /\ n - f + (a - base + 1) = a - B + 1
        BY <1>1, <1>3, <1>4, <3>1
      <4>2. got[a - base + 1] = x[n - f + (a - base + 1)]
        BY <2>4, <4>1
      <4>3. a \in DOMAIN mem' /\ mem'[a] = got[a - base + 1]
        BY <2>2, <3>1
      <4> QED BY <4>1, <4>2, <4>3
    <3>2. CASE a \notin area
      <4>1. a \in B .. base - 1
        BY <1>1, <1>3, <1>4, <2>3, <3>2
      <4>2. a \in DOMAIN mem /\ mem[a] = x[a - B + 1]
        BY <1>4, <4>1
      <4> HIDE DEF area
      <4> QED BY <2>2, <3>2, <4>2
    <3> QED BY <3>1, <3>2
  <2>6. area \subseteq Area(s)
    <3>1. \A a \in area : a \in B .. B + L - 1
      BY <1>1, <1>3, <1>4, <2>3
    <3> HIDE DEF area
    <3> QED BY <3>1 DEF Area, B, L
  <2>7. \A a \in DOMAIN mem : a \notin Area(s) => a \in DOMAIN mem' /\ mem'[a] = mem[a]
    <3> HIDE DEF area
    <3> QED BY <2>2, <2>6
  <2>8. CASE n + 1 <= L - 1
    <3>1. n + 1 \in 0 .. L - 1 /\ left' = L - (n + 1) /\ dev' = "data"
      BY <1>1, <1>4, <1>5, <2>8
    <3>2. Len(field') = 0 /\ Len(field') <= n + 1 /\ base' = B + (n + 1) - Len(field')
      BY <1>1, <2>1, <2>3
    <3>3. \A k \in 1 .. Len(field') : field'[k] = x[(n + 1) - Len(field') + k]
      BY <3>2
    <3>4. Reading(x, s, n + 1)'
      BY <1>8, <1>9, <2>1, <2>5, <3>1, <3>2, <3>3 DEF Reading, L, B, T, m
    <3> QED BY <1>5, <2>7, <2>8, <3>4 DEF L
  <2>9. CASE ~(n + 1 <= L - 1)
    <3>1. n + 1 = L /\ dev' = "sum"
      BY <1>1, <1>4, <1>5, <2>9
    <3>2. field' \o to_dev' = [k \in 1 .. WIDTH |-> x[L + k]]
      <4>1. to_dev' \in Seq(Byte) /\ field' \o to_dev' = to_dev' /\ Len(to_dev') = WIDTH
        <5>1. to_dev' \in Seq(Byte)
          BY <1>2
        <5>2. field' \o to_dev' = to_dev'
          BY <2>1, <5>1, Nothing
        <5>3. Len(to_dev') = WIDTH
          BY <1>1, <1>8, <3>1
        <5> QED BY <5>1, <5>2, <5>3
      <4>2. to_dev' = [k \in 1 .. WIDTH |-> to_dev'[k]]
        <5>1. PICK t \in Seq(Byte) : t = to_dev' /\ Len(t) = WIDTH
          BY <4>1
        <5>2. t = [k \in 1 .. WIDTH |-> t[k]]
          <6>1. t \in [1 .. WIDTH -> Byte]
            BY <5>1, SequenceIs
          <6> QED BY <6>1
        <5> QED BY <5>1, <5>2
      <4>3. \A k \in 1 .. WIDTH : to_dev'[k] = x[L + k]
        BY <1>8, <3>1, <4>1
      <4> QED BY <4>1, <4>2, <4>3
    <3>3. \A a \in Area(s) : a \in DOMAIN mem' /\ mem'[a] = x[a - B + 1]
      <4>1. base' - 1 = B + L - 1
        BY <1>1, <2>3, <3>1
      <4>2. Area(s) = B .. B + L - 1
        BY DEF Area, B, L
      <4> QED BY <2>5, <4>1, <4>2
    <3>4. Summing(x, s)'
      BY <1>9, <3>1, <3>2, <3>3 DEF Summing, L, B, m
    <3> QED BY <1>5, <2>7, <2>9, <3>4 DEF L
  <2> QED BY <2>8, <2>9
<1> QED BY <1>10, <1>11

\* What has come of the part that is being stored.
LEMMA Part ==
  ASSUME Storing
  PROVE \E s \in 1 .. N : \E x \in [1 .. Len(Body(s)) -> Byte] :
          /\ s = sent /\ AtSegment(s) /\ Kept(s - 1, s) /\ Comes(x, Body(s))
          /\ Summing(x, s) \/ \E n \in Nat : Reading(x, s, n)
<1>1. PICK s : s = sent
  OBVIOUS
<1>2. PICK x \in [1 .. Len(Body(s)) -> Byte] : Comes(x, Body(s)) /\ (Summing(x, s) \/ \E n \in Nat : Reading(x, s, n))
  BY <1>1 DEF Storing
<1>3. s \in 1 .. N /\ AtSegment(s) /\ Kept(s - 1, s)
  BY <1>1 DEF Storing, AtSegment
<1> QED BY <1>1, <1>2, <1>3

LEMMA PartAgain ==
  ASSUME NEW s, NEW x \in [1 .. Len(Body(s)) -> Byte], host' = "sum_wait", sent' = s, to_host' = <<>>,
         AtSegment(s)', Kept(s - 1, s)', Comes(x, Body(s))', Summing(x, s)' \/ \E n \in Nat : Reading(x, s, n)'
  PROVE Situation'
<1>1. \E y \in [1 .. Len(Body(sent')) -> Byte] : Comes(y, Body(sent))' /\ (Summing(y, sent)' \/ \E n \in Nat : Reading(y, sent, n)')
  OBVIOUS
<1>2. AtSegment(sent)' /\ Kept(sent - 1, sent)'
  OBVIOUS
<1>3. Storing'
  BY <1>1, <1>2 DEF Storing
<1> QED BY <1>3 DEF UnderWay, Situation

LEMMA ComesStays == ASSUME NEW x, NEW y, Comes(x, y), damaged' = damaged PROVE Comes(x, y)'
  BY DEF Comes

LEMMA ReadingLoader ==
  ASSUME Typed, UnderWay, Loader, host = "sum_wait", NEW s \in 1 .. N, NEW x \in [1 .. Len(Body(s)) -> Byte], NEW n \in Nat,
         s = sent, AtSegment(s), Kept(s - 1, s), Comes(x, Body(s)), Reading(x, s, n)
  PROVE Situation'
<1>0. /\ to_dev # <<>> /\ to_dev' = Tail(to_dev) /\ Receive(Head(to_dev)) /\ to_host = <<>>
      /\ UNCHANGED <<host, sent, host_speed, divisor, damaged>>
  BY Hears
<1>1. Data(Head(to_dev))
  BY <1>0 DEF Receive, Reading
<1>2. /\ IF n + 1 <= Len(Segments[s].data) - 1 THEN Reading(x, s, n + 1)' ELSE Summing(x, s)'
      /\ \A a \in DOMAIN mem : a \notin Area(s) => a \in DOMAIN mem' /\ mem'[a] = mem[a]
      /\ UNCHANGED <<to_host, seg_count, seg, dev_speed>>
  BY <1>0, <1>1, ReadingStep
<1>3. Kept(s - 1, s)'
  BY <1>0, <1>2, KeptAround
<1>4. AtSegment(s)'
  BY <1>0, <1>2 DEF AtSegment, SameSpeed
<1>5. Comes(x, Body(s))'
  BY <1>0, ComesStays
<1>6. n + 1 \in Nat
  OBVIOUS
<1>7. Summing(x, s)' \/ \E k \in Nat : Reading(x, s, k)'
  BY <1>2, <1>6
<1> QED BY <1>0, <1>2, <1>3, <1>4, <1>5, <1>7, PartAgain

\* A segment that is found right has been stored as it was sent.
LEMMA Stored ==
  ASSUME NEW s \in 1 .. N, NEW x \in [1 .. Len(Body(s)) -> Byte], Kept(s - 1, s), Comes(x, Body(s)), damaged \in Nat,
         Sums(x)[Len(Segments[s].data)] % Power[WIDTH] = Value([k \in 1 .. WIDTH |-> x[Len(Segments[s].data) + k]]),
         \A a \in Area(s) : a \in DOMAIN mem /\ mem[a] = x[a - Segments[s].base + 1]
  PROVE Kept(s, s)
<1> SUFFICES ASSUME damaged <= 1 PROVE Images(s, s)
  BY DEF Kept
<1> DEFINE d == Segments[s].data
           L == Len(d)
           y == Body(s)
<1>1. /\ d \in Seq(Byte) /\ L \in Nat /\ WIDTH \in Nat /\ WIDTH >= 1 /\ Len(y) = L + WIDTH /\ Segments[s].base \in Nat
      /\ \A k \in 1 .. L : y[k] = d[k]
      /\ \A k \in 1 .. WIDTH : y[L + k] = Le32(Sum(d))[k]
  BY SegmentIs, BodyIs
<1>2. \E p \in Nat : \A k \in 1 .. Len(y) : k # p => x[k] = y[k]
  BY DEF Comes
<1>3. PICK p \in Nat : \A k \in 1 .. Len(y) : k # p => x[k] = y[k]
  BY <1>2
<1> HIDE DEF y
<1>4. \A k \in 1 .. L : k # p => x[k] = d[k]
  BY <1>1, <1>3
<1>5. \A k \in 1 .. WIDTH : L + k # p => x[L + k] = Le32(Sum(d))[k]
  <2> HIDE DEF L
  <2>1. \A k \in 1 .. WIDTH : L + k \in 1 .. Len(y)
    BY <1>1
  <2> QED BY <1>1, <1>3, <2>1
<1>6. x \in [1 .. L + WIDTH -> Byte]
  BY <1>1 DEF y
<1>7. \A k \in 1 .. L : x[k] = d[k]
  <2> HIDE DEF d
  <2> QED BY <1>1, <1>4, <1>5, <1>6, ChecksumTells DEF d
<1>8. ASSUME NEW a \in Area(s) PROVE a \in DOMAIN mem /\ mem[a] = d[a - Segments[s].base + 1]
  <2>1. a - Segments[s].base + 1 \in 1 .. L
    <3>1. Area(s) = Segments[s].base .. Segments[s].base + L - 1
      BY DEF Area
    <3> DEFINE B == Segments[s].base
    <3>2. a \in B .. B + L - 1 /\ B \in Nat /\ L \in Nat
      BY <1>1, <1>8, <3>1
    <3> HIDE DEF L, B
    <3>3. a - B + 1 \in 1 .. L
      BY <3>2
    <3> QED BY <3>3 DEF B
  <2> QED BY <1>7, <2>1
<1>9. ASSUME NEW r \in 1 .. s, NEW a \in Area(r) \ UNION {Area(t) : t \in r + 1 .. s}
      PROVE a \in DOMAIN mem /\ mem[a] = Segments[r].data[a - Segments[r].base + 1]
  <2>1. CASE r = s
    BY <1>8, <1>9, <2>1
  <2>2. CASE r # s
    <3>1. r \in 1 .. s - 1
      BY <1>9, <2>2, EntryIs
    <3>2. Images(s - 1, s)
      BY DEF Kept
    <3> QED BY <1>9, <3>1, <3>2 DEF Images
  <2> QED BY <2>1, <2>2
<1> QED BY <1>9 DEF Images

LEMMA SummingLoader ==
  ASSUME Typed, UnderWay, Loader, host = "sum_wait", NEW s \in 1 .. N, NEW x \in [1 .. Len(Body(s)) -> Byte],
         s = sent, AtSegment(s), Kept(s - 1, s), Comes(x, Body(s)), Summing(x, s)
  PROVE Situation'
<1>0. /\ to_dev # <<>> /\ to_dev' = Tail(to_dev) /\ Receive(Head(to_dev)) /\ to_host = <<>>
      /\ UNCHANGED <<host, sent, host_speed, divisor, damaged>>
  BY Hears
<1> DEFINE L == Len(Segments[s].data)
           w == [k \in 1 .. WIDTH |-> x[L + k]]
           got == Append(field, Head(to_dev))
           m == Power[WIDTH]
           Right == Sums(x)[L] % m = Value(w)
<1>1. /\ dev = "sum" /\ field \o to_dev = w /\ checksum = Sums(x)[L] % m
      /\ \A a \in Area(s) : a \in DOMAIN mem /\ mem[a] = x[a - Segments[s].base + 1]
  BY DEF Summing
<1>2. /\ field \in Seq(Byte) /\ to_dev \in Seq(Byte) /\ Len(field) < WIDTH /\ Len(field) \in Nat
      /\ damaged \in Nat /\ WIDTH \in Nat
  BY Sizes DEF Typed
<1>3. w \in Seq(Byte) /\ Len(w) = WIDTH
  <2>1. L \in Nat /\ Len(Body(s)) = L + WIDTH
    BY BodyIs
  <2> HIDE DEF L
  <2>2. \A k \in 1 .. WIDTH : x[L + k] \in Byte
    BY <1>2, <2>1
  <2>3. w \in [1 .. WIDTH -> Byte]
    BY <2>2
  <2> QED BY <1>2, <2>3
<1>4. got \o Tail(to_dev) = field \o to_dev
  BY <1>0, <1>2, Shift
<1>5. Collect(Head(to_dev), CheckSum)
  BY <1>0, <1>1 DEF Receive
<1>6. s \in Nat /\ s >= 1 /\ s <= N /\ N \in Nat /\ seg = s /\ seg_count = N /\ host_speed = dev_speed
  BY EntryIs DEF AtSegment, SameSpeed
<1> HIDE DEF w, got, m, L, Right
<1>7. CASE Len(field) + 1 < WIDTH
  <2>1. field' = got /\ UNCHANGED <<to_host, dev, seg_count, seg, checksum, mem, dev_speed>>
    BY <1>5, <1>7 DEF Collect, got
  <2>2. field' \o to_dev' = w
    BY <1>0, <1>1, <1>4, <2>1
  <2>3. Summing(x, s)'
    BY <1>1, <2>1, <2>2 DEF Summing, w, L, m
  <2>4. Kept(s - 1, s)'
    BY <1>0, <2>1, KeptStays
  <2>5. AtSegment(s)'
    BY <1>0, <2>1 DEF AtSegment, SameSpeed
  <2>6. Comes(x, Body(s))'
    BY <1>0, ComesStays
  <2> QED BY <1>0, <2>1, <2>3, <2>4, <2>5, <2>6, PartAgain
<1>8. CASE ~(Len(field) + 1 < WIDTH)
  <2>1. field' = <<>> /\ CheckSum(Value(got))
    BY <1>5, <1>8 DEF Collect, got
  <2>2. got = w /\ Tail(to_dev) = <<>>
    <3>1. Len(field) < Len(w) /\ ~(Len(field) + 1 < Len(w))
      BY <1>2, <1>3, <1>8
    <3> QED BY <1>0, <1>1, <1>2, <1>3, <3>1, FilledWord DEF got
  <2>3. CheckSum(Value(w)) /\ UNCHANGED <<mem, seg_count, dev_speed>>
    BY <2>1, <2>2 DEF CheckSum
  <2>4. CASE ~Checked(Value(w))
    <3>1. Fail
      BY <2>3, <2>4 DEF CheckSum
    <3>2. Lost'
      BY <1>0, <3>1, Failing DEF Waits
    <3> QED BY <3>2 DEF Situation
  <2>5. CASE Checked(Value(w))
    <3>1. to_host' = <<"ACK">> /\ seg' = s + 1 /\ dev' = (IF s = N THEN "entry" ELSE "base")
      BY <1>0, <1>6, <2>3, <2>5, Said DEF CheckSum, Answers
    <3>2. Sums(x)[L] % m = Value(w)
      BY <1>1, <2>5 DEF Checked
    <3>3. Kept(s, s)
      BY <1>1, <1>2, <3>2, Stored DEF w, L, m
    <3>4. Kept(s, s)'
      BY <1>0, <2>3, <3>3, KeptStays
    <3>5. to_host' # <<>> /\ to_host'[1] = "ACK" /\ NoAck(Tail(to_host')) /\ Len(to_host') = 1
      BY <3>1, Said
    <3>6. to_dev' = <<>> /\ field' = <<>> /\ host' = "sum_wait" /\ sent' = s
      BY <1>0, <2>1, <2>2
    <3>7. CASE s = N
      <4>1. AtEntry'
        BY <1>0, <1>6, <2>3, <3>1, <3>4, <3>7 DEF AtEntry, SameSpeed
      <4>2. AfterAck' = "entry"
        BY <3>6, <3>7 DEF AfterAck, N
      <4>3. Expects(AfterAck, Sent)'
        BY <4>1, <4>2 DEF Expects
      <4>4. Acked'
        BY <3>5, <3>6, <4>3 DEF Acked
      <4> QED BY <4>4 DEF Situation
    <3>8. CASE s # N
      <4>1. (s + 1) - 1 = s /\ s + 1 \in 1 .. N /\ s < N
        BY <1>6, <3>8
      <4>2. AtBase(s + 1)'
        BY <1>0, <1>6, <2>3, <3>1, <3>4, <3>8, <4>1 DEF AtBase, AtSegment, SameSpeed
      <4>3. AfterAck' = "header" /\ Sent' = s + 1
        BY <3>6, <3>8, <4>1 DEF AfterAck, Sent, N
      <4>4. Expects(AfterAck, Sent)'
        BY <4>2, <4>3 DEF Expects
      <4>5. Acked'
        BY <3>5, <3>6, <4>4 DEF Acked
      <4> QED BY <4>5 DEF Situation
    <3> QED BY <3>7, <3>8
  <2> QED BY <2>4, <2>5
<1> QED BY <1>7, <1>8

LEMMA UnderWayLoader == ASSUME Typed, UnderWay, Loader PROVE Situation'
<1>1. CASE Storing
  <2>1. host = "sum_wait"
    BY <1>1 DEF Storing
  <2>2. PICK s \in 1 .. N : \E x \in [1 .. Len(Body(s)) -> Byte] :
          /\ s = sent /\ AtSegment(s) /\ Kept(s - 1, s) /\ Comes(x, Body(s))
          /\ Summing(x, s) \/ \E n \in Nat : Reading(x, s, n)
    BY <1>1, Part
  <2>3. PICK x \in [1 .. Len(Body(s)) -> Byte] :
          /\ s = sent /\ AtSegment(s) /\ Kept(s - 1, s) /\ Comes(x, Body(s))
          /\ Summing(x, s) \/ \E n \in Nat : Reading(x, s, n)
    BY <2>2
  <2>4. CASE Summing(x, s)
    BY <2>1, <2>3, <2>4, SummingLoader
  <2>5. CASE \E n \in Nat : Reading(x, s, n)
    BY <2>1, <2>3, <2>5, ReadingLoader
  <2> QED BY <2>3, <2>4, <2>5
<1> QED BY <1>1, CountingLoader, HeadingLoader, EnteringLoader DEF UnderWay

\* How much is on its way.
LEMMA Whole ==
  ASSUME Typed, UnderWay
  PROVE /\ Len(to_dev) \in Nat /\ Len(field) \in Nat /\ WIDTH \in Nat /\ WIDTH >= 1
        /\ \/ Counting /\ Len(to_dev) = 1
           \/ Heading /\ dev = "base" /\ Len(field) + Len(to_dev) = 2 * WIDTH
           \/ (Heading \/ (Storing /\ dev = "sum") \/ Entering) /\ dev \in {"size", "sum", "entry"} /\ Len(field) + Len(to_dev) = WIDTH
           \/ Storing /\ dev = "data" /\ left \in Nat /\ left >= 1 /\ Len(to_dev) = left + WIDTH
<1>1. Len(to_dev) \in Nat /\ Len(field) \in Nat /\ WIDTH \in Nat /\ WIDTH >= 1 /\ Len(field \o to_dev) = Len(field) + Len(to_dev)
  BY Sizes, Joining DEF Typed
<1>2. CASE Counting
  <2>1. Len(<<N>>) = 1
    OBVIOUS
  <2> QED BY <1>1, <1>2, <2>1 DEF Counting
<1>3. CASE Heading
  <2>1. Len(Le32(Segments[sent].base) \o Le32(Len(Segments[sent].data))) = 2 * WIDTH /\ Len(Le32(Len(Segments[sent].data))) = WIDTH
    <3>1. Segments[sent].base \in Nat /\ Len(Segments[sent].data) \in Nat
      BY <1>3, SegmentIs DEF Heading, AtSegment
    <3> DEFINE x == Le32(Segments[sent].base)
               y == Le32(Len(Segments[sent].data))
    <3>2. x \in Seq(Byte) /\ y \in Seq(Byte) /\ Len(x) = WIDTH /\ Len(y) = WIDTH
      BY <3>1, FieldIs
    <3> HIDE DEF x, y
    <3>3. Len(x \o y) = 2 * WIDTH
      <4>1. Len(x \o y) = Len(x) + Len(y)
        BY <3>2, Joining
      <4> QED BY <1>1, <3>2, <4>1
    <3> QED BY <3>2, <3>3 DEF x, y
  <2> QED BY <1>1, <1>3, <2>1 DEF Heading
<1>4. CASE Storing
  <2>1. PICK s \in 1 .. N : \E x \in [1 .. Len(Body(s)) -> Byte] : Summing(x, s) \/ \E n \in Nat : Reading(x, s, n)
    BY <1>4, Part
  <2>2. PICK x \in [1 .. Len(Body(s)) -> Byte] : Summing(x, s) \/ \E n \in Nat : Reading(x, s, n)
    BY <2>1
  <2>3. /\ Len(Segments[s].data) \in Nat /\ Len(Body(s)) = Len(Segments[s].data) + WIDTH
    BY BodyIs
  <2>4. CASE Summing(x, s)
    <3> DEFINE w == [k \in 1 .. WIDTH |-> x[Len(Segments[s].data) + k]]
    <3>1. Len(w) = WIDTH
      BY <1>1
    <3> QED BY <1>1, <1>4, <2>4, <3>1 DEF Summing
  <2>5. CASE \E n \in Nat : Reading(x, s, n)
    <3>1. PICK n \in Nat : Reading(x, s, n)
      BY <2>5
    <3>2. /\ Len(to_dev) = Len(Body(s)) - n /\ n \in 0 .. Len(Segments[s].data) - 1
          /\ left = Len(Segments[s].data) - n /\ dev = "data"
      BY <3>1 DEF Reading
    <3> QED BY <1>1, <1>4, <2>3, <3>2
  <2> QED BY <2>2, <2>4, <2>5
<1>5. CASE Entering
  <2>1. Len(Le32(Entry)) = WIDTH
    BY EntryIs, FieldIs
  <2> QED BY <1>1, <1>5, <2>1 DEF Entering, AtEntry
<1> QED BY <1>2, <1>3, <1>4, <1>5 DEF UnderWay

\* The loader has what it waits for, and the host waits for it.
LEMMA UnderWayHost == ASSUME Typed, UnderWay, Host PROVE FALSE
<1>1. /\ host \in {"count_wait", "header_wait", "sum_wait", "entry_wait"} /\ to_host = <<>>
      /\ dev \in {"count", "base", "size", "data", "sum", "entry"}
  BY DEF UnderWay, Counting, Heading, Storing, Reading, Summing, Entering, AtEntry
<1>2. Silence
  BY <1>1 DEF Host, SendSync, AwaitSync, SendDivisor, Reconfigure, SendCount, SendHeader, SendData, SendEntry, Drain, Await
<1>3. to_dev = <<>>
  BY <1>1, <1>2 DEF Silence, Halted
<1>4. Len(field) < WIDTH /\ Len(to_dev) = 0
  BY <1>3 DEF Typed
<1> QED BY <1>4, Whole

\* A byte of it is lost.
LEMMA UnderWayLose == ASSUME Typed, UnderWay, Lose PROVE Situation'
<1>1. /\ to_host = <<>> /\ host \in Waits
      /\ host = "header_wait" => dev \in {"base", "size"}
      /\ host = "sum_wait" => dev \in {"data", "sum"}
      /\ host = "entry_wait" => dev = "entry"
  BY DEF UnderWay, Counting, Heading, Storing, Reading, Summing, Entering, AtEntry, Waits
<1>2. /\ to_dev # <<>> /\ to_dev' = Tail(to_dev) /\ to_host' = to_host
      /\ UNCHANGED <<host, host_speed, dev, left, field>>
  BY <1>1 DEF Lose, host_vars, dev_vars
<1>3. Len(to_dev') = Len(to_dev) - 1 /\ to_dev' \in Seq(Byte)
  BY <1>2, Taking DEF Typed
<1>4. Short'
  <2>1. /\ Len(to_dev) \in Nat /\ Len(field) \in Nat /\ WIDTH \in Nat /\ WIDTH >= 1
        /\ \/ Counting /\ Len(to_dev) = 1
           \/ Heading /\ dev = "base" /\ Len(field) + Len(to_dev) = 2 * WIDTH
           \/ (Heading \/ (Storing /\ dev = "sum") \/ Entering) /\ dev \in {"size", "sum", "entry"} /\ Len(field) + Len(to_dev) = WIDTH
           \/ Storing /\ dev = "data" /\ left \in Nat /\ left >= 1 /\ Len(to_dev) = left + WIDTH
    BY Whole
  <2>2. CASE Counting /\ Len(to_dev) = 1
    <3>1. Len(to_dev') = 0
      BY <1>3, <2>2
    <3>2. to_dev' = <<>>
      BY <1>3, <3>1, Nothing
    <3> QED BY <1>2, <2>2, <3>2 DEF Short, Counting
  <2>3. CASE dev = "base" /\ Len(field) + Len(to_dev) = 2 * WIDTH
    <3>1. Len(field') + Len(to_dev') < 2 * WIDTH
      BY <1>2, <1>3, <2>1, <2>3
    <3> QED BY <1>2, <2>3, <3>1 DEF Short
  <2>4. CASE dev \in {"size", "sum", "entry"} /\ Len(field) + Len(to_dev) = WIDTH
    <3>1. Len(field') + Len(to_dev') < WIDTH
      BY <1>2, <1>3, <2>1, <2>4
    <3> QED BY <1>2, <2>4, <3>1 DEF Short
  <2>5. CASE dev = "data" /\ left \in Nat /\ Len(to_dev) = left + WIDTH
    <3>1. Len(to_dev') < left' + WIDTH
      BY <1>2, <1>3, <2>1, <2>5
    <3> QED BY <1>2, <2>5, <3>1 DEF Short
  <2> QED BY <2>1, <2>2, <2>3, <2>4, <2>5
<1>5. dev # "switch" /\ (dev = "data" => left \in Nat /\ left >= 1)
  <2>1. dev \in {"count", "base", "size", "data", "sum", "entry"}
    BY DEF UnderWay, Counting, Heading, Storing, Reading, Summing, Entering, AtEntry
  <2>2. Counting => dev # "data"
    BY DEF Counting
  <2> QED BY <2>1, <2>2, Whole
<1>6. Lost'
  BY <1>1, <1>2, <1>4, <1>5, NoAnswer DEF Lost, Waits
<1> QED BY <1>6 DEF Situation

\* A byte of it is damaged: another x comes, that differs in one place more.
LEMMA ComesDamaged ==
  ASSUME NEW x, NEW y, NEW q \in Nat, NEW b, x \in [1 .. Len(y) -> Byte], b \in Byte, q \in 1 .. Len(y), damaged \in Nat,
         Comes(x, y), damaged' = damaged + 1
  PROVE [x EXCEPT ![q] = b] \in [1 .. Len(y) -> Byte] /\ Comes([x EXCEPT ![q] = b], y)'
<1> DEFINE z == [x EXCEPT ![q] = b]
<1>1. z \in [1 .. Len(y) -> Byte] /\ \A k \in 1 .. Len(y) : k # q => z[k] = x[k]
  OBVIOUS
<1> HIDE DEF z
<1>2. damaged' # 0
  OBVIOUS
<1>3. damaged' = 1 => damaged = 0
  OBVIOUS
<1>4. damaged' = 1 => \E p \in Nat : \A k \in 1 .. Len(y) : k # p => z[k] = y[k]
  BY <1>1, <1>3 DEF Comes
<1>5. Comes(z, y)'
  BY <1>2, <1>4 DEF Comes
<1> QED BY <1>1, <1>5 DEF z

\* The bytes that have been summed are not among those that are damaged now.
LEMMA SumsBefore ==
  ASSUME NEW T \in Nat, NEW x \in [1 .. T -> Byte], NEW z \in [1 .. T -> Byte], NEW q \in 1 .. T, NEW n \in Nat, n < q,
         \A k \in 1 .. T : k # q => z[k] = x[k]
  PROVE Sums(z)[n] = Sums(x)[n]
<1>2. Len(x) = T /\ Len(z) = T
  OBVIOUS
<1>3. (\A i \in 1 .. T : x[i] \in Byte) /\ (\A i \in 1 .. T : z[i] \in Byte)
  OBVIOUS
<1>4. Numbers(x) /\ Numbers(z)
  BY <1>2, <1>3, Sizes DEF Numbers
<1>5. Alike(z, x, n)
  BY DEF Alike
<1> QED BY <1>2, <1>4, <1>5, SumsOfPart

LEMMA Replaced ==
  ASSUME NEW t \in Seq(Byte), t # <<>>, NEW b \in Byte
  PROVE /\ <<b>> \o Tail(t) \in Seq(Byte) /\ Len(<<b>> \o Tail(t)) = Len(t) /\ (<<b>> \o Tail(t))[1] = b
        /\ \A k \in 2 .. Len(t) : (<<b>> \o Tail(t))[k] = t[k]
  OBVIOUS

LEMMA ReadingDamage ==
  ASSUME Typed, NEW s \in 1 .. N, NEW x \in [1 .. Len(Body(s)) -> Byte], NEW n \in Nat, Reading(x, s, n), NEW b \in Byte,
         to_dev # <<>>, to_dev' = <<b>> \o Tail(to_dev), UNCHANGED dev_vars
  PROVE n + 1 \in 1 .. Len(Body(s)) /\ Reading([x EXCEPT ![n + 1] = b], s, n)'
<1>0. PICK q \in Nat : q = n + 1
  OBVIOUS
<1> DEFINE L == Len(Segments[s].data)
           B == Segments[s].base
           T == Len(Body(s))
           z == [x EXCEPT ![q] = b]
           f == Len(field)
           m == Power[WIDTH]
<1>1. L \in Nat /\ B \in Nat /\ T = L + WIDTH /\ WIDTH \in Nat /\ WIDTH >= 1 /\ T \in Nat /\ f \in Nat /\ Len(to_dev) \in Nat
  <2>1. L \in Nat /\ B \in Nat /\ T = L + WIDTH /\ WIDTH \in Nat /\ WIDTH >= 1
    BY SegmentIs, BodyIs
  <2>2. f \in Nat /\ Len(to_dev) \in Nat
    BY DEF Typed
  <2>3. T \in Nat
    BY <2>1
  <2> QED BY <2>1, <2>2, <2>3
<1>2. /\ dev = "data" /\ n \in 0 .. L - 1 /\ left = L - n
      /\ Len(to_dev) = T - n /\ \A k \in 1 .. Len(to_dev) : to_dev[k] = x[n + k]
      /\ f <= n /\ \A k \in 1 .. f : field[k] = x[n - f + k]
      /\ field = <<>> \/ left + f >= WIDTH
      /\ base = B + n - f
      /\ checksum = Sums(x)[n] % m
      /\ \A a \in B .. base - 1 : a \in DOMAIN mem /\ mem[a] = x[a - B + 1]
  BY DEF Reading
<1>3. UNCHANGED <<dev, field, seg_count, seg, base, left, checksum, entry, mem, dev_speed>>
  BY DEF dev_vars
<1>4. Len(to_dev') = Len(to_dev) /\ to_dev'[1] = b /\ \A k \in 2 .. Len(to_dev) : to_dev'[k] = to_dev[k]
  BY Replaced DEF Typed
<1> HIDE DEF L, B, T, f, m
<1>5. q \in 1 .. T /\ x \in [1 .. T -> Byte]
  BY <1>0, <1>1, <1>2 DEF T
<1>6. z[q] = b /\ (\A k \in 1 .. T : k # q => z[k] = x[k]) /\ z \in [1 .. T -> Byte]
  BY <1>5
<1>7. Sums(z)[n] = Sums(x)[n]
  <2>1. n < q
    BY <1>0
  <2> HIDE DEF z
  <2>2. T \in Nat /\ x \in [1 .. T -> Byte] /\ z \in [1 .. T -> Byte] /\ q \in 1 .. T /\ n \in Nat
    BY <1>1, <1>5, <1>6
  <2>3. \A k \in 1 .. T : k # q => z[k] = x[k]
    BY <1>6
  <2> QED BY ONLY <2>1, <2>2, <2>3, SumsBefore
<1> HIDE DEF z
<1>8. Len(to_dev') = T - n /\ \A k \in 1 .. Len(to_dev') : to_dev'[k] = z[n + k]
  <2>1. ASSUME NEW k \in 1 .. Len(to_dev) PROVE to_dev'[k] = z[n + k]
    <3>1. CASE k = 1
      BY <1>0, <1>4, <1>6, <3>1
    <3>2. CASE k # 1
      <4>1. k \in 2 .. Len(to_dev) /\ n + k \in 1 .. T /\ n + k # q
        BY <1>0, <1>1, <1>2, <2>1, <3>2
      <4> QED BY <1>2, <1>4, <1>6, <4>1
    <3> QED BY <3>1, <3>2
  <2> QED BY <1>2, <1>4, <2>1
<1>9. \A k \in 1 .. f : field[k] = z[n - f + k]
  <2>1. \A k \in 1 .. f : n - f + k \in 1 .. T /\ n - f + k # q
    BY <1>0, <1>1, <1>2
  <2> QED BY <1>2, <1>6, <2>1
<1>10. \A a \in B .. base - 1 : a \in DOMAIN mem /\ mem[a] = z[a - B + 1]
  <2>1. \A a \in B .. base - 1 : a - B + 1 \in 1 .. T /\ a - B + 1 # q
    BY <1>0, <1>1, <1>2
  <2> QED BY <1>2, <1>6, <2>1
<1>11. f' = f
  BY <1>3 DEF f
<1>12. Reading(z, s, n)'
  BY <1>2, <1>3, <1>7, <1>8, <1>9, <1>10, <1>11 DEF Reading, L, B, T, f, m
<1> QED BY <1>0, <1>5, <1>12 DEF T, z

LEMMA SummingDamage ==
  ASSUME Typed, NEW s \in 1 .. N, NEW x \in [1 .. Len(Body(s)) -> Byte], Summing(x, s), NEW b \in Byte,
         to_dev # <<>>, to_dev' = <<b>> \o Tail(to_dev), UNCHANGED dev_vars
  PROVE \E q \in 1 .. Len(Body(s)) : Summing([x EXCEPT ![q] = b], s)'
<1>0. PICK q : q = Len(Segments[s].data) + Len(field) + 1
  OBVIOUS
<1> DEFINE L == Len(Segments[s].data)
           B == Segments[s].base
           T == Len(Body(s))
           f == Len(field)
           z == [x EXCEPT ![q] = b]
           m == Power[WIDTH]
           w == [k \in 1 .. WIDTH |-> x[L + k]]
           u == [k \in 1 .. WIDTH |-> z[L + k]]
           t == to_dev'
<1>1. L \in Nat /\ B \in Nat /\ T = L + WIDTH /\ WIDTH \in Nat /\ WIDTH >= 1 /\ T \in Nat /\ f \in Nat
  <2>1. L \in Nat /\ B \in Nat /\ T = L + WIDTH /\ WIDTH \in Nat /\ WIDTH >= 1
    BY SegmentIs, BodyIs
  <2>2. f \in Nat
    BY DEF Typed
  <2>3. T \in Nat
    BY <2>1
  <2> QED BY <2>1, <2>2, <2>3
<1>2. /\ dev = "sum" /\ field \o to_dev = w /\ checksum = Sums(x)[L] % m
      /\ \A a \in Area(s) : a \in DOMAIN mem /\ mem[a] = x[a - B + 1]
  BY DEF Summing
<1>3. UNCHANGED <<dev, field, seg_count, seg, base, left, checksum, entry, mem, dev_speed>>
  BY DEF dev_vars
<1>4. t \in Seq(Byte) /\ Len(t) = Len(to_dev) /\ t[1] = b /\ \A k \in 2 .. Len(to_dev) : t[k] = to_dev[k]
  BY Replaced DEF Typed
<1>5. /\ field \in Seq(Byte) /\ to_dev \in Seq(Byte) /\ Len(to_dev) \in Nat /\ Len(to_dev) >= 1
  BY Taking DEF Typed
<1> HIDE DEF t, L, B, T, m
<1>6. f + Len(to_dev) = WIDTH
  <2>1. Len(w) = WIDTH
    BY <1>1
  <2> HIDE DEF w
  <2> QED BY <1>2, <1>5, <2>1, Joining
<1>a. q = L + f + 1
  BY <1>0 DEF L, f
<1>7. q \in 1 .. T /\ x \in [1 .. T -> Byte]
  <2>1. q \in 1 .. T
    <3> HIDE DEF f
    <3> QED BY <1>a, <1>1, <1>5, <1>6
  <2> QED BY <2>1 DEF T
<1> HIDE DEF f
<1>8. z[q] = b /\ (\A k \in 1 .. T : k # q => z[k] = x[k]) /\ z \in [1 .. T -> Byte]
  BY <1>7
<1>9. Sums(z)[L] = Sums(x)[L]
  <2>1. L < q
    BY <1>a, <1>1
  <2> HIDE DEF z
  <2>2. T \in Nat /\ x \in [1 .. T -> Byte] /\ z \in [1 .. T -> Byte] /\ q \in 1 .. T /\ L \in Nat
    BY <1>1, <1>7, <1>8
  <2>3. \A k \in 1 .. T : k # q => z[k] = x[k]
    BY <1>8
  <2> QED BY ONLY <2>1, <2>2, <2>3, SumsBefore
<1> HIDE DEF z
<1>10. field \o t = u
  <2> DEFINE v == field \o t
  <2>1. v \in Seq(Byte) /\ Len(v) = WIDTH
    <3>1. v \in Seq(Byte) /\ Len(v) = Len(field) + Len(t)
      BY <1>4, <1>5, Joining
    <3> HIDE DEF v
    <3> QED BY <1>4, <1>6, <3>1 DEF f
  <2>2. u \in Seq(Byte) /\ Len(u) = WIDTH
    <3>1. \A k \in 1 .. WIDTH : z[L + k] \in Byte
      BY <1>1, <1>8
    <3>2. u \in [1 .. WIDTH -> Byte]
      BY <3>1
    <3> HIDE DEF u
    <3> QED BY <1>1, <3>2
  <2>3. ASSUME NEW k \in 1 .. WIDTH PROVE v[k] = u[k]
    <3>0. u[k] = z[L + k] /\ w[k] = x[L + k] /\ L + k \in 1 .. T
      BY <1>1
    <3>1. CASE k <= f
      <4>1. k \in 1 .. Len(field) /\ L + k # q
        <5>1. k <= f /\ f \in Nat /\ L + k # q
          BY <1>a, <1>1, <2>3, <3>1
        <5> QED BY <2>3, <5>1 DEF f
      <4>2. v[k] = field[k] /\ (field \o to_dev)[k] = field[k]
        BY <1>4, <1>5, <4>1, Joining
      <4> HIDE DEF v, u, w
      <4> QED BY <1>2, <1>8, <3>0, <4>1, <4>2
    <3>2. CASE k > f
      <4> DEFINE j == k - f
      <4>1. j \in 1 .. Len(to_dev) /\ f + j = k
        BY <1>1, <1>5, <1>6, <3>2
      <4>2. v[f + j] = t[j] /\ (field \o to_dev)[f + j] = to_dev[j]
        <5> HIDE DEF j
        <5> QED BY <1>4, <1>5, <4>1, Second DEF f
      <4>3. CASE j = 1
        <5>1. L + k = q
          BY <1>a, <1>1, <4>1, <4>3
        <5> HIDE DEF v, u, w, j
        <5> QED BY <1>4, <1>8, <3>0, <4>1, <4>2, <4>3, <5>1
      <4>4. CASE j # 1
        <5>1. L + k # q /\ j \in 2 .. Len(to_dev)
          BY <1>a, <1>1, <1>5, <4>1, <4>4
        <5> HIDE DEF v, u, w, j
        <5> QED BY <1>2, <1>4, <1>8, <3>0, <4>1, <4>2, <5>1
      <4> QED BY <4>3, <4>4
    <3>3. k <= f \/ k > f
      BY <1>1, <2>3
    <3> HIDE DEF v, u, w
    <3> QED BY <3>1, <3>2, <3>3
  <2> HIDE DEF v, u
  <2>4. v = u
    BY <2>1, <2>2, <2>3, SameSequence
  <2> QED BY <2>4 DEF v
<1>11. \A a \in Area(s) : a \in DOMAIN mem /\ mem[a] = z[a - B + 1]
  <2>1. Area(s) = B .. B + L - 1
    BY DEF Area, B, L
  <2>2. \A a \in B .. B + L - 1 : a - B + 1 \in 1 .. T /\ a - B + 1 # q
    BY <1>a, <1>1
  <2> QED BY <1>2, <1>8, <2>1, <2>2
<1>12. Summing(z, s)'
  <2>1. field' \o to_dev' = u
    BY <1>3, <1>10 DEF t
  <2>2. dev' = "sum" /\ checksum' = Sums(z)[L] % m
    BY <1>2, <1>3, <1>9
  <2>3. \A a \in Area(s) : a \in DOMAIN mem' /\ mem'[a] = z[a - B + 1]
    BY <1>3, <1>11
  <2> HIDE DEF w, z
  <2> QED BY <2>1, <2>2, <2>3 DEF Summing, L, B, m
<1>13. q \in 1 .. Len(Body(s)) /\ Summing([x EXCEPT ![q] = b], s)'
  BY <1>7, <1>12 DEF T, z
<1> QED BY <1>13

LEMMA UnderWayDamage == ASSUME Typed, UnderWay, Damage PROVE Situation'
<1>1. dev \in {"data", "sum"} /\ to_dev # <<>> /\ damaged' = damaged + 1 /\ damaged \in Nat
  BY DEF Damage, Typed
<1>2. /\ UNCHANGED <<host, sent, divisor, host_speed>> /\ UNCHANGED dev_vars /\ to_host' = <<>>
      /\ UNCHANGED <<dev, field, seg_count, seg, base, left, checksum, entry, mem, dev_speed>>
  BY DEF Damage, host_vars, dev_vars, UnderWay
<1>3. PICK b \in Byte : to_dev' = <<b>> \o Tail(to_dev)
  BY DEF Damage
<1>4. Storing /\ host = "sum_wait"
  BY <1>1 DEF UnderWay, Counting, Heading, Storing, Entering, AtEntry
<1>5. PICK s \in 1 .. N : \E x \in [1 .. Len(Body(s)) -> Byte] :
        /\ s = sent /\ AtSegment(s) /\ Kept(s - 1, s) /\ Comes(x, Body(s))
        /\ Summing(x, s) \/ \E n \in Nat : Reading(x, s, n)
  BY <1>4, Part
<1>6. PICK x \in [1 .. Len(Body(s)) -> Byte] :
        /\ s = sent /\ AtSegment(s) /\ Kept(s - 1, s) /\ Comes(x, Body(s))
        /\ Summing(x, s) \/ \E n \in Nat : Reading(x, s, n)
  BY <1>5
<1>7. AtSegment(s)'
  BY <1>2, <1>6 DEF AtSegment, SameSpeed
<1>8. Kept(s - 1, s)'
  <2>1. damaged' <= 1 => damaged <= 1
    BY <1>1
  <2> QED BY <1>2, <1>6, <2>1 DEF Kept, Images
<1>9. \E q \in 1 .. Len(Body(s)) : Summing([x EXCEPT ![q] = b], s)' \/ \E n \in Nat : Reading([x EXCEPT ![q] = b], s, n)'
  <2>1. CASE Summing(x, s)
    BY <1>1, <1>2, <1>3, <2>1, SummingDamage
  <2>2. CASE \E n \in Nat : Reading(x, s, n)
    <3>1. PICK n \in Nat : Reading(x, s, n)
      BY <2>2
    <3>2. n + 1 \in 1 .. Len(Body(s)) /\ Reading([x EXCEPT ![n + 1] = b], s, n)'
      BY <1>1, <1>2, <1>3, <3>1, ReadingDamage
    <3> QED BY <3>2
  <2> QED BY <1>6, <2>1, <2>2
<1>10. PICK q \in 1 .. Len(Body(s)) : Summing([x EXCEPT ![q] = b], s)' \/ \E n \in Nat : Reading([x EXCEPT ![q] = b], s, n)'
  BY <1>9
<1>11. PICK z : z = [x EXCEPT ![q] = b]
  OBVIOUS
<1>12. z \in [1 .. Len(Body(s)) -> Byte] /\ Comes(z, Body(s))'
  <2>1. q \in Nat
    BY BodyIs
  <2> QED BY <1>1, <1>6, <1>11, <2>1, ComesDamaged
<1>13. Summing(z, s)' \/ \E n \in Nat : Reading(z, s, n)'
  BY <1>10, <1>11
<1> QED BY <1>2, <1>4, <1>6, <1>7, <1>8, <1>12, <1>13, PartAgain

LEMMA UnderWayLine == ASSUME Typed, UnderWay, Lose \/ Damage PROVE Situation'
  BY UnderWayLose, UnderWayDamage

(* ----------------------------------------------------------------------- *)
(* Something is lost                                                        *)
(* ----------------------------------------------------------------------- *)

\* What is short stays short when no more comes.
LEMMA ShortStays ==
  ASSUME Typed, Short, to_dev' \in Seq(Byte), Len(to_dev') <= Len(to_dev), UNCHANGED <<dev, left, field>>,
         dev = "data" => left \in Nat
  PROVE Short'
<1>1. Len(to_dev) \in Nat /\ Len(to_dev') \in Nat /\ Len(field) \in Nat /\ WIDTH \in Nat
  BY Sizes DEF Typed
<1>2. to_dev = <<>> => to_dev' = <<>>
  BY <1>1, Nothing
<1>3. CASE dev \in {"switch", "count"} /\ to_dev = <<>>
  BY <1>2, <1>3 DEF Short
<1>4. CASE dev = "base" /\ Len(field) + Len(to_dev) < 2 * WIDTH
  <2>1. Len(field') + Len(to_dev') < 2 * WIDTH
    BY <1>1, <1>4
  <2> QED BY <1>4, <2>1 DEF Short
<1>5. CASE dev \in {"size", "sum", "entry"} /\ Len(field) + Len(to_dev) < WIDTH
  <2>1. Len(field') + Len(to_dev') < WIDTH
    BY <1>1, <1>5
  <2> QED BY <1>5, <2>1 DEF Short
<1>6. CASE dev = "data" /\ Len(to_dev) < left + WIDTH
  <2>1. Len(to_dev') < left' + WIDTH
    BY <1>1, <1>6
  <2> QED BY <1>6, <2>1 DEF Short
<1> QED BY <1>3, <1>4, <1>5, <1>6 DEF Short

\* The loader takes a byte of what is short.
LEMMA ShortTaken ==
  ASSUME Typed, Short, to_dev # <<>>, to_dev' = Tail(to_dev), dev \in Receiving, Receive(Head(to_dev)),
         dev = "data" => left \in Nat /\ left >= 1
  PROVE /\ Short' /\ to_host' = to_host
        /\ \/ dev \in {"base", "size"} /\ dev' \in {"base", "size"}
           \/ dev \in {"data", "sum"} /\ dev' \in {"data", "sum"} /\ (dev' = "data" => left' \in Nat /\ left' >= 1)
           \/ dev = "entry" /\ dev' = "entry"
<1> DEFINE b == Head(to_dev)
           got == Append(field, b)
           f == Len(field)
           t == Len(to_dev)
<1>1. /\ b \in Byte /\ t \in Nat /\ t >= 1 /\ Len(to_dev') = t - 1 /\ Len(to_dev') \in Nat
      /\ f \in Nat /\ f < WIDTH /\ WIDTH \in Nat
  BY Taking, Sizes DEF Typed
<1>2. Len(got) = f + 1
  BY <1>1, Appending DEF Typed
<1> HIDE DEF b, f, t, got
<1>3. CASE dev = "base"
  <2>1. f + t < 2 * WIDTH
    BY <1>3 DEF Short, f, t
  <2>2. Collect(b, SegBase)
    BY <1>3 DEF Receive, b
  <2>3. CASE f + 1 < WIDTH
    <3>1. field' = got /\ UNCHANGED <<to_host, dev>>
      BY <2>2, <2>3 DEF Collect, got, f
    <3>2. Len(field') + Len(to_dev') < 2 * WIDTH
      BY <1>1, <1>2, <2>1, <3>1
    <3> QED BY <1>3, <3>1, <3>2 DEF Short
  <2>4. CASE ~(f + 1 < WIDTH)
    <3>1. field' = <<>> /\ dev' = "size" /\ to_host' = to_host
      BY <2>2, <2>4 DEF Collect, SegBase, f
    <3>2. Len(field') = 0
      BY <3>1
    <3>3. Len(field') + Len(to_dev') < WIDTH
      BY <1>1, <2>1, <2>4, <3>2
    <3> QED BY <1>3, <3>1, <3>3 DEF Short
  <2> QED BY <2>3, <2>4
<1>4. CASE dev \in {"size", "sum", "entry"}
  <2>1. f + t < WIDTH /\ f + 1 < WIDTH
    <3>1. f + t < WIDTH
      BY <1>4 DEF Short, f, t
    <3> QED BY <1>1, <3>1
  <2>2. field' = got /\ UNCHANGED <<to_host, dev>>
    BY <1>4, <2>1 DEF Receive, Collect, got, f, b
  <2>3. Len(field') + Len(to_dev') < WIDTH
    BY <1>1, <1>2, <2>1, <2>2
  <2> QED BY <1>4, <2>2, <2>3 DEF Short
<1>5. CASE dev = "data"
  <2>1. t < left + WIDTH /\ left \in Nat /\ left >= 1
    BY <1>5 DEF Short, t
  <2>2. Data(b)
    BY <1>5 DEF Receive, b
  <2>3. left' = left - 1 /\ dev' = (IF left = 1 THEN "sum" ELSE "data") /\ to_host' = to_host
    BY <2>2 DEF Data
  <2>4. CASE left = 1
    <3>1. field' = <<>>
      <4>1. ~(Len(got) < WIDTH /\ left >= WIDTH - f)
        BY <1>1, <1>2, <2>4
      <4> QED BY <2>2, <4>1 DEF Data, got, f
    <3>2. Len(field') = 0
      BY <3>1
    <3>3. Len(field') + Len(to_dev') < WIDTH
      BY <1>1, <2>1, <2>4, <3>2
    <3> QED BY <1>5, <2>3, <2>4, <3>3 DEF Short
  <2>5. CASE left # 1
    <3>1. Len(to_dev') < left' + WIDTH /\ left' \in Nat /\ left' >= 1
      BY <1>1, <2>1, <2>3, <2>5
    <3> QED BY <1>5, <2>3, <2>5, <3>1 DEF Short
  <2> QED BY <2>4, <2>5
<1> QED BY <1>3, <1>4, <1>5 DEF Short, Receiving

LEMMA LostLoader == ASSUME Typed, Lost, Loader PROVE Situation'
<1>0. UNCHANGED <<host, host_speed>>
  BY DEF Loader, host_vars
<1>1. CASE SwitchSpeed
  <2>1. dev = "switch" /\ to_dev = <<>> /\ host_speed # left
    BY <1>1 DEF SwitchSpeed, Lost, Short
  <2>2. dev' = "count" /\ to_host' = to_host /\ to_dev' = <<>>
    BY <1>1, <2>1 DEF SwitchSpeed
  <2>3. Lost'
    BY <1>0, <2>1, <2>2 DEF Lost, Short
  <2> QED BY <2>3 DEF Situation
<1>2. CASE DevReceive
  <2>1. to_dev # <<>> /\ dev \in Receiving /\ to_dev' = Tail(to_dev)
    BY <1>2 DEF DevReceive
  <2>2. Short /\ NoAck(to_host) /\ (dev = "data" => left \in Nat /\ left >= 1)
    BY <2>1 DEF Lost, Receiving
  <2>3. CASE Receive(Head(to_dev))
    <3>1. /\ Short' /\ to_host' = to_host
          /\ \/ dev \in {"base", "size"} /\ dev' \in {"base", "size"}
             \/ dev \in {"data", "sum"} /\ dev' \in {"data", "sum"} /\ (dev' = "data" => left' \in Nat /\ left' >= 1)
             \/ dev = "entry" /\ dev' = "entry"
      BY <2>1, <2>2, <2>3, ShortTaken
    <3>2. Lost'
      BY <1>0, <2>1, <2>2, <3>1 DEF Lost
    <3> QED BY <3>2 DEF Situation
  <2>4. CASE UNCHANGED <<to_host, dev_vars>>
    <3>1. UNCHANGED <<to_host, dev, left, field>>
      BY <2>4 DEF dev_vars
    <3>2. Len(to_dev') <= Len(to_dev) /\ to_dev' \in Seq(Byte)
      BY <2>1, Taking DEF Typed
    <3>3. Short'
      BY <2>2, <3>1, <3>2, ShortStays
    <3>4. Lost'
      BY <1>0, <2>1, <2>2, <3>1, <3>3 DEF Lost
    <3> QED BY <3>4 DEF Situation
  <2> QED BY <1>2, <2>3, <2>4 DEF DevReceive
<1>3. ~Speak
  BY DEF Speak, Lost, Short
<1> QED BY <1>1, <1>2, <1>3 DEF Loader

LEMMA LostHost == ASSUME Typed, Lost, Host PROVE Situation'
<1>0. UNCHANGED <<dev, left, field>>
  BY DEF Host, dev_vars
<1>1. Await
  BY DEF Host, Lost, Waits, SendSync, AwaitSync, SendDivisor, Reconfigure, SendCount, SendHeader, SendData, SendEntry, Drain
<1>2. to_host # <<>> => Head(to_host) # "ACK" /\ NoAck(Tail(to_host))
  BY AnswerTaken DEF Lost, Typed
<1>3. host' = "failed" /\ UNCHANGED <<to_dev, host_speed>> /\ (to_host' = to_host \/ (to_host # <<>> /\ to_host' = Tail(to_host)))
  BY <1>1, <1>2 DEF Await, Accepted, Goto
<1>4. NoAck(to_host')
  BY <1>2, <1>3 DEF Lost
<1>5. dev' = "hung" \/ Short'
  <2>1. Short => Short'
    BY <1>0, <1>3 DEF Short
  <2> QED BY <1>0, <2>1 DEF Lost
<1>6. Lost'
  BY <1>0, <1>3, <1>4, <1>5 DEF Lost
<1> QED BY <1>6 DEF Situation

LEMMA LostLine == ASSUME Typed, Lost, Lose \/ Damage PROVE Situation'
<1>0. UNCHANGED <<dev, left, field, host, host_speed>>
  BY DEF Lose, Damage, host_vars, dev_vars
<1>1. to_host' = to_host \/ (to_host # <<>> /\ to_host' = Tail(to_host))
  BY DEF Lose, Damage
<1>2. NoAck(to_host')
  BY <1>1, AnswerTaken DEF Lost, Typed
<1>3. to_dev' \in Seq(Byte) /\ Len(to_dev') <= Len(to_dev)
  <2>1. CASE to_dev' = to_dev
    BY <2>1 DEF Typed
  <2>2. CASE to_dev # <<>> /\ to_dev' = Tail(to_dev)
    BY <2>2, Taking DEF Typed
  <2>3. CASE Damage
    <3>1. PICK b \in Byte : to_dev # <<>> /\ to_dev' = <<b>> \o Tail(to_dev)
      BY <2>3 DEF Damage
    <3>2. to_dev' \in Seq(Byte) /\ Len(to_dev') = Len(to_dev) /\ Len(to_dev) \in Nat
      BY <3>1, Replaced DEF Typed
    <3> QED BY <3>2
  <2> QED BY <2>1, <2>2, <2>3 DEF Lose
<1>4. to_dev = <<>> => to_dev' = <<>>
  <2>1. Len(to_dev') \in Nat
    BY <1>3
  <2> QED BY <1>3, <2>1, Nothing
<1>5. dev' = "hung" \/ Short'
  <2>1. dev = "data" => left \in Nat
    BY DEF Lost
  <2>2. Short => Short'
    BY <1>0, <1>3, <2>1, ShortStays
  <2> QED BY <1>0, <2>2 DEF Lost
<1>6. Lost'
  BY <1>0, <1>2, <1>4, <1>5 DEF Lost
<1> QED BY <1>6 DEF Situation

(* ----------------------------------------------------------------------- *)
(* The program has been started                                             *)
(* ----------------------------------------------------------------------- *)

LEMMA StartedLoader == ASSUME Typed, Started, Loader PROVE Situation'
<1>1. Speak
  BY DEF Loader, Started, DevReceive, Receiving, SwitchSpeed
<1>2. dev' = "running" /\ UNCHANGED <<entry, seg_count, mem, host, damaged>>
  BY <1>1 DEF Speak, Started, Loader, host_vars, faults
<1>3. Kept(N, N)'
  BY <1>2, KeptStays DEF Started
<1> QED BY <1>2, <1>3 DEF Started, Situation

LEMMA StartedHost == ASSUME Typed, Started, Host PROVE Situation'
<1>1. Await \/ Drain
  BY DEF Host, Started, SendSync, AwaitSync, SendDivisor, Reconfigure, SendCount, SendHeader, SendData, SendEntry
<1>2. host' \in {"entry_drain", "ok", "failed"}
  BY <1>1 DEF Await, Drain, Started, Goto, AfterAck
<1>3. UNCHANGED <<dev, entry, seg_count, mem, damaged>>
  BY DEF Host, dev_vars
<1>4. Kept(N, N)'
  BY <1>3, KeptStays DEF Started
<1> QED BY <1>2, <1>3, <1>4 DEF Started, Situation

LEMMA StartedLine == ASSUME Typed, Started, Lose \/ Damage PROVE Situation'
<1>1. UNCHANGED <<dev, entry, seg_count, mem, damaged, host>>
  BY DEF Lose, Damage, Started, host_vars, dev_vars
<1>2. Kept(N, N)'
  BY <1>1, KeptStays DEF Started
<1> QED BY <1>1, <1>2 DEF Started, Situation

(* ----------------------------------------------------------------------- *)
(* The theorem                                                              *)
(* ----------------------------------------------------------------------- *)

LEMMA Stutter == ASSUME Typed, Situation, UNCHANGED vars PROVE Typed' /\ Situation'
<1>0. /\ UNCHANGED <<to_dev, to_host, host, attempt, sent, divisor, host_speed, damaged>>
      /\ UNCHANGED <<dev, field, seg_count, seg, base, left, checksum, entry, mem, dev_speed>>
  BY DEF vars, line, host_vars, dev_vars, faults
<1>1. Typed'
  BY <1>0 DEF Typed
<1> SUFFICES Situation'
  BY <1>1
<1>2. CASE Starting \/ Asked
  BY <1>0, <1>2 DEF Starting, Asked, Situation
<1>3. CASE Offered
  <2>1. Queued(to_dev)' <=> Queued(to_dev)
    BY <1>0 DEF Queued
  <2>2. (field \o to_dev = Le32(divisor))' <=> (field \o to_dev = Le32(divisor))
    BY <1>0
  <2> QED BY <1>0, <1>3, <2>1, <2>2 DEF Offered, Situation
<1>4. CASE Deaf \/ Switched
  BY <1>0, <1>4 DEF Deaf, Switched, Situation
<1>5. CASE Turn
  <2>1. PICK pc, s : pc = host /\ s = sent
    OBVIOUS
  <2>2. Expects(pc, s)'
    BY <1>0, <1>5, <2>1, ExpectsStays DEF Turn
  <2>3. Expects(host, sent)'
    BY <1>0, <2>1, <2>2
  <2> QED BY <1>0, <1>5, <2>3 DEF Turn, Situation
<1>6. CASE Acked
  <2>1. PICK pc, s : pc = AfterAck /\ s = Sent
    OBVIOUS
  <2>2. Expects(pc, s)'
    BY <1>0, <1>6, <2>1, ExpectsStays DEF Acked
  <2>3. AfterAck' = pc /\ Sent' = s
    BY <1>0, <2>1 DEF AfterAck, Sent
  <2>4. Expects(AfterAck, Sent)'
    BY <2>2, <2>3
  <2> QED BY <1>0, <1>6, <2>4 DEF Acked, Situation
<1>7. CASE UnderWay
  <2>1. to_host' = <<>>
    BY <1>0, <1>7 DEF UnderWay
  <2>2. CASE Counting
    BY <1>0, <2>1, <2>2 DEF Counting, SameSpeed, UnderWay, Situation
  <2>3. CASE Heading
    <3>1. PICK n : n = sent - 1
      OBVIOUS
    <3>2. Kept(n, n)'
      BY <1>0, <2>3, <3>1, KeptStays DEF Heading
    <3>3. Kept(sent - 1, sent - 1)'
      BY <1>0, <3>1, <3>2
    <3>4. AtSegment(sent)'
      BY <1>0, <2>3 DEF Heading, AtSegment, SameSpeed
    <3>5. Heading'
      BY <1>0, <2>3, <3>3, <3>4 DEF Heading
    <3> QED BY <2>1, <3>5 DEF UnderWay, Situation
  <2>4. CASE Storing
    <3>1. host' = "sum_wait"
      BY <1>0, <2>4 DEF Storing
    <3>2. PICK s \in 1 .. N : \E x \in [1 .. Len(Body(s)) -> Byte] :
            /\ s = sent /\ AtSegment(s) /\ Kept(s - 1, s) /\ Comes(x, Body(s))
            /\ Summing(x, s) \/ \E n \in Nat : Reading(x, s, n)
      BY <2>4, Part
    <3>3. PICK x \in [1 .. Len(Body(s)) -> Byte] :
            /\ s = sent /\ AtSegment(s) /\ Kept(s - 1, s) /\ Comes(x, Body(s))
            /\ Summing(x, s) \/ \E n \in Nat : Reading(x, s, n)
      BY <3>2
    <3>4. AtSegment(s)'
      BY <1>0, <3>3 DEF AtSegment, SameSpeed
    <3>5. Kept(s - 1, s)'
      BY <1>0, <3>3, KeptStays
    <3>6. Comes(x, Body(s))'
      BY <1>0, <3>3, ComesStays
    <3>7. CASE Summing(x, s)
      <4>1. Summing(x, s)'
        BY <1>0, <3>7 DEF Summing
      <4> QED BY <1>0, <2>1, <3>1, <3>3, <3>4, <3>5, <3>6, <4>1, PartAgain
    <3>8. CASE \E n \in Nat : Reading(x, s, n)
      <4>1. PICK n \in Nat : Reading(x, s, n)
        BY <3>8
      <4>2. Reading(x, s, n)'
        BY <1>0, <4>1 DEF Reading
      <4> QED BY <1>0, <2>1, <3>1, <3>3, <3>4, <3>5, <3>6, <4>2, PartAgain
    <3> QED BY <3>3, <3>7, <3>8
  <2>5. CASE Entering
    <3>1. Kept(N, N)'
      BY <1>0, <2>5, KeptStays DEF Entering, AtEntry
    <3>2. Entering'
      BY <1>0, <2>5, <3>1 DEF Entering, AtEntry, SameSpeed
    <3> QED BY <2>1, <3>2 DEF UnderWay, Situation
  <2> QED BY <1>7, <2>2, <2>3, <2>4, <2>5 DEF UnderWay
<1>8. CASE Lost
  BY <1>0, <1>8 DEF Lost, Short, Situation
<1>9. CASE Started
  <2>1. Kept(N, N)'
    BY <1>0, <1>9, KeptStays DEF Started
  <2> QED BY <1>0, <1>9, <2>1 DEF Started, Situation
<1> QED BY <1>2, <1>3, <1>4, <1>5, <1>6, <1>7, <1>8, <1>9 DEF Situation

LEMMA InvInit == ASSUME Init PROVE IInv
<1>1. Starting
  BY NoAnswer DEF Init, Starting
<1> QED BY <1>1, TypedInit DEF IInv, Situation

LEMMA InvNext == ASSUME IInv, [Next]_vars PROVE IInv'
<1>0. Typed /\ Situation
  BY DEF IInv
<1>1. CASE Loader
  <2>1. Typed'
    BY <1>0, <1>1, TypedLoader
  <2>2. Situation'
    <3>1. CASE Offered
      BY <1>0, <1>1, <3>1, OfferedLoader
    <3>2. CASE Deaf
      BY <1>0, <1>1, <3>2, DeafLoader
    <3>3. CASE Switched
      BY <1>0, <1>1, <3>3, SwitchedLoader
    <3> QED BY <1>0, <1>1, <3>1, <3>2, <3>3, StartingLoader, AskedLoader, TurnLoader, AckedLoader,
               UnderWayLoader, LostLoader, StartedLoader DEF Situation
  <2> QED BY <2>1, <2>2 DEF IInv
<1>2. CASE Host
  <2>1. host \in {"header", "data"} => sent \in 1 .. N
    <3>1. host \in {"header", "data"} => Turn
      BY <1>0 DEF Situation, Starting, Asked, Offered, Deaf, Switched, Acked, UnderWay, Counting, Heading, Storing, Entering,
                  Lost, Waits, Started
    <3>2. Turn /\ host \in {"header", "data"} => sent \in 1 .. N
      BY DEF Turn, Expects, AtBase, AtData, AtSegment
    <3> QED BY <3>1, <3>2
  <2>2. Typed'
    BY <1>0, <1>2, <2>1, TypedHost
  <2>3. Situation'
    <3>1. ~Switched
      BY <1>0, <1>2, SwitchedElse
    <3>2. ~UnderWay
      BY <1>0, <1>2, UnderWayHost
    <3> QED BY <1>0, <1>2, <3>1, <3>2, StartingHost, AskedHost, OfferedHost, DeafHost, TurnHost, AckedHost,
               LostHost, StartedHost DEF Situation
  <2> QED BY <2>2, <2>3 DEF IInv
<1>3. CASE RunAgain
  BY <1>0, <1>3, TypedAgain DEF IInv, Situation
<1>4. CASE Lose \/ Damage
  <2>1. Typed'
    BY <1>0, <1>4, TypedLine
  <2>2. Situation'
    <3>1. ~Switched
      BY <1>0, <1>4, SwitchedElse
    <3> QED BY <1>0, <1>4, <3>1, StartingLine, AskedLine, OfferedLine, DeafLine, TurnLine, AckedLine,
               UnderWayLine, LostLine, StartedLine DEF Situation
  <2> QED BY <2>1, <2>2 DEF IInv
<1>5. CASE UNCHANGED vars
  BY <1>0, <1>5, Stutter DEF IInv
<1> QED BY <1>1, <1>2, <1>3, <1>4, <1>5 DEF Next, Done, GivenUp

LEMMA InvIsSafe == ASSUME IInv PROVE UploadIsSafe
<1>0. Situation
  BY DEF IInv
<1>1. dev \in {"jump", "running"} => Started
  BY <1>0 DEF Situation, Starting, Asked, Offered, Deaf, Switched, Turn, Acked, Expects, AtBase, AtData, AtEntry,
              UnderWay, Counting, Heading, Storing, Reading, Summing, Entering, Lost, Short
<1>2. OnlyTheWholeProgramStarts
  BY <1>1 DEF OnlyTheWholeProgramStarts, Started, Kept, Intact, N
<1>3. SuccessIsTrue
  <2>1. host \in {"entry_drain", "ok"} => Started
    BY <1>0 DEF Situation, Starting, Asked, Offered, Deaf, Switched, Turn, Acked,
                UnderWay, Counting, Heading, Storing, Entering, Lost, Waits
  <2> QED BY <2>1 DEF SuccessIsTrue, Started
<1>4. InStep
  <2>1. CASE Starting \/ Asked \/ Offered \/ Deaf \/ Switched
    BY <2>1 DEF Starting, Asked, Offered, Deaf, Switched, InStep
  <2>2. CASE Turn
    BY <2>2 DEF Turn, Expects, AtBase, AtData, AtEntry, InStep
  <2>3. CASE Acked
    BY <2>3 DEF Acked, Expects, AfterAck, AtBase, AtData, AtEntry, InStep
  <2>4. CASE UnderWay
    BY <2>4 DEF UnderWay, Counting, Heading, Storing, Reading, Summing, Entering, AtEntry, InStep
  <2>5. CASE Lost
    BY <2>5 DEF Lost, Waits, InStep
  <2>6. CASE Started
    BY <2>6 DEF Started, InStep
  <2> QED BY <1>0, <2>1, <2>2, <2>3, <2>4, <2>5, <2>6 DEF Situation
<1> QED BY <1>2, <1>3, <1>4 DEF UploadIsSafe

\* However bytes are lost or damaged, answers come late and uploads are started
\* again: the loader starts nothing but the whole program, the host reports
\* nothing but its start, and neither takes an answer for another.
THEOREM UploadStaysSafe == Spec => []UploadIsSafe
<1>1. Init => IInv
  BY InvInit
<1>2. IInv /\ [Next]_vars => IInv'
  BY InvNext
<1>3. IInv => UploadIsSafe
  BY InvIsSafe
<1> QED BY <1>1, <1>2, <1>3, PTL DEF Spec
===============================================================================
