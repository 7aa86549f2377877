----------------------------- MODULE GifProofs ------------------------------
(***************************************************************************)
(* The image of any pixels of any width, with a table of any size,         *)
(* decodes: from the text of the data URL the bytes of the file, from its  *)
(* blocks the bytes of the raster, from these its codes, and from the      *)
(* codes the pixels.                                                       *)
(*                                                                         *)
(* The reader's table is one string behind: the last string of the         *)
(* writer's is the one before with the first pixel of the pending string   *)
(* at its end, which is what the reader adds when it gets the pending      *)
(* string's code. So a code that the reader lacks is that last one, and as *)
(* long as pixels are pending the widths grow at the same code. When the   *)
(* table is full the reader goes on for two strings; the width stays,      *)
(* because the odd TableLimit is not a power of two. After the last string *)
(* the reader may be at the next width while the writer is not; the bits   *)
(* that fill up the last byte are 0, so it finds the end code all the      *)
(* same.                                                                   *)
(*                                                                         *)
(* The codes are numbers with fewer bits than the width, and a stream that *)
(* is written with such numbers holds their bits one after the other.      *)
(* base64 reads back what it was given whatever that is. A viewer that     *)
(* takes the blocks as they are written has read, after each of them, the  *)
(* bytes of the raster so far.                                             *)
(***************************************************************************)
EXTENDS GifImage, FiniteSetTheorems, SequenceTheorems, TLAPS

-----------------------------------------------------------------------------
(* Induction over the natural numbers, for a set. A counterexample k would *)
(* make the numbers up to k outside T a finite set that has an injection   *)
(* into itself without k: each of them has its predecessor in it.          *)
LEMMA SetInduction ==
  ASSUME NEW T, 0 \in T, \A n \in Nat : n \in T => n + 1 \in T
  PROVE  Nat \subseteq T
  <1> SUFFICES ASSUME NEW k \in Nat, k \notin T PROVE FALSE
    OBVIOUS
  <1> DEFINE S == {m \in 0 .. k : m \notin T}
             f == [m \in S |-> m - 1]
  <1>1. IsFiniteSet(S)
    <2>1. IsFiniteSet(0 .. k)
      BY FS_Interval
    <2> QED BY <2>1, FS_Subset
  <1>2. k \in S
    OBVIOUS
  <1>3. ASSUME NEW m \in S PROVE m - 1 \in S \ {k}
    <2>1. m # 0 /\ m \in 1 .. k
      OBVIOUS
    <2>2. m - 1 \in Nat /\ (m - 1) + 1 = m
      BY <2>1
    <2>3. m - 1 \notin T
      BY <2>1, <2>2
    <2> QED BY <2>1, <2>3
  <1>4. f \in Injection(S, S \ {k})
    <2>1. f \in [S -> S \ {k}]
      BY <1>3
    <2>2. \A a, b \in S : f[a] = f[b] => a = b
      OBVIOUS
    <2> QED BY <2>1, <2>2 DEF Injection, IsInjective
  <1>5. IsFiniteSet(S \ {k}) /\ Cardinality(S \ {k}) = Cardinality(S) - 1 /\ Cardinality(S) \in Nat
    BY <1>1, <1>2, FS_RemoveElement, FS_CardinalityType
  <1>6. Cardinality(S) <= Cardinality(S \ {k})
    BY <1>4, <1>5, FS_Injection
  <1> QED BY <1>5, <1>6

(* A function that starts with first and goes on with step.                *)
Recurs(g, n, first, step) ==
  g[0] = first /\ \A i \in 0 .. n - 1 : g[i + 1] = step[g[i]]

(* Two functions with the same start and step agree as far as both go.     *)
LEMMA RecursionUnique ==
  ASSUME NEW first, NEW step, NEW g, NEW h, NEW m \in Nat, NEW n \in Nat, m <= n,
         Recurs(g, m, first, step), Recurs(h, n, first, step)
  PROVE  \A i \in 0 .. m : g[i] = h[i]
  <1> DEFINE T == {i \in Nat : i <= m => g[i] = h[i]}
  <1>1. 0 \in T
    BY DEF Recurs
  <1>2. ASSUME NEW i \in Nat, i \in T PROVE i + 1 \in T
    <2> SUFFICES ASSUME i + 1 <= m PROVE g[i + 1] = h[i + 1]
      BY <1>2
    <2>1. i \in 0 .. m - 1 /\ i \in 0 .. n - 1 /\ g[i] = h[i]
      BY <1>2
    <2> QED BY <2>1 DEF Recurs
  <1>3. Nat \subseteq T
    <2> HIDE DEF T
    <2> QED BY <1>1, <1>2, SetInduction
  <1> QED BY <1>3

(* As far as any n there is a function with that start and step.           *)
LEMMA RecursionExists ==
  ASSUME NEW S, NEW first \in S, NEW step \in [S -> S], NEW n \in Nat
  PROVE  \E g \in [0 .. n -> S] : Recurs(g, n, first, step)
  <1> DEFINE T == {k \in Nat : \E g \in [0 .. k -> S] : Recurs(g, k, first, step)}
  <1>1. 0 \in T
    <2> DEFINE g == [i \in 0 .. 0 |-> first]
    <2>1. g \in [0 .. 0 -> S] /\ Recurs(g, 0, first, step)
      BY DEF Recurs
    <2> QED BY <2>1
  <1>2. ASSUME NEW k \in Nat, k \in T PROVE k + 1 \in T
    <2>1. PICK g \in [0 .. k -> S] : Recurs(g, k, first, step)
      BY <1>2
    <2> DEFINE h == [i \in 0 .. k + 1 |-> IF i = k + 1 THEN step[g[k]] ELSE g[i]]
    <2>2. \A i \in 0 .. k : h[i] = g[i]
      OBVIOUS
    <2>3. h[k + 1] = step[g[k]]
      OBVIOUS
    <2>4. g[k] \in S
      OBVIOUS
    <2>5. h \in [0 .. k + 1 -> S]
      <3>1. step[g[k]] \in S
        BY <2>4
      <3>2. ASSUME NEW i \in 0 .. k + 1, i # k + 1 PROVE g[i] \in S
        <4>1. i \in 0 .. k
          BY <3>2
        <4> QED BY <4>1
      <3> QED BY <3>1, <3>2
    <2>6. h[0] = first
      BY <2>1, <2>2 DEF Recurs
    <2>7. ASSUME NEW i \in 0 .. (k + 1) - 1 PROVE h[i + 1] = step[h[i]]
      <3> HIDE DEF h
      <3>1. CASE i = k
        BY <3>1, <2>2, <2>3
      <3>2. CASE i # k
        <4>1. i \in 0 .. k - 1 /\ i + 1 \in 0 .. k /\ i \in 0 .. k
          BY <3>2
        <4>2. g[i + 1] = step[g[i]]
          BY <4>1, <2>1 DEF Recurs
        <4> QED BY <4>1, <4>2, <2>2
      <3> QED BY <3>1, <3>2
    <2> HIDE DEF h
    <2>8. Recurs(h, k + 1, first, step)
      BY <2>6, <2>7 DEF Recurs
    <2> QED BY <2>5, <2>8
  <1>3. Nat \subseteq T
    <2> HIDE DEF T
    <2> QED BY <1>1, <1>2, SetInduction
  <1> QED BY <1>3

(* The same without an end.                                                *)
Solves(f, S, first, step) ==
  /\ f \in [Nat -> S] /\ f[0] = first
  /\ \A n \in Nat : f[n + 1] = step[f[n]]

(* A definition by recursion over the natural numbers defines something.   *)
LEMMA Recursion ==
  ASSUME NEW S, NEW first \in S, NEW step \in [S -> S]
  PROVE  \E f : Solves(f, S, first, step)
  <1> DEFINE G(n) == CHOOSE g \in [0 .. n -> S] : Recurs(g, n, first, step)
             f == [n \in Nat |-> G(n)[n]]
  <1>1. ASSUME NEW n \in Nat PROVE G(n) \in [0 .. n -> S] /\ Recurs(G(n), n, first, step)
    BY RecursionExists
  <1>2. ASSUME NEW n \in Nat PROVE G(n)[n] \in S
    <2> HIDE DEF G
    <2>1. n \in 0 .. n
      OBVIOUS
    <2> QED BY <1>1, <2>1
  <1>3. f \in [Nat -> S]
    <2> HIDE DEF G
    <2> QED BY <1>2
  <1>4. f[0] = first
    <2> HIDE DEF G
    <2> QED BY <1>1 DEF Recurs
  <1>5. ASSUME NEW n \in Nat PROVE f[n + 1] = step[f[n]]
    <2> HIDE DEF G
    <2>1. n + 1 \in Nat /\ n <= n + 1 /\ n \in 0 .. n /\ n \in 0 .. (n + 1) - 1
      OBVIOUS
    <2>2. G(n + 1)[n] = G(n)[n]
      BY <1>1, <2>1, RecursionUnique
    <2>3. G(n + 1)[n + 1] = step[G(n + 1)[n]]
      BY <1>1, <2>1 DEF Recurs
    <2> QED BY <2>1, <2>2, <2>3
  <1> HIDE DEF f
  <1> QED BY <1>3, <1>4, <1>5 DEF Solves

(* The powers of 2 are what their recursive definition says.               *)
LEMMA PowerOf2Values ==
  /\ PowerOf2 \in [Nat -> Nat]
  /\ PowerOf2[0] = 1
  /\ \A n \in Nat : PowerOf2[n + 1] = 2 * PowerOf2[n]
  <1> DEFINE double == [x \in Nat |-> 2 * x]
             Defines(f) == f = [i \in Nat |-> IF i = 0 THEN 1 ELSE 2 * f[i - 1]]
  <1>1. double \in [Nat -> Nat]
    OBVIOUS
  <1>2. PICK f \in [Nat -> Nat] : f[0] = 1 /\ \A n \in Nat : f[n + 1] = double[f[n]]
    <2> HIDE DEF double
    <2>1. 1 \in Nat /\ double \in [Nat -> Nat]
      BY <1>1
    <2>2. \E f : Solves(f, Nat, 1, double)
      BY <2>1, Recursion
    <2> QED BY <2>2 DEF Solves
  <1>3. ASSUME NEW i \in Nat, i # 0 PROVE f[i] = 2 * f[i - 1]
    <2>1. i - 1 \in Nat /\ (i - 1) + 1 = i
      BY <1>3
    <2>2. f[(i - 1) + 1] = double[f[i - 1]] /\ f[i - 1] \in Nat
      BY <1>2, <2>1
    <2> QED BY <2>1, <2>2
  <1>4. Defines(f)
    BY <1>2, <1>3
  <1>5. Defines(PowerOf2)
    <2>1. PowerOf2 = CHOOSE g : Defines(g)
      BY DEF PowerOf2
    <2> HIDE DEF Defines
    <2> QED BY <1>4, <2>1
  <1>6. PowerOf2[0] = 1 /\ \A n \in Nat : PowerOf2[n + 1] = 2 * PowerOf2[n]
    <2>1. PowerOf2[0] = 1
      BY <1>5
    <2>2. ASSUME NEW n \in Nat PROVE PowerOf2[n + 1] = 2 * PowerOf2[n]
      <3>1. n + 1 \in Nat /\ n + 1 # 0 /\ (n + 1) - 1 = n
        OBVIOUS
      <3>2. PowerOf2[n + 1] = IF n + 1 = 0 THEN 1 ELSE 2 * PowerOf2[(n + 1) - 1]
        BY <1>5, <3>1
      <3> QED BY <3>1, <3>2
    <2> QED BY <2>1, <2>2
  <1>7. PowerOf2 \in [Nat -> Nat]
    <2> DEFINE T == {n \in Nat : PowerOf2[n] \in Nat}
    <2>1. 0 \in T
      BY <1>6
    <2>2. \A n \in Nat : n \in T => n + 1 \in T
      BY <1>6
    <2>3. Nat \subseteq T
      <3> HIDE DEF T
      <3> QED BY <2>1, <2>2, SetInduction
    <2>4. DOMAIN PowerOf2 = Nat /\ PowerOf2 = [i \in Nat |-> PowerOf2[i]]
      BY <1>5
    <2> QED BY <2>3, <2>4
  <1> QED BY <1>6, <1>7

(* The powers as numbers: those below 256 and how they multiply.           *)
LEMMA Powers ==
  /\ PowerOf2[1] = 2 /\ PowerOf2[2] = 4 /\ PowerOf2[3] = 8 /\ PowerOf2[4] = 16
  /\ PowerOf2[5] = 32 /\ PowerOf2[6] = 64 /\ PowerOf2[7] = 128 /\ PowerOf2[8] = 256
  <1> USE PowerOf2Values
  <1>1. PowerOf2[0 + 1] = 2 * PowerOf2[0]
    BY 0 \in Nat
  <1>2. PowerOf2[1 + 1] = 2 * PowerOf2[1]
    BY 1 \in Nat
  <1>3. PowerOf2[2 + 1] = 2 * PowerOf2[2]
    BY 2 \in Nat
  <1>4. PowerOf2[3 + 1] = 2 * PowerOf2[3]
    BY 3 \in Nat
  <1>5. PowerOf2[4 + 1] = 2 * PowerOf2[4]
    BY 4 \in Nat
  <1>6. PowerOf2[5 + 1] = 2 * PowerOf2[5]
    BY 5 \in Nat
  <1>7. PowerOf2[6 + 1] = 2 * PowerOf2[6]
    BY 6 \in Nat
  <1>8. PowerOf2[7 + 1] = 2 * PowerOf2[7]
    BY 7 \in Nat
  <1> QED BY <1>1, <1>2, <1>3, <1>4, <1>5, <1>6, <1>7, <1>8

(* A power of 2 is at least 1.                                             *)
LEMMA PowerPositive == \A n \in Nat : PowerOf2[n] \in Nat /\ PowerOf2[n] >= 1
  <1> DEFINE T == {n \in Nat : PowerOf2[n] >= 1}
  <1>1. 0 \in T /\ \A n \in Nat : n \in T => n + 1 \in T
    BY PowerOf2Values
  <1>2. Nat \subseteq T
    <2> HIDE DEF T
    <2> QED BY <1>1, SetInduction
  <1> QED BY <1>2, PowerOf2Values

(* The power of a sum is the product of the powers.                        *)
LEMMA PowerOfSum ==
  ASSUME NEW m \in Nat, NEW n \in Nat
  PROVE  PowerOf2[m + n] = PowerOf2[m] * PowerOf2[n]
  <1> DEFINE T == {k \in Nat : PowerOf2[m + k] = PowerOf2[m] * PowerOf2[k]}
  <1>1. 0 \in T
    BY PowerOf2Values
  <1>2. ASSUME NEW k \in Nat, k \in T PROVE k + 1 \in T
    <2>1. PowerOf2[m + k] = PowerOf2[m] * PowerOf2[k]
      BY <1>2
    <2>2. PowerOf2[m + (k + 1)] = 2 * PowerOf2[m + k]
      <3>1. m + (k + 1) = (m + k) + 1 /\ m + k \in Nat
        OBVIOUS
      <3> QED BY <3>1, PowerOf2Values
    <2>3. PowerOf2[k + 1] = 2 * PowerOf2[k]
      BY PowerOf2Values
    <2>4. PowerOf2[m] * (2 * PowerOf2[k]) = 2 * (PowerOf2[m] * PowerOf2[k])
      BY PowerPositive
    <2> QED BY <2>1, <2>2, <2>3, <2>4
  <1>3. Nat \subseteq T
    <2> HIDE DEF T
    <2> QED BY <1>1, <1>2, SetInduction
  <1> QED BY <1>3

-----------------------------------------------------------------------------
(* Division with remainder by a positive number.                           *)
LEMMA Division ==
  ASSUME NEW a \in Nat, NEW p \in Nat, p >= 1
  PROVE  /\ a \div p \in Nat /\ a % p \in 0 .. p - 1
         /\ a = (a \div p) * p + (a % p)
  OBVIOUS

(* The quotient and the remainder are the only ones.                       *)
LEMMA Quotient ==
  ASSUME NEW p \in Nat, p >= 1, NEW q \in Nat, NEW r \in 0 .. p - 1
  PROVE  (q * p + r) \div p = q /\ (q * p + r) % p = r
  OBVIOUS

(* Dividing by one number and then by another is dividing by both.         *)
LEMMA NestedDivision ==
  ASSUME NEW a \in Nat, NEW p \in Nat, p >= 1, NEW q \in Nat, q >= 1
  PROVE  (a \div p) \div q = a \div (p * q)
  <1>1. PICK x \in Nat, r \in 0 .. p - 1 : a \div p = x /\ a = x * p + r
    BY Division
  <1>2. PICK y \in Nat, t \in 0 .. q - 1 : x \div q = y /\ x = y * q + t
    BY Division
  <1>3. a = y * (p * q) + (t * p + r)
    <2>1. x * p = (y * q) * p + t * p
      BY <1>2
    <2>2. (y * q) * p = y * (p * q)
      OBVIOUS
    <2>3. y * (p * q) \in Nat /\ t * p \in Nat
      OBVIOUS
    <2> QED BY <1>1, <2>1, <2>2, <2>3
  <1>4. t * p + r \in 0 .. p * q - 1
    <2>1. t * p <= (q - 1) * p
      OBVIOUS
    <2>2. (q - 1) * p = p * q - p
      OBVIOUS
    <2>3. t * p \in Nat /\ p * q \in Nat
      OBVIOUS
    <2> QED BY <2>1, <2>2, <2>3
  <1>5. p * q \in Nat /\ p * q >= 1
    OBVIOUS
  <1>6. a \div (p * q) = y
    BY <1>3, <1>4, <1>5, Quotient
  <1> QED BY <1>1, <1>2, <1>6

(* The bits of two numbers side by side.                                   *)
LEMMA BitOfSum ==
  ASSUME NEW d \in Nat, NEW b \in Nat, NEW low \in 0 .. PowerOf2[b] - 1, NEW j \in Nat
  PROVE  BitOf(d * PowerOf2[b] + low, j) = IF j < b THEN BitOf(low, j) ELSE BitOf(d, j - b)
  <1> DEFINE value == d * PowerOf2[b] + low
  <1>0. /\ PowerOf2[b] \in Nat /\ PowerOf2[b] >= 1 /\ PowerOf2[j] \in Nat /\ PowerOf2[j] >= 1
        /\ low \in Nat /\ low < PowerOf2[b]
    <2>1. PowerOf2[b] \in Nat /\ PowerOf2[b] >= 1 /\ PowerOf2[j] \in Nat /\ PowerOf2[j] >= 1
      BY PowerPositive
    <2> QED BY <2>1
  <1>1. CASE j < b
    <2>1. PICK k \in Nat : b = j + (k + 1)
      <3>1. b - j - 1 \in Nat /\ b = j + ((b - j - 1) + 1)
        BY <1>1
      <3> QED BY <3>1
    <2>2. PowerOf2[b] = PowerOf2[j] * (2 * PowerOf2[k]) /\ PowerOf2[k] \in Nat
      <3>1. PowerOf2[j + (k + 1)] = PowerOf2[j] * PowerOf2[k + 1]
        BY PowerOfSum
      <3>2. PowerOf2[k + 1] = 2 * PowerOf2[k] /\ PowerOf2[k] \in Nat
        BY PowerOf2Values
      <3> QED BY <2>1, <3>1, <3>2
    <2>3. PICK x \in Nat, r \in 0 .. PowerOf2[j] - 1 :
            low \div PowerOf2[j] = x /\ low = x * PowerOf2[j] + r
      <3>1. /\ low \div PowerOf2[j] \in Nat /\ low % PowerOf2[j] \in 0 .. PowerOf2[j] - 1
            /\ low = (low \div PowerOf2[j]) * PowerOf2[j] + (low % PowerOf2[j])
        BY <1>0, Division
      <3> QED BY <3>1
    <2>4. value = (2 * (d * PowerOf2[k]) + x) * PowerOf2[j] + r
      <3>1. d * PowerOf2[b] = (2 * (d * PowerOf2[k])) * PowerOf2[j]
        BY <2>2, <1>0
      <3>2. (2 * (d * PowerOf2[k]) + x) * PowerOf2[j]
              = (2 * (d * PowerOf2[k])) * PowerOf2[j] + x * PowerOf2[j]
        BY <2>2, <1>0
      <3>3. (2 * (d * PowerOf2[k])) * PowerOf2[j] \in Nat /\ x * PowerOf2[j] \in Nat
        BY <2>2, <1>0
      <3> QED BY <2>3, <3>1, <3>2, <3>3
    <2>5. d * PowerOf2[k] \in Nat
      BY <2>2
    <2>6. 2 * (d * PowerOf2[k]) + x \in Nat
      BY <2>5
    <2>7. value \div PowerOf2[j] = 2 * (d * PowerOf2[k]) + x
      BY <1>0, <2>4, <2>6, Quotient
    <2>8. (2 * (d * PowerOf2[k]) + x) % 2 = x % 2
      BY <2>5
    <2> QED BY <1>1, <2>3, <2>7, <2>8 DEF BitOf
  <1>2. CASE ~(j < b)
    <2>1. PICK k \in Nat : j = b + k
      <3>1. j - b \in Nat /\ j = b + (j - b)
        BY <1>2
      <3> QED BY <3>1
    <2>2. PowerOf2[j] = PowerOf2[b] * PowerOf2[k] /\ PowerOf2[k] \in Nat /\ PowerOf2[k] >= 1
      BY <2>1, PowerOfSum, PowerPositive
    <2>3. value \in Nat /\ value \div PowerOf2[b] = d
      <3>1. d * PowerOf2[b] \in Nat
        BY <1>0
      <3>2. value \div PowerOf2[b] = d
        BY <1>0, Quotient
      <3> QED BY <1>0, <3>1, <3>2
    <2>4. (value \div PowerOf2[b]) \div PowerOf2[k] = value \div PowerOf2[j]
      <3> HIDE DEF value
      <3> QED BY <1>0, <2>2, <2>3, NestedDivision
    <2>5. j - b = k
      BY <2>1
    <2> QED BY <1>2, <2>3, <2>4, <2>5 DEF BitOf
  <1> QED BY <1>1, <1>2

(* A number of b bits has none above them.                                 *)
LEMMA BitsAbove ==
  ASSUME NEW b \in Nat, NEW low \in 0 .. PowerOf2[b] - 1, NEW k \in Nat
  PROVE  BitOf(low, b + k) = 0
  <1>1. PowerOf2[b] \in Nat /\ PowerOf2[k] \in Nat /\ PowerOf2[k] >= 1
    BY PowerPositive
  <1>2. 0 * PowerOf2[b] + low = low
    BY <1>1
  <1>3. BitOf(0 * PowerOf2[b] + low, b + k) = BitOf(0, (b + k) - b)
    <2>1. b + k \in Nat /\ ~(b + k < b) /\ 0 \in Nat
      OBVIOUS
    <2> QED BY <2>1, BitOfSum
  <1>4. (b + k) - b = k
    OBVIOUS
  <1>5. BitOf(0, k) = 0
    BY <1>1 DEF BitOf
  <1> QED BY <1>2, <1>3, <1>4, <1>5

(* A shift to the right moves the bits.                                    *)
LEMMA BitOfShifted ==
  ASSUME NEW x \in Nat, NEW m \in Nat, NEW j \in Nat
  PROVE  BitOf(x \div PowerOf2[m], j) = BitOf(x, m + j)
  <1>1. /\ PowerOf2[m + j] = PowerOf2[m] * PowerOf2[j]
        /\ PowerOf2[m] \in Nat /\ PowerOf2[m] >= 1 /\ PowerOf2[j] \in Nat /\ PowerOf2[j] >= 1
    BY PowerOfSum, PowerPositive
  <1>2. (x \div PowerOf2[m]) \div PowerOf2[j] = x \div (PowerOf2[m] * PowerOf2[j])
    BY <1>1, NestedDivision
  <1> QED BY <1>1, <1>2 DEF BitOf

(* The low byte keeps the low eight bits.                                  *)
LEMMA BitOfByte ==
  ASSUME NEW x \in Nat, NEW j \in 0 .. 7
  PROVE  BitOf(x % 256, j) = BitOf(x, j)
  <1>1. PICK d \in Nat, low \in 0 .. 255 : x % 256 = low /\ x = d * 256 + low
    BY Division
  <1>2. PowerOf2[8] = 256 /\ low \in 0 .. PowerOf2[8] - 1
    BY Powers
  <1>3. BitOf(d * PowerOf2[8] + low, j) = IF j < 8 THEN BitOf(low, j) ELSE BitOf(d, j - 8)
    <2>1. \A b \in Nat : low \in 0 .. PowerOf2[b] - 1 =>
             BitOf(d * PowerOf2[b] + low, j) = IF j < b THEN BitOf(low, j) ELSE BitOf(d, j - b)
      BY BitOfSum
    <2> QED BY <1>2, <2>1
  <1> QED BY <1>1, <1>2, <1>3

(* A bit is 0 or 1.                                                        *)
LEMMA BitType ==
  ASSUME NEW x \in Nat, NEW j \in Nat
  PROVE  BitOf(x, j) \in {0, 1}
  <1>1. x \div PowerOf2[j] \in Nat
    <2>1. PowerOf2[j] \in Nat /\ PowerOf2[j] >= 1
      BY PowerPositive
    <2> QED BY <2>1, Division
  <1> QED BY <1>1 DEF BitOf

-----------------------------------------------------------------------------
(* The stream of bits in bytes: bitOutputStream over byteArrayOutputStream *)
(* (2092-2125).                                                            *)
Octets == Seq(0 .. 255)

(* The i-th bit of a stream, among the bytes or in the buffer.             *)
StreamBit(o, i) ==
  IF i < 8 * Len(o.bytes) THEN BitOf(o.bytes[(i \div 8) + 1], i % 8)
  ELSE BitOf(o.bitBuffer, i - 8 * Len(o.bytes))

Streams == [bytes : Octets, bitBuffer : Nat, bitLength : 0 .. 7]

(* The stream o holds the bits in b.                                       *)
Holds(o, b) ==
  /\ o \in Streams
  /\ o.bitBuffer \in 0 .. PowerOf2[o.bitLength] - 1
  /\ b \in Seq({0, 1}) /\ Len(b) = 8 * Len(o.bytes) + o.bitLength
  /\ \A i \in 0 .. Len(b) - 1 : StreamBit(o, i) = b[i + 1]

(* The whole bytes taken off a value hold its low bits, the lowest first.  *)
LEMMA BitOfFullBytes ==
  ASSUME NEW value \in Nat, NEW full \in Nat
  PROVE  /\ FullBytes(value, full) \in Octets /\ Len(FullBytes(value, full)) = full
         /\ \A i \in 0 .. 8 * full - 1 :
              BitOf(FullBytes(value, full)[(i \div 8) + 1], i % 8) = BitOf(value, i)
  <1>1. ASSUME NEW m \in Nat PROVE value \div PowerOf2[m] \in Nat
    <2>1. PowerOf2[m] \in Nat /\ PowerOf2[m] >= 1
      BY PowerPositive
    <2> QED BY <2>1, Division
  <1>2. FullBytes(value, full) \in Octets /\ Len(FullBytes(value, full)) = full
    <2>1. ASSUME NEW k \in 1 .. full
          PROVE  (value \div PowerOf2[8 * (k - 1)]) % 256 \in 0 .. 255
      <3>1. PICK m \in Nat : m = 8 * (k - 1)
        OBVIOUS
      <3>2. value \div PowerOf2[m] \in Nat
        BY <1>1
      <3> QED BY <3>1, <3>2
    <2> QED BY <2>1 DEF FullBytes, Octets
  <1>3. ASSUME NEW i \in 0 .. 8 * full - 1
        PROVE  BitOf(FullBytes(value, full)[(i \div 8) + 1], i % 8) = BitOf(value, i)
    <2> DEFINE q == i \div 8
               r == i % 8
    <2>1. q \in Nat /\ r \in 0 .. 7 /\ i = 8 * q + r /\ q + 1 \in 1 .. full /\ (q + 1) - 1 = q
      OBVIOUS
    <2>2. FullBytes(value, full)[q + 1] = (value \div PowerOf2[8 * q]) % 256
      <3> HIDE DEF q, r
      <3> QED BY <2>1 DEF FullBytes
    <2>3. value \div PowerOf2[8 * q] \in Nat /\ 8 * q \in Nat
      <3> HIDE DEF q, r
      <3> QED BY <1>1, <2>1
    <2>4. BitOf((value \div PowerOf2[8 * q]) % 256, r) = BitOf(value \div PowerOf2[8 * q], r)
      <3> HIDE DEF q, r
      <3> QED BY <2>1, <2>3, BitOfByte
    <2>5. BitOf(value \div PowerOf2[8 * q], r) = BitOf(value, 8 * q + r)
      <3> HIDE DEF q, r
      <3> QED BY <2>1, <2>3, BitOfShifted
    <2> HIDE DEF q, r
    <2> QED BY <2>1, <2>2, <2>4, <2>5 DEF q, r
  <1> QED BY <1>2, <1>3

(* Two sequences one after the other.                                      *)
LEMMA Concatenation ==
  ASSUME NEW S, NEW u \in Seq(S), NEW v \in Seq(S)
  PROVE  /\ u \o v \in Seq(S) /\ Len(u \o v) = Len(u) + Len(v)
         /\ \A k \in 1 .. Len(u) : (u \o v)[k] = u[k]
         /\ \A k \in 1 .. Len(v) : (u \o v)[Len(u) + k] = v[k]
  OBVIOUS

(* write adds the bits of a number that has no more bits than it is told:  *)
(* nothing that was in the stream changes, and nothing is lost at the      *)
(* borders of the bytes (2100-2116).                                       *)
LEMMA PutBitsHolds ==
  ASSUME NEW o, NEW b, Holds(o, b), NEW length \in Nat, NEW data \in 0 .. PowerOf2[length] - 1
  PROVE  Holds(PutBits(o, data, length), b \o LowBitsFirst(data, length))
  <1>1. PICK held \in 0 .. 7, L \in Nat, low \in Nat :
          /\ held = o.bitLength /\ L = Len(o.bytes) /\ low = o.bitBuffer
          /\ low < PowerOf2[held]
    <2>1. o.bitLength \in 0 .. 7 /\ Len(o.bytes) \in Nat
      BY DEF Holds, Streams, Octets
    <2>2. PowerOf2[o.bitLength] \in Nat
      BY <2>1, PowerPositive
    <2>3. o.bitBuffer \in Nat /\ o.bitBuffer < PowerOf2[o.bitLength]
      BY <2>2 DEF Holds
    <2> QED BY <2>1, <2>3
  <1>2. /\ PowerOf2[held] \in Nat /\ PowerOf2[held] >= 1
        /\ PowerOf2[length] \in Nat /\ PowerOf2[length] >= 1
        /\ data \in Nat /\ data < PowerOf2[length]
    <2>1. PowerOf2[length] \in Nat /\ PowerOf2[length] >= 1
          /\ PowerOf2[held] \in Nat /\ PowerOf2[held] >= 1
      BY PowerPositive
    <2> QED BY <2>1
  <1>3. PICK value \in Nat : value = data * PowerOf2[held] + low /\ value < PowerOf2[held + length]
    <2>1. PowerOf2[held + length] = PowerOf2[held] * PowerOf2[length]
      BY PowerOfSum
    <2> DEFINE p == PowerOf2[held]
               t == PowerOf2[length]
    <2>2. p \in Nat /\ t \in Nat /\ p >= 1 /\ t >= 1 /\ data < t /\ low < p
      BY <1>1, <1>2
    <2> HIDE DEF p, t
    <2>3. data * p <= (t - 1) * p
      BY <2>2
    <2>4. (t - 1) * p = p * t - p /\ data * p \in Nat /\ p * t \in Nat
      BY <2>2
    <2>5. data * p + low \in Nat /\ data * p + low < p * t
      BY <2>2, <2>3, <2>4
    <2> QED BY <2>1, <2>5 DEF p, t
  <1>4. ASSUME NEW j \in Nat
        PROVE  BitOf(value, j) = IF j < held THEN BitOf(low, j) ELSE BitOf(data, j - held)
    <2>1. low \in 0 .. PowerOf2[held] - 1 /\ held \in Nat
      <3>1. PICK p \in Nat : p = PowerOf2[held]
        BY <1>2
      <3>2. low < PowerOf2[held]
        BY <1>1
      <3>3. low \in 0 .. p - 1
        BY <3>1, <3>2
      <3> QED BY <3>1, <3>3
    <2> QED BY <1>2, <1>3, <2>1, BitOfSum
  <1>5. PICK full \in Nat, rest \in 0 .. 7 :
          /\ full = (held + length) \div 8 /\ rest = (held + length) % 8
          /\ held + length = 8 * full + rest
    OBVIOUS
  <1> DEFINE new == PutBits(o, data, length)
             added == LowBitsFirst(data, length)
             c == b \o added
  <1>11. /\ new.bytes = o.bytes \o FullBytes(value, full)
         /\ new.bitBuffer = value \div PowerOf2[8 * full] /\ new.bitLength = rest
    BY <1>1, <1>3, <1>5 DEF PutBits
  <1>15. new = [bytes |-> new.bytes, bitBuffer |-> new.bitBuffer, bitLength |-> new.bitLength]
    BY DEF PutBits
  <1>12. /\ added \in Seq({0, 1}) /\ Len(added) = length
         /\ \A k \in 1 .. length : added[k] = BitOf(data, k - 1)
    <2>1. \A k \in 1 .. length : BitOf(data, k - 1) \in {0, 1}
      BY <1>2, BitType
    <2> QED BY <2>1 DEF LowBitsFirst
  <1>13. /\ b \in Seq({0, 1}) /\ Len(b) = 8 * L + held /\ o.bytes \in Octets
         /\ \A i \in 0 .. Len(b) - 1 : StreamBit(o, i) = b[i + 1]
    BY <1>1 DEF Holds, Streams
  <1> HIDE DEF new, added
  <1>16. /\ FullBytes(value, full) \in Octets /\ Len(FullBytes(value, full)) = full
         /\ \A k \in 0 .. 8 * full - 1 :
              BitOf(FullBytes(value, full)[(k \div 8) + 1], k % 8) = BitOf(value, k)
    BY ZenonT(40), BitOfFullBytes
  <1>6. c \in Seq({0, 1}) /\ Len(c) = 8 * L + held + length
    BY <1>12, <1>13, ConcatProperties
  <1>7. /\ new.bytes \in Octets /\ Len(new.bytes) = L + full
        /\ \A k \in 1 .. L : new.bytes[k] = o.bytes[k]
        /\ \A k \in 1 .. full : new.bytes[L + k] = FullBytes(value, full)[k]
    <2>1. FullBytes(value, full) \in Seq(0 .. 255) /\ Len(FullBytes(value, full)) = full
      BY <1>16 DEF Octets
    <2>2. o.bytes \in Seq(0 .. 255) /\ Len(o.bytes) = L
      BY <1>1, <1>13 DEF Octets
    <2> DEFINE u == o.bytes
               v == FullBytes(value, full)
    <2> HIDE DEF u, v
    <2>3. u \in Seq(0 .. 255) /\ v \in Seq(0 .. 255)
      BY <2>1, <2>2 DEF u, v
    <2>4. /\ u \o v \in Seq(0 .. 255) /\ Len(u \o v) = Len(u) + Len(v)
          /\ \A k \in 1 .. Len(u) : (u \o v)[k] = u[k]
          /\ \A k \in 1 .. Len(v) : (u \o v)[Len(u) + k] = v[k]
      BY <2>3, Concatenation
    <2>5. new.bytes = u \o v /\ Len(u) = L /\ Len(v) = full
      BY <1>11, <2>1, <2>2 DEF u, v
    <2>6. /\ new.bytes \in Octets /\ Len(new.bytes) = L + full
          /\ \A k \in 1 .. L : new.bytes[k] = u[k]
          /\ \A k \in 1 .. full : new.bytes[L + k] = v[k]
      BY <2>4, <2>5 DEF Octets
    <2> QED BY <2>6 DEF u, v
  <1>8. new.bitBuffer \in 0 .. PowerOf2[new.bitLength] - 1
    <2>1. PowerOf2[held + length] = PowerOf2[8 * full] * PowerOf2[rest]
      <3>1. PICK m \in Nat : m = 8 * full
        OBVIOUS
      <3>2. PowerOf2[m + rest] = PowerOf2[m] * PowerOf2[rest]
        BY PowerOfSum
      <3> QED BY <1>5, <3>1, <3>2
    <2> DEFINE p == PowerOf2[8 * full]
               t == PowerOf2[rest]
               x == value \div p
    <2>2. p \in Nat /\ p >= 1 /\ t \in Nat /\ t >= 1
      BY <1>5, PowerPositive
    <2>3. x \in Nat /\ x * p <= value
      <3> HIDE DEF p
      <3>1. x \in Nat /\ value % p \in 0 .. p - 1 /\ value = x * p + (value % p)
        BY <1>3, <2>2, Division
      <3>2. x * p \in Nat
        BY <3>1, <2>2
      <3> HIDE DEF x
      <3> QED BY <3>1, <3>2, <2>2
    <2>4. value < p * t
      BY <1>3, <2>1
    <2> HIDE DEF p, t, x
    <2>5. x < t
      <3> SUFFICES ASSUME x >= t PROVE FALSE
        BY <2>2, <2>3
      <3>1. x * p >= t * p
        BY <2>2, <2>3
      <3>2. t * p = p * t /\ p * t \in Nat /\ x * p \in Nat
        BY <2>2, <2>3
      <3> QED BY <1>3, <2>3, <2>4, <3>1, <3>2
    <2> QED BY <1>11, <2>2, <2>3, <2>5 DEF p, t, x
  <1>9. ASSUME NEW i \in 0 .. Len(c) - 1 PROVE StreamBit(new, i) = c[i + 1]
    <2>0. i \in Nat /\ i < 8 * L + held + length
      BY <1>1, <1>5, <1>6
    <2>1. CASE i < 8 * L
      <3>1. (i \div 8) + 1 \in 1 .. L /\ i \in 0 .. Len(b) - 1 /\ i < 8 * (L + full)
        BY <1>5, <1>13, <2>0, <2>1
      <3>2. StreamBit(new, i) = BitOf(o.bytes[(i \div 8) + 1], i % 8)
        BY <1>7, <3>1 DEF StreamBit
      <3>3. StreamBit(o, i) = BitOf(o.bytes[(i \div 8) + 1], i % 8)
        BY <1>1, <2>1 DEF StreamBit
      <3>4. c[i + 1] = b[i + 1]
        BY <1>12, <1>13, <3>1
      <3> QED BY <1>13, <3>1, <3>2, <3>3, <3>4
    <2>2. CASE ~(i < 8 * L)
      <3>1. PICK j \in Nat : i = 8 * L + j /\ j < held + length
        <4>1. i - 8 * L \in Nat /\ i = 8 * L + (i - 8 * L)
          BY <2>0, <2>2
        <4> QED BY <2>0, <4>1
      <3>2. StreamBit(new, i) = BitOf(value, j)
        <4>1. CASE j < 8 * full
          <5>1. i \div 8 = L + (j \div 8) /\ i % 8 = j % 8 /\ (j \div 8) + 1 \in 1 .. full
                /\ j \in 0 .. 8 * full - 1 /\ i < 8 * (L + full)
            BY <1>5, <3>1, <4>1
          <5>2. new.bytes[(i \div 8) + 1] = FullBytes(value, full)[(j \div 8) + 1]
            <6>1. PICK k \in 1 .. full : k = (j \div 8) + 1 /\ (i \div 8) + 1 = L + k
              BY <5>1
            <6>2. new.bytes[L + k] = FullBytes(value, full)[k]
              BY <1>7
            <6> QED BY <6>1, <6>2
          <5>3. BitOf(FullBytes(value, full)[(j \div 8) + 1], j % 8) = BitOf(value, j)
            BY <1>16, <5>1
          <5> QED BY <1>7, <5>1, <5>2, <5>3 DEF StreamBit
        <4>2. CASE ~(j < 8 * full)
          <5>1. PICK k \in Nat : j = 8 * full + k
            <6>1. j - 8 * full \in Nat /\ j = 8 * full + (j - 8 * full)
              BY <4>2
            <6> QED BY <6>1
          <5>2. i - 8 * (L + full) = k /\ ~(i < 8 * (L + full))
            BY <3>1, <4>2, <5>1
          <5>3. BitOf(value \div PowerOf2[8 * full], k) = BitOf(value, 8 * full + k)
            <6>1. PICK m \in Nat : m = 8 * full
              OBVIOUS
            <6>2. BitOf(value \div PowerOf2[m], k) = BitOf(value, m + k)
              BY BitOfShifted
            <6> QED BY <6>1, <6>2
          <5> QED BY <1>7, <1>11, <5>1, <5>2, <5>3 DEF StreamBit
        <4> QED BY <4>1, <4>2
      <3>3. CASE j < held
        <4>1. i \in 0 .. Len(b) - 1 /\ i + 1 \in 1 .. Len(b) /\ i - 8 * L = j
          BY <1>13, <3>1, <3>3
        <4>2. c[i + 1] = b[i + 1]
          BY <1>12, <1>13, <4>1
        <4>3. StreamBit(o, i) = BitOf(low, j)
          BY <1>1, <2>2, <4>1 DEF StreamBit
        <4> QED BY <1>13, <1>4, <3>2, <3>3, <4>1, <4>2, <4>3
      <3>4. CASE ~(j < held)
        <4>1. (i + 1) - Len(b) = (j - held) + 1 /\ (j - held) + 1 \in 1 .. length
              /\ i + 1 \in Len(b) + 1 .. Len(b) + length
          BY <1>13, <3>1, <3>4
        <4>2. c[i + 1] = added[(i + 1) - Len(b)]
          BY <1>12, <1>13, <4>1
        <4>3. added[(j - held) + 1] = BitOf(data, ((j - held) + 1) - 1) /\ ((j - held) + 1) - 1 = j - held
          BY <1>12, <4>1
        <4> QED BY <1>4, <3>2, <3>4, <4>1, <4>2, <4>3
      <3> QED BY <3>3, <3>4
    <2> QED BY <2>1, <2>2
  <1>10. Len(c) = 8 * Len(new.bytes) + new.bitLength
    BY <1>5, <1>6, <1>7, <1>11
  <1>14. new \in Streams
    <2>1. new.bytes \in Octets /\ new.bitLength \in 0 .. 7
      BY <1>5, <1>7, <1>11
    <2>2. new.bitBuffer \in Nat
      <3>1. PowerOf2[rest] \in Nat
        BY <1>5, PowerPositive
      <3> QED BY <1>8, <1>11, <3>1
    <2> QED BY <1>15, <2>1, <2>2 DEF Streams
  <1> QED BY <1>6, <1>8, <1>9, <1>10, <1>14 DEF Holds, new, added

(* The bytes hold the bits in b, the last one filled up with 0.            *)
Flushed(bytes, b) ==
  /\ bytes \in Octets
  /\ b \in Seq({0, 1}) /\ Len(bytes) = (Len(b) + 7) \div 8
  /\ \A i \in 0 .. Len(b) - 1 : BitOf(bytes[(i \div 8) + 1], i % 8) = b[i + 1]
  /\ \A i \in Len(b) .. 8 * Len(bytes) - 1 : BitOf(bytes[(i \div 8) + 1], i % 8) = 0

(* flush writes what is left in the buffer, so that the bytes hold it all  *)
(* (2118-2122).                                                            *)
LEMMA FlushBitsHolds ==
  ASSUME NEW o, NEW b, Holds(o, b)
  PROVE  Flushed(FlushBits(o).bytes, b)
  <1>1. PICK held \in 0 .. 7, L \in Nat, low \in Nat :
          held = o.bitLength /\ L = Len(o.bytes) /\ low = o.bitBuffer
    BY DEF Holds, Streams, Octets
  <1>2. /\ b \in Seq({0, 1}) /\ Len(b) = 8 * L + held /\ o.bytes \in Octets /\ o \in Streams
        /\ \A i \in 0 .. Len(b) - 1 : StreamBit(o, i) = b[i + 1]
    BY <1>1 DEF Holds, Streams
  <1>3. CASE held = 0
    <2>1. FlushBits(o) = o
      BY <1>1, <1>3 DEF FlushBits
    <2>2. Len(b) = 8 * L /\ (Len(b) + 7) \div 8 = L
      BY <1>2, <1>3
    <2>3. ASSUME NEW i \in 0 .. Len(b) - 1
          PROVE  BitOf(o.bytes[(i \div 8) + 1], i % 8) = b[i + 1]
      <3>1. i < 8 * Len(o.bytes) /\ i \in 0 .. Len(b) - 1
        BY <1>1, <2>2
      <3>2. StreamBit(o, i) = b[i + 1]
        BY <1>2
      <3> QED BY <3>1, <3>2 DEF StreamBit
    <2>4. Len(b) .. 8 * Len(o.bytes) - 1 = {}
      BY <1>1, <2>2
    <2> QED BY <1>1, <1>2, <2>1, <2>2, <2>3, <2>4 DEF Flushed
  <1>4. CASE held # 0
    <2> DEFINE bytes == Append(o.bytes, low)
    <2>1. FlushBits(o).bytes = bytes
      BY <1>1, <1>2, <1>4 DEF FlushBits, Streams
    <2>2. low \in 0 .. 255
      <3>1. PowerOf2[held] \in {2, 4, 8, 16, 32, 64, 128}
        BY <1>4, Powers
      <3>2. low \in 0 .. PowerOf2[held] - 1
        <4>1. o.bitBuffer \in 0 .. PowerOf2[o.bitLength] - 1
          BY DEF Holds
        <4>2. o.bitBuffer = low /\ o.bitLength = held
          BY <1>1
        <4> QED BY <4>1, <4>2
      <3> QED BY <3>1, <3>2
    <2>3. /\ bytes \in Octets /\ Len(bytes) = L + 1 /\ bytes[L + 1] = low
          /\ \A k \in 1 .. L : bytes[k] = o.bytes[k]
      BY <1>1, <1>2, <2>2 DEF Octets
    <2>4. (Len(b) + 7) \div 8 = L + 1
      BY <1>2, <1>4
    <2> HIDE DEF bytes
    <2>5. ASSUME NEW i \in 0 .. Len(b) - 1
          PROVE  BitOf(bytes[(i \div 8) + 1], i % 8) = b[i + 1]
      <3>1. CASE i < 8 * L
        <4>1. (i \div 8) + 1 \in 1 .. L
          BY <3>1
        <4> QED BY <1>1, <1>2, <2>3, <3>1, <4>1 DEF StreamBit
      <3>2. CASE ~(i < 8 * L)
        <4>1. i \div 8 = L /\ i % 8 = i - 8 * L
          BY <1>2, <3>2
        <4> QED BY <1>1, <1>2, <2>3, <3>2, <4>1 DEF StreamBit
      <3> QED BY <3>1, <3>2
    <2>6. ASSUME NEW i \in Len(b) .. 8 * Len(bytes) - 1
          PROVE  BitOf(bytes[(i \div 8) + 1], i % 8) = 0
      <3>1. PICK k \in Nat : k = i - Len(b)
        BY <1>2, <2>6
      <3>2. i \div 8 = L /\ i % 8 = held + k /\ held + k \in Nat
        <4>1. i \in Nat /\ i = 8 * L + (held + k) /\ held + k \in 0 .. 7
          BY <1>2, <2>3, <2>6, <3>1
        <4>2. PICK m \in 0 .. 7 : m = held + k
          BY <4>1
        <4>3. i = L * 8 + m
          BY <4>1, <4>2
        <4>4. (L * 8 + m) \div 8 = L /\ (L * 8 + m) % 8 = m
          BY Quotient
        <4> QED BY <4>2, <4>3, <4>4
      <3>3. low \in 0 .. PowerOf2[held] - 1
        BY <1>1 DEF Holds
      <3>4. BitOf(low, held + k) = 0
        <4>1. held \in Nat
          OBVIOUS
        <4> QED BY <3>3, <4>1, BitsAbove
      <3> QED BY <2>3, <3>2, <3>4
    <2> QED BY <1>2, <2>1, <2>3, <2>4, <2>5, <2>6 DEF Flushed
  <1> QED BY <1>3, <1>4

(* A new stream holds nothing.                                             *)
LEMMA EmptyHolds == Holds(EmptyStream, <<>>)
  <1>1. EmptyStream \in Streams
    BY DEF EmptyStream, Streams, Octets
  <1>2. EmptyStream.bitBuffer \in 0 .. PowerOf2[EmptyStream.bitLength] - 1
    BY PowerOf2Values DEF EmptyStream
  <1> QED BY <1>1, <1>2 DEF Holds, EmptyStream

-----------------------------------------------------------------------------
Chars == 0 .. endCode
Strings == Seq(Chars)

TypesOK ==
  /\ fed \in Strings /\ read \in Strings /\ s \in Strings /\ prev \in Strings
  /\ size \in Nat /\ known \in Nat /\ bitLength \in Nat
  /\ capacity \in Nat /\ room \in Nat
  /\ dict \in [0 .. known - 1 -> Strings]
  /\ \A k \in DOMAIN table : k \in Strings /\ table[k] \in Nat
  /\ Single \subseteq DOMAIN table

(* Before the first pixel.                                                 *)
Fresh ==
  /\ table = [k \in Single |-> k[1]] /\ size = endCode + 1
  /\ capacity = 8 /\ room = 8
  /\ dict = [x \in 0 .. endCode |-> <<x>>] /\ known = endCode + 1
  /\ s = <<>> /\ prev = <<>> /\ read = <<>>

(* How far the reader is behind.                                           *)
Behind ==
  \/ prev = <<>> /\ known = 6 /\ size = 6
  \/ prev # <<>> /\ known = size - 1
  \/ prev # <<>> /\ size = TableLimit /\ known \in {TableLimit, TableLimit + 1}

Widths ==
  /\ capacity = room /\ capacity % 2 = 0 /\ capacity >= 8
  /\ 6 <= size /\ size <= TableLimit /\ size <= capacity

(* The strings that both have, and the one that only the writer has.       *)
Tables ==
  \A k \in DOMAIN table :
    /\ table[k] < size
    /\ table[k] < known => dict[table[k]] = k
    /\ table[k] = known => prev # <<>> /\ k = Append(prev, Head(s))

Running == Behind /\ Widths /\ Tables /\ s \in DOMAIN table

RasterInv ==
  /\ TypesOK
  /\ fed = read \o s
  /\ fed = <<>> => Fresh
  /\ s # <<>> => Running
  /\ EndWidth

(* The reader starts with the table of the writer, and neither has seen a  *)
(* pixel.                                                                  *)
LEMMA RasterInvInit == RasterInit => RasterInv
  <1> SUFFICES ASSUME RasterInit PROVE RasterInv
    OBVIOUS
  <1>1. TypesOK
    <2>1. dict \in [0 .. 5 -> Strings] /\ known = 6 /\ 0 .. known - 1 = 0 .. 5
      BY DEF RasterInit, Strings, Chars, endCode
    <2>2. table = [k \in Single |-> k[1]] /\ DOMAIN table = Single
      BY DEF RasterInit
    <2>3. ASSUME NEW k \in Single PROVE k \in Strings /\ k[1] \in Nat
      <3>1. PICK i \in 0 .. 5 : k = <<i>>
        BY DEF Single, endCode
      <3>2. <<i>> \in Seq(0 .. 5) /\ <<i>>[1] = i
        OBVIOUS
      <3> QED BY <3>1, <3>2 DEF Strings, Chars, endCode
    <2> QED BY <2>1, <2>2, <2>3 DEF RasterInit, TypesOK, Strings, endCode
  <1>2. fed = read \o s /\ Fresh
    BY DEF RasterInit, Fresh
  <1>3. s = <<>> /\ fed = <<>>
    BY DEF RasterInit
  <1> QED BY <1>1, <1>2, <1>3 DEF RasterInv, EndWidth

(* The code of the pending string means the pending string to the reader.  *)
LEMMA MeaningOfPending ==
  ASSUME TypesOK, s # <<>>, Running
  PROVE  Meaning(table[s]) = s
  <1>1. s \in DOMAIN table /\ table[s] \in Nat /\ table[s] < size
    BY DEF Running, Tables, TypesOK
  <1>2. CASE table[s] < known
    BY <1>1, <1>2 DEF Running, Tables, Meaning
  <1>3. CASE ~(table[s] < known)
    <2>1. table[s] = known
      BY <1>1, <1>3, TableLimitAssumption DEF Running, Behind, TypesOK
    <2>2. prev # <<>> /\ s = Append(prev, Head(s))
      BY <1>1, <2>1 DEF Running, Tables
    <2>3. Head(s) = Head(prev)
      <3>1. Head(Append(prev, Head(s))) = Head(prev)
        BY <2>2 DEF TypesOK
      <3> QED BY <3>1, <2>2
    <2> QED BY <1>3, <2>2, <2>3 DEF Meaning
  <1> QED BY <1>2, <1>3

(* Pending strings are made of characters.                                 *)
LEMMA AppendPixel ==
  ASSUME NEW c \in Pixels, NEW t \in Strings
  PROVE  /\ Append(t, c) \in Strings /\ Append(t, c) # <<>> /\ Append(t, c) = t \o <<c>>
         /\ <<c>> \in Strings /\ <<c>> \in Single /\ <<c>> # <<>> /\ Head(<<c>>) = c
         /\ t # <<>> => Head(Append(t, c)) = Head(t)
  <1>1. c \in Chars /\ c \in 0 .. endCode /\ t \in Seq(Chars)
    BY DEF Pixels, Strings, Chars, endCode
  <1>2. /\ Append(t, c) \in Seq(Chars) /\ Append(t, c) # <<>> /\ Append(t, c) = t \o <<c>>
        /\ <<c>> \in Seq(Chars) /\ <<c>> # <<>> /\ Head(<<c>>) = c
    <2>1. Append(t, c) \in Seq(Chars) /\ Append(t, c) # <<>>
      BY <1>1
    <2>2. <<c>> \in Seq(Chars) /\ <<c>> # <<>> /\ Head(<<c>>) = c
      BY <1>1
    <2>3. Append(t, c) = t \o <<c>>
      BY <1>1, <2>2
    <2> QED BY <2>1, <2>2, <2>3
  <1>3. ASSUME t # <<>> PROVE Head(Append(t, c)) = Head(t)
    <2>1. Len(t) \in Nat /\ Len(t) >= 1
      BY <1>1, <1>3
    <2>2. Append(t, c)[1] = t[1]
      BY <1>1, <2>1
    <2>3. Head(Append(t, c)) = Append(t, c)[1] /\ Head(t) = t[1]
      BY <1>1, <1>3
    <2> QED BY <2>2, <2>3
  <1>4. <<c>> \in Single
    BY <1>1 DEF Single
  <1> QED BY <1>2, <1>3, <1>4 DEF Strings

(* The first pixel begins the pending string.                              *)
LEMMA BeginsStep ==
  ASSUME RasterInv, NEW c \in Pixels, Begins(c), fed' = Append(fed, c)
  PROVE  RasterInv'
  <1>1. fed = <<>> /\ Fresh /\ TypesOK
    BY DEF RasterInv, Begins
  <1>2. s' = <<c>> /\ UNCHANGED <<table, size, bitLength, capacity, out, bits, reader>>
    BY DEF Begins
  <1>3. TypesOK'
    BY <1>1, <1>2, AppendPixel DEF TypesOK, reader, Strings
  <1>4. fed' = read' \o s' /\ fed' # <<>>
    BY <1>1, <1>2, AppendPixel DEF Fresh, reader
  <1>5. Behind' /\ Widths'
    BY <1>1, <1>2, TableLimitAssumption DEF Fresh, Behind, Widths, reader, endCode
  <1>6. Tables'
    BY <1>1, <1>2 DEF Fresh, Tables, reader, endCode, Single
  <1>7. s' \in DOMAIN table'
    BY <1>1, <1>2, AppendPixel DEF TypesOK
  <1>8. s' # <<>>
    BY <1>2
  <1> QED BY <1>3, <1>4, <1>5, <1>6, <1>7, <1>8 DEF RasterInv, Running, EndWidth

(* A pixel that makes a string of the table extends it.                    *)
LEMMA ExtendsStep ==
  ASSUME RasterInv, NEW c \in Pixels, Extends(c), fed' = Append(fed, c)
  PROVE  RasterInv'
  <1>1. TypesOK /\ Running /\ s # <<>> /\ fed = read \o s
    BY DEF RasterInv, Extends
  <1>2. s' = Append(s, c) /\ s' \in DOMAIN table
        /\ UNCHANGED <<table, size, bitLength, capacity, out, bits, reader>>
    BY DEF Extends
  <1>3. TypesOK'
    BY <1>1, <1>2, AppendPixel DEF TypesOK, reader
  <1>4. fed' = read' \o s' /\ fed' # <<>>
    <2>1. fed' = (read \o s) \o <<c>>
      BY <1>1, AppendPixel DEF TypesOK
    <2>2. (read \o s) \o <<c>> = read \o (s \o <<c>>)
      <3>1. read \in Seq(Chars) /\ s \in Seq(Chars) /\ <<c>> \in Seq(Chars)
        BY <1>1, AppendPixel DEF TypesOK, Strings
      <3> QED BY <3>1
    <2> QED BY <1>1, <1>2, <2>1, <2>2, AppendPixel DEF TypesOK, reader
  <1>5. Head(s') = Head(s)
    BY <1>1, <1>2, AppendPixel DEF TypesOK
  <1>6. Running'
    BY <1>1, <1>2, <1>5 DEF Running, Behind, Widths, Tables, reader
  <1>7. s' # <<>>
    BY <1>1, <1>2, AppendPixel DEF TypesOK
  <1> QED BY <1>3, <1>4, <1>6, <1>7 DEF RasterInv, EndWidth

(* What the reader does with the code of the pending string.               *)
LEMMA ReadsPending ==
  ASSUME TypesOK, s # <<>>, Running, Reads(table[s])
  PROVE  /\ read' = read \o s /\ prev' = s
         /\ known' = (IF Learns THEN known + 1 ELSE known)
         /\ known' \in Nat /\ dict' \in [0 .. known' - 1 -> Strings]
         /\ \A x \in 0 .. known - 1 : dict'[x] = dict[x]
         /\ Learns => dict'[known] = Append(prev, Head(s))
         /\ room' = (IF known' = room /\ room <= TableLimit THEN 2 * room ELSE room)
  <1>1. Meaning(table[s]) = s
    BY MeaningOfPending
  <1>2. /\ read' = read \o s /\ prev' = s
        /\ known' = (IF Learns THEN known + 1 ELSE known)
        /\ dict' = (IF Learns THEN [x \in 0 .. known |->
                          IF x = known THEN Append(prev, Head(s)) ELSE dict[x]]
                    ELSE dict)
        /\ room' = (IF known' = room /\ room <= TableLimit THEN 2 * room ELSE room)
    BY <1>1 DEF Reads
  <1>3. known \in Nat /\ dict \in [0 .. known - 1 -> Strings] /\ known' \in Nat
    BY <1>2 DEF TypesOK
  <1>4. Append(prev, Head(s)) \in Strings
    BY DEF TypesOK, Strings
  <1>5. CASE Learns
    <2>1. known' = known + 1 /\ 0 .. known' - 1 = 0 .. known
      BY <1>2, <1>3, <1>5
    <2>2. dict' = [x \in 0 .. known |-> IF x = known THEN Append(prev, Head(s)) ELSE dict[x]]
      BY <1>2, <1>5
    <2>3. dict' \in [0 .. known -> Strings]
      BY <2>2, <1>3, <1>4
    <2>4. \A x \in 0 .. known - 1 : dict'[x] = dict[x]
      BY <2>2, <1>3
    <2>5. dict'[known] = Append(prev, Head(s))
      BY <2>2, <1>3
    <2> QED BY <1>2, <1>3, <2>1, <2>3, <2>4, <2>5
  <1>6. CASE ~Learns
    BY <1>2, <1>3, <1>6
  <1> QED BY <1>5, <1>6

(* Any other one has the code of the pending string written, and both      *)
(* tables take a string if there is room (2168-2181).                      *)
LEMMA EmitsStep ==
  ASSUME RasterInv, NEW c \in Pixels, Emits(c), fed' = Append(fed, c)
  PROVE  RasterInv'
  <1> DEFINE key == Append(s, c)
  <1>1. TypesOK /\ Running /\ s # <<>> /\ fed = read \o s
    BY DEF RasterInv, Emits
  <1>2. key \notin DOMAIN table /\ Reads(table[s]) /\ Add(key) /\ s' = <<c>>
    BY DEF Emits, Write
  <1>3. /\ read' = read \o s /\ prev' = s
        /\ known' = (IF Learns THEN known + 1 ELSE known)
        /\ known' \in Nat /\ dict' \in [0 .. known' - 1 -> Strings]
        /\ \A x \in 0 .. known - 1 : dict'[x] = dict[x]
        /\ Learns => dict'[known] = Append(prev, Head(s))
        /\ room' = (IF known' = room /\ room <= TableLimit THEN 2 * room ELSE room)
    BY <1>1, <1>2, ReadsPending
  <1>4. key \in Strings /\ s' \in Strings /\ s' # <<>> /\ s' \in Single /\ Head(s') = c
    BY <1>1, <1>2, AppendPixel DEF TypesOK
  <1>5. fed' = read' \o s' /\ fed' # <<>> /\ fed' \in Strings /\ read' \in Strings
    <2>1. fed' = (read \o s) \o <<c>>
      BY <1>1, AppendPixel DEF TypesOK
    <2> QED BY <1>1, <1>2, <1>3, <2>1, AppendPixel DEF TypesOK, Strings
  <1>6. /\ size < TableLimit =>
             /\ size' = size + 1
             /\ table' = [k \in DOMAIN table \cup {key} |-> IF k = key THEN size ELSE table[k]]
             /\ size = capacity => capacity' = 2 * capacity /\ bitLength' = bitLength + 1
             /\ size # capacity => capacity' = capacity /\ bitLength' = bitLength
        /\ ~(size < TableLimit) => UNCHANGED <<table, size, bitLength, capacity>>
    BY <1>2 DEF Add
  <1>7. TypesOK'
    <2>1. size' \in Nat /\ capacity' \in Nat /\ bitLength' \in Nat /\ room' \in Nat
      <3>1. size \in Nat /\ capacity \in Nat /\ bitLength \in Nat /\ room \in Nat
        BY <1>1 DEF TypesOK
      <3>2. room' \in Nat
        BY <1>3, <3>1
      <3>3. size' \in Nat /\ capacity' \in Nat /\ bitLength' \in Nat
        BY <1>6, <3>1
      <3> QED BY <3>2, <3>3
    <2>2. /\ \A k \in DOMAIN table' : k \in Strings /\ table'[k] \in Nat
          /\ Single \subseteq DOMAIN table'
      BY <1>1, <1>4, <1>6 DEF TypesOK
    <2>3. prev' \in Strings
      BY <1>1, <1>3 DEF TypesOK
    <2> QED BY <1>3, <1>4, <1>5, <2>1, <2>2, <2>3 DEF TypesOK
  <1>8. \/ known' = size
        \/ ~(size < TableLimit) /\ known' \in {TableLimit, TableLimit + 1}
    <2>1. size \in Nat /\ known \in Nat /\ Behind /\ size <= TableLimit /\ TableLimit \in Nat
          /\ TableLimit >= 8
      BY <1>1, TableLimitAssumption DEF Running, Widths, TypesOK
    <2>2. CASE prev = <<>>
      BY <1>3, <2>1, <2>2 DEF Behind, Learns
    <2>3. CASE prev # <<>> /\ known = size - 1
      BY <1>3, <2>1, <2>3 DEF Learns
    <2>4. CASE prev # <<>> /\ size = TableLimit /\ known = TableLimit
      BY <1>3, <2>1, <2>4 DEF Learns
    <2>5. CASE prev # <<>> /\ size = TableLimit /\ known = TableLimit + 1
      BY <1>3, <2>1, <2>5 DEF Learns
    <2> QED BY <2>1, <2>2, <2>3, <2>4, <2>5 DEF Behind
  <1>9. Behind'
    <2>1. prev' # <<>> /\ size \in Nat /\ size <= TableLimit /\ TableLimit \in Nat
      BY <1>1, <1>3, TableLimitAssumption DEF Running, Widths, TypesOK
    <2>2. CASE size < TableLimit
      <3>1. known' = size /\ size' = size + 1
        BY <1>6, <1>8, <2>2
      <3>2. known' = size' - 1
        BY <2>1, <3>1
      <3> QED BY <2>1, <3>2 DEF Behind
    <2>3. CASE ~(size < TableLimit)
      <3>1. size = TableLimit /\ size' = size
        BY <1>6, <2>1, <2>3
      <3>2. known' \in {TableLimit, TableLimit + 1}
        BY <1>8, <3>1
      <3> QED BY <2>1, <3>1, <3>2 DEF Behind
    <2> QED BY <2>2, <2>3
  <1>10. Widths'
    <2>1. CASE size < TableLimit
      <3>1. known' = size /\ room = capacity
        BY <1>1, <1>8, <2>1 DEF Running, Widths
      <3>2. size = capacity => room <= TableLimit
        BY <1>1, <2>1, <3>1, TableLimitAssumption DEF TypesOK
      <3>3. /\ capacity \in Nat /\ size \in Nat /\ TableLimit \in Nat
            /\ capacity % 2 = 0 /\ capacity >= 8 /\ 6 <= size /\ size <= capacity
            /\ size' = size + 1
        BY <1>1, <1>6, <2>1, TableLimitAssumption DEF Running, Widths, TypesOK
      <3>4. CASE size = capacity
        <4>1. capacity' = 2 * capacity /\ room' = 2 * capacity
          BY <1>3, <1>6, <2>1, <3>1, <3>2, <3>4
        <4>2. (2 * capacity) % 2 = 0
          BY <3>3
        <4> QED BY <2>1, <3>3, <3>4, <4>1, <4>2 DEF Widths
      <3>5. CASE size # capacity
        <4>1. capacity' = capacity /\ room' = capacity
          BY <1>3, <1>6, <2>1, <3>1, <3>5
        <4> QED BY <2>1, <3>3, <3>5, <4>1 DEF Widths
      <3> QED BY <3>4, <3>5
    <2>2. CASE ~(size < TableLimit)
      <3>1. known' \in {TableLimit, TableLimit + 1} /\ size = TableLimit
        BY <1>1, <1>8, <2>2, TableLimitAssumption DEF Running, Widths, TypesOK
      <3>2. ~(known' = room /\ room <= TableLimit)
        BY <1>1, <3>1, TableLimitAssumption DEF Running, Widths, TypesOK
      <3> QED BY <1>1, <1>3, <1>6, <2>2, <3>2 DEF Running, Widths
    <2> QED BY <2>1, <2>2
  <1>11. Tables'
    <2>1. ASSUME NEW k \in DOMAIN table
          PROVE  /\ table[k] \in Nat /\ table[k] < size
                 /\ table[k] < known' => dict'[table[k]] = k
                 /\ table[k] # known'
      <3>1. table[k] \in Nat /\ table[k] < size /\ known \in Nat /\ size \in Nat
        BY <1>1 DEF TypesOK, Running, Tables
      <3>2. table[k] # known'
        BY <3>1, <1>1, <1>8, TableLimitAssumption DEF Running, Widths
      <3>3. table[k] < known => dict'[table[k]] = k
        <4>1. \A x \in 0 .. known - 1 : dict'[x] = dict[x]
          BY <1>3
        <4>2. table[k] < known => dict[table[k]] = k
          BY <1>1 DEF Running, Tables
        <4>3. table[k] < known => table[k] \in 0 .. known - 1
          BY <3>1
        <4> QED BY <4>1, <4>2, <4>3
      <3>4. table[k] = known /\ Learns => dict'[table[k]] = k
        BY <1>1, <1>3 DEF Running, Tables
      <3>5. table[k] < known' => table[k] < known \/ (table[k] = known /\ Learns)
        <4>1. CASE Learns
          <5>1. known' = known + 1
            BY <1>3, <4>1
          <5> QED BY <3>1, <4>1, <5>1
        <4>2. CASE ~Learns
          <5>1. known' = known
            BY <1>3, <4>2
          <5> QED BY <5>1
        <4> QED BY <4>1, <4>2
      <3> QED BY <3>1, <3>2, <3>3, <3>4, <3>5
    <2>2. CASE size < TableLimit
      <3>1. known' = size
        BY <1>8, <2>2
      <3>2. DOMAIN table' = DOMAIN table \cup {key} /\ table'[key] = size /\ size' = size + 1
        BY <1>6, <2>2
      <3>3. \A k \in DOMAIN table : table'[k] = table[k]
        BY <1>2, <1>6, <2>2
      <3>4. ASSUME NEW k \in DOMAIN table'
            PROVE  /\ table'[k] < size'
                   /\ table'[k] < known' => dict'[table'[k]] = k
                   /\ table'[k] = known' => prev' # <<>> /\ k = Append(prev', Head(s'))
        <4>1. CASE k \in DOMAIN table
          BY <1>1, <2>1, <3>2, <3>3, <4>1 DEF TypesOK
        <4>2. CASE k = key
          BY <1>1, <1>3, <1>4, <3>1, <3>2, <4>2 DEF TypesOK
        <4> QED BY <3>2, <4>1, <4>2
      <3> QED BY <3>4 DEF Tables
    <2>3. CASE ~(size < TableLimit)
      BY <1>6, <2>1, <2>3 DEF Tables
    <2> QED BY <2>2, <2>3
  <1>12. s' \in DOMAIN table'
    BY <1>4, <1>7 DEF TypesOK
  <1> QED BY <1>4, <1>5, <1>7, <1>9, <1>10, <1>11, <1>12 DEF RasterInv, Running, EndWidth

(* With the code of the last string the reader's table may grow once more, *)
(* and the writer's does not: that is how the end code can be one bit      *)
(* shorter than the reader expects (2179-2182).                            *)
LEMMA LastCodesStep ==
  ASSUME RasterInv, LastCodes
  PROVE  RasterInv'
  <1>1. TypesOK /\ Running /\ s # <<>> /\ fed = read \o s
    BY DEF RasterInv, LastCodes
  <1>2. Reads(table[s]) /\ s' = <<>> /\ UNCHANGED <<table, size, bitLength, capacity, fed>>
    BY DEF LastCodes
  <1>3. /\ read' = read \o s /\ prev' = s
        /\ known' \in Nat /\ dict' \in [0 .. known' - 1 -> Strings]
        /\ room' = (IF known' = room /\ room <= TableLimit THEN 2 * room ELSE room)
    BY <1>1, <1>2, ReadsPending
  <1>4. fed' = read' \o s' /\ fed' # <<>>
    <2>1. read \in Seq(Chars) /\ s \in Seq(Chars)
      BY <1>1 DEF TypesOK, Strings
    <2>2. (read \o s) \o <<>> = read \o s /\ read \o s # <<>>
      BY <1>1, <2>1
    <2> QED BY <1>1, <1>2, <1>3, <2>2
  <1>5. TypesOK'
    <2>1. read' \in Strings /\ s' \in Strings /\ fed' \in Strings /\ prev' \in Strings
      BY <1>1, <1>2, <1>3 DEF TypesOK, Strings
    <2>2. size' \in Nat /\ bitLength' \in Nat /\ capacity' \in Nat /\ room' \in Nat
      BY <1>1, <1>2, <1>3 DEF TypesOK
    <2> QED BY <1>1, <1>2, <1>3, <2>1, <2>2 DEF TypesOK
  <1>6. room' \in {capacity', 2 * capacity'}
    <2>1. room = capacity /\ capacity' = capacity
      BY <1>1, <1>2 DEF Running, Widths
    <2> QED BY <1>3, <2>1
  <1> QED BY <1>2, <1>4, <1>5, <1>6 DEF RasterInv, EndWidth

(* With any next pixel, and with the end, the reader stays as far behind   *)
(* as it was.                                                              *)
LEMMA RasterInvStep == RasterInv /\ [RasterNext]_rasterVars => RasterInv'
  <1> SUFFICES ASSUME RasterInv, [RasterNext]_rasterVars PROVE RasterInv'
    OBVIOUS
  <1>1. ASSUME NEW c \in Pixels, Feed(c) PROVE RasterInv'
    BY <1>1, BeginsStep, ExtendsStep, EmitsStep DEF Feed
  <1>2. CASE LastCodes
    BY <1>2, LastCodesStep
  <1>3. CASE UNCHANGED rasterVars
    BY <1>3 DEF rasterVars, reader, RasterInv, TypesOK, Fresh, Running, Behind, Widths, Tables,
                EndWidth
  <1> QED BY <1>1, <1>2, <1>3 DEF RasterNext

(* What the reader has is what the codes were written for.                 *)
LEMMA RasterInvImplies == RasterInv => RasterReadable
  BY DEF RasterInv, RasterReadable, WidthsAgree, ReaderFollows, Running, Widths, Tables, TypesOK

(* The raster of any image whatever, with any limit of the table that is   *)
(* odd: every code that stands for pixels is written at the width the      *)
(* reader expects, they stand for the pixels, and at the end code the      *)
(* reader expects that width or one bit more (qrcode.js:2127-2187).        *)
THEOREM RasterAlwaysReadable == RasterSpec => []RasterReadable
  <1>1. RasterInit => RasterInv
    BY RasterInvInit
  <1>2. RasterInv /\ [RasterNext]_rasterVars => RasterInv'
    BY RasterInvStep
  <1>3. RasterInv => RasterReadable
    BY RasterInvImplies
  <1> QED BY <1>1, <1>2, <1>3, PTL DEF RasterSpec

-----------------------------------------------------------------------------
(* The last bits are those of the end code.                                *)
Ended ==
  \E b \in Seq({0, 1}) : bits = b \o LowBitsFirst(endCode, bitLength)

(* The stream of the raster, before and after the last codes.              *)
StreamInv ==
  /\ bitLength \in Nat /\ bitLength >= 3 /\ capacity = PowerOf2[bitLength]
  /\ fed = <<>> \/ s # <<>> => Holds(out, bits)
  /\ ~(fed = <<>> \/ s # <<>>) => Flushed(out.bytes, bits) /\ Ended

(* The clear code is the first in the stream (2150).                       *)
LEMMA StreamInvInit == RasterInit => StreamInv
  <1> SUFFICES ASSUME RasterInit PROVE StreamInv
    OBVIOUS
  <1>1. Holds(PutBits(EmptyStream, clearCode, 3), <<>> \o LowBitsFirst(clearCode, 3))
    <2>1. clearCode \in 0 .. PowerOf2[3] - 1 /\ 3 \in Nat
      BY Powers DEF clearCode
    <2> QED BY <2>1, EmptyHolds, PutBitsHolds
  <1>2. <<>> \o LowBitsFirst(clearCode, 3) = LowBitsFirst(clearCode, 3)
    BY DEF LowBitsFirst
  <1>3. Holds(out, bits)
    BY <1>1, <1>2 DEF RasterInit
  <1> QED BY <1>3, Powers DEF RasterInit, StreamInv

(* A code of the width that the table has fits into the stream.            *)
LEMMA PendingHolds ==
  ASSUME RasterInv, StreamInv, s # <<>>
  PROVE  /\ bitLength \in Nat
         /\ Holds(PutBits(out, table[s], bitLength), bits \o LowBitsFirst(table[s], bitLength))
  <1>1. table[s] \in Nat /\ table[s] < capacity
    BY DEF RasterInv, Running, Tables, Widths, TypesOK
  <1>2. bitLength \in Nat /\ capacity = PowerOf2[bitLength] /\ capacity \in Nat /\ Holds(out, bits)
    BY DEF StreamInv, RasterInv, TypesOK
  <1>3. table[s] \in 0 .. PowerOf2[bitLength] - 1
    BY <1>1, <1>2
  <1> QED BY <1>2, <1>3, PutBitsHolds

(* Every code that is written is in the stream, in the width of the table  *)
(* at that moment, and the last bits are flushed (2148-2187).              *)
LEMMA StreamInvStep ==
  ASSUME RasterInv, StreamInv, [RasterNext]_rasterVars
  PROVE  StreamInv'
  <1>1. ASSUME NEW c \in Pixels, Begins(c), fed' = Append(fed, c) PROVE StreamInv'
    <2>1. s' # <<>>
      BY <1>1 DEF Begins
    <2> QED BY <1>1, <2>1 DEF Begins, StreamInv
  <1>2. ASSUME NEW c \in Pixels, Extends(c), fed' = Append(fed, c) PROVE StreamInv'
    <2>1. s' # <<>>
      BY <1>2, AppendPixel DEF Extends, RasterInv, TypesOK
    <2> QED BY <1>2, <2>1 DEF Extends, StreamInv
  <1>3. ASSUME NEW c \in Pixels, Emits(c), fed' = Append(fed, c) PROVE StreamInv'
    <2>1. s # <<>> /\ s' = <<c>> /\ s' # <<>>
      BY <1>3 DEF Emits
    <2>2. Holds(out', bits')
      BY <1>3, <2>1, PendingHolds DEF Emits, Write
    <2>3. bitLength' \in Nat /\ bitLength' >= 3 /\ capacity' = PowerOf2[bitLength']
      <3>1. bitLength \in Nat /\ bitLength >= 3 /\ capacity = PowerOf2[bitLength]
        BY DEF StreamInv
      <3>2. CASE bitLength' = bitLength + 1 /\ capacity' = 2 * capacity
        BY <3>1, <3>2, PowerOf2Values
      <3>3. CASE UNCHANGED <<bitLength, capacity>>
        BY <3>1, <3>3
      <3> QED BY <1>3, <3>2, <3>3 DEF Emits, Add
    <2> QED BY <2>1, <2>2, <2>3 DEF StreamInv
  <1>4. CASE LastCodes
    <2> DEFINE o == PutBits(out, table[s], bitLength)
               b == bits \o LowBitsFirst(table[s], bitLength)
    <2>1. s # <<>> /\ s' = <<>> /\ fed' = fed /\ fed # <<>> /\ UNCHANGED <<bitLength, capacity>>
      <3>1. s # <<>> /\ s' = <<>> /\ fed' = fed /\ UNCHANGED <<bitLength, capacity>>
        BY <1>4 DEF LastCodes
      <3>2. read \in Seq(Chars) /\ s \in Seq(Chars) /\ fed = read \o s
        BY DEF RasterInv, TypesOK, Strings
      <3> QED BY <3>1, <3>2
    <2>2. bitLength \in Nat /\ Holds(o, b)
      BY <2>1, PendingHolds
    <2>3. endCode \in 0 .. PowerOf2[bitLength] - 1
      <3>1. capacity \in Nat /\ capacity >= 8 /\ capacity = PowerOf2[bitLength]
        BY <2>1 DEF StreamInv, RasterInv, TypesOK, Running, Widths
      <3> QED BY <3>1 DEF endCode
    <2> HIDE DEF o, b
    <2>4. Holds(PutBits(o, endCode, bitLength), b \o LowBitsFirst(endCode, bitLength))
      BY <2>2, <2>3, PutBitsHolds
    <2>5. Flushed(FlushBits(PutBits(o, endCode, bitLength)).bytes, b \o LowBitsFirst(endCode, bitLength))
      BY <2>4, FlushBitsHolds
    <2>6. out' = FlushBits(PutBits(o, endCode, bitLength)) /\ bits' = b \o LowBitsFirst(endCode, bitLength)
      BY <1>4 DEF LastCodes, o, b
    <2>7. Ended'
      <3>1. b \in Seq({0, 1})
        BY <2>2 DEF Holds
      <3> QED BY <2>1, <2>6, <3>1 DEF Ended
    <2> QED BY <2>1, <2>5, <2>6, <2>7 DEF StreamInv
  <1>5. CASE UNCHANGED rasterVars
    BY <1>5 DEF rasterVars, reader, StreamInv, Ended
  <1> QED BY <1>1, <1>2, <1>3, <1>4, <1>5 DEF RasterNext, Feed

-----------------------------------------------------------------------------
(* Six bits and their character.                                           *)
LEMMA CharacterOf ==
  ASSUME NEW x \in 0 .. 63
  PROVE  encode(x) \in Int /\ encode(x) # Pad /\ decode(encode(x)) = x
  <1>1. CASE x < 26
    BY <1>1 DEF encode, decode, Pad
  <1>2. CASE x \in 26 .. 51
    BY <1>2 DEF encode, decode, Pad
  <1>3. CASE x \in 52 .. 61
    BY <1>3 DEF encode, decode, Pad
  <1>4. CASE x = 62
    BY <1>4 DEF encode, decode, Pad
  <1>5. CASE x = 63
    BY <1>5 DEF encode, decode, Pad
  <1> QED BY <1>1, <1>2, <1>3, <1>4, <1>5

(* A byte of the file, and zeros after it: padding works on these.         *)
ByteAt(bytes, i) == IF i \in DOMAIN bytes THEN bytes[i] ELSE 0

(* It is a byte in any case.                                               *)
LEMMA ByteAtType ==
  ASSUME NEW bytes \in Octets, NEW i \in Nat
  PROVE  ByteAt(bytes, i) \in 0 .. 255
  <1>1. i \in DOMAIN bytes => bytes[i] \in 0 .. 255
    <2>1. bytes \in Seq(0 .. 255)
      BY DEF Octets
    <2>2. DOMAIN bytes = 1 .. Len(bytes)
      BY <2>1
    <2>3. \A n \in 1 .. Len(bytes) : bytes[n] \in 0 .. 255
      BY <2>1, ElementOfSeq
    <2> QED BY <2>2, <2>3
  <1> QED BY <1>1 DEF ByteAt

(* The four sextets that stand for three bytes (1892-1943).                *)
LEMMA SextetsOf ==
  ASSUME NEW bytes \in Octets, NEW a \in Nat
  PROVE  /\ Sextet(bytes, 4 * a) = ByteAt(bytes, 3 * a + 1) \div 4
         /\ Sextet(bytes, 4 * a + 1)
              = (ByteAt(bytes, 3 * a + 1) % 4) * 16 + (ByteAt(bytes, 3 * a + 2) \div 16)
         /\ Sextet(bytes, 4 * a + 2)
              = (ByteAt(bytes, 3 * a + 2) % 16) * 4 + (ByteAt(bytes, 3 * a + 3) \div 64)
         /\ Sextet(bytes, 4 * a + 3) = ByteAt(bytes, 3 * a + 3) % 64
  <1>2. /\ (4 * a) % 4 = 0 /\ (4 * a + 1) % 4 = 1 /\ (4 * a + 2) % 4 = 2 /\ (4 * a + 3) % 4 = 3
        /\ (4 * a) \div 4 = a /\ (4 * a + 1) \div 4 = a /\ (4 * a + 2) \div 4 = a
        /\ (4 * a + 3) \div 4 = a
    OBVIOUS
  <1>3. 3 * a + 1 + 1 = 3 * a + 2 /\ 3 * a + 1 + 2 = 3 * a + 3
    OBVIOUS
  <1>4. Sextet(bytes, 4 * a) = ByteAt(bytes, 3 * a + 1) \div 4
    BY <1>2 DEF Sextet, ByteAt
  <1>5. Sextet(bytes, 4 * a + 1)
          = (ByteAt(bytes, 3 * a + 1) % 4) * 16 + (ByteAt(bytes, 3 * a + 2) \div 16)
    BY <1>2, <1>3 DEF Sextet, ByteAt
  <1>6. Sextet(bytes, 4 * a + 2)
          = (ByteAt(bytes, 3 * a + 2) % 16) * 4 + (ByteAt(bytes, 3 * a + 3) \div 64)
    BY <1>2, <1>3 DEF Sextet, ByteAt
  <1>7. Sextet(bytes, 4 * a + 3) = ByteAt(bytes, 3 * a + 3) % 64
    BY <1>2, <1>3 DEF Sextet, ByteAt
  <1> QED BY <1>4, <1>5, <1>6, <1>7

(* What they are made of are bytes.                                        *)
LEMMA ThreeBytes ==
  ASSUME NEW bytes \in Octets, NEW a \in Nat
  PROVE  /\ ByteAt(bytes, 3 * a + 1) \in 0 .. 255 /\ ByteAt(bytes, 3 * a + 2) \in 0 .. 255
         /\ ByteAt(bytes, 3 * a + 3) \in 0 .. 255
  <1>1. 3 * a + 1 \in Nat /\ 3 * a + 2 \in Nat /\ 3 * a + 3 \in Nat
    OBVIOUS
  <1> QED BY <1>1, ByteAtType

(* A sextet has six bits.                                                  *)
LEMMA SextetType ==
  ASSUME NEW bytes \in Octets, NEW k \in Nat
  PROVE  Sextet(bytes, k) \in 0 .. 63
  <1>1. PICK a \in Nat, r \in 0 .. 3 : k = 4 * a + r
    <2>1. k \div 4 \in Nat /\ k % 4 \in 0 .. 3 /\ k = 4 * (k \div 4) + (k % 4)
      OBVIOUS
    <2> QED BY <2>1
  <1>3. /\ Sextet(bytes, 4 * a) \in 0 .. 63 /\ Sextet(bytes, 4 * a + 1) \in 0 .. 63
        /\ Sextet(bytes, 4 * a + 2) \in 0 .. 63 /\ Sextet(bytes, 4 * a + 3) \in 0 .. 63
    <2> DEFINE x == ByteAt(bytes, 3 * a + 1)
               y == ByteAt(bytes, 3 * a + 2)
               z == ByteAt(bytes, 3 * a + 3)
    <2>1. x \in 0 .. 255 /\ y \in 0 .. 255 /\ z \in 0 .. 255
      BY ThreeBytes
    <2>2. /\ Sextet(bytes, 4 * a) = x \div 4
          /\ Sextet(bytes, 4 * a + 1) = (x % 4) * 16 + (y \div 16)
          /\ Sextet(bytes, 4 * a + 2) = (y % 16) * 4 + (z \div 64)
          /\ Sextet(bytes, 4 * a + 3) = z % 64
      BY SextetsOf
    <2> HIDE DEF x, y, z
    <2>3. x \div 4 \in 0 .. 63 /\ z % 64 \in 0 .. 63
      BY <2>1
    <2>4. (x % 4) * 16 + (y \div 16) \in 0 .. 63
      BY <2>1
    <2>5. (y % 16) * 4 + (z \div 64) \in 0 .. 63
      BY <2>1
    <2> QED BY <2>2, <2>3, <2>4, <2>5
  <1> QED BY <1>1, <1>3

(* The text is the characters of the sextets of the bytes, then the        *)
(* padding, and none of these characters is taken for padding.             *)
LEMMA TextOf ==
  ASSUME NEW bytes \in Octets
  PROVE  LET text == Base64Of(bytes)
             count == (8 * Len(bytes) + 5) \div 6
         IN /\ count \in Nat /\ Unpadded(text) = count
            /\ \A k \in 0 .. count - 1 : decode(text[k + 1]) = Sextet(bytes, k)
  <1>1. PICK n \in Nat : n = Len(bytes)
    BY DEF Octets
  <1>2. PICK count \in Nat, pads \in 0 .. 2 : count = (8 * n + 5) \div 6 /\ pads = (-n) % 3
    OBVIOUS
  <1> DEFINE chars == [k \in 1 .. count |-> encode(Sextet(bytes, k - 1))]
             padding == [k \in 1 .. pads |-> Pad]
             text == Base64Of(bytes)
  <1>3. text = chars \o padding
    BY <1>1, <1>2 DEF Base64Of
  <1>4. ASSUME NEW k \in 1 .. count
        PROVE  chars[k] \in Int /\ chars[k] # Pad /\ decode(chars[k]) = Sextet(bytes, k - 1)
    <2>1. Sextet(bytes, k - 1) \in 0 .. 63
      BY SextetType
    <2> QED BY <2>1, CharacterOf
  <1>5. chars \in Seq(Int) /\ Len(chars) = count /\ padding \in Seq(Int) /\ Len(padding) = pads
    <2>1. \A k \in 1 .. count : chars[k] \in Int
      BY <1>4
    <2> QED BY <2>1 DEF Pad
  <1>6. \A k \in 1 .. pads : padding[k] = Pad
    OBVIOUS
  <1> HIDE DEF chars, padding, text
  <1>7. /\ text \in Seq(Int) /\ Len(text) = count + pads
        /\ \A k \in 1 .. count : text[k] = chars[k]
        /\ \A k \in 1 .. pads : text[count + k] = Pad
    BY <1>3, <1>5, <1>6, Concatenation
  <1>8. Unpadded(text) = count
    <2> DEFINE Good(m) == (\A i \in 1 .. m : text[i] # Pad) /\ (m < Len(text) => text[m + 1] = Pad)
    <2>1. Good(count) /\ count \in 0 .. Len(text)
      <3>1. \A i \in 1 .. count : text[i] # Pad
        BY <1>4, <1>7
      <3>2. ASSUME count < Len(text) PROVE text[count + 1] = Pad
        <4>1. Len(text) = count + pads
          BY <1>7
        <4>2. 1 \in 1 .. pads
          BY <3>2, <4>1
        <4> QED BY <1>7, <4>2
      <3> QED BY <1>7, <3>1, <3>2
    <2>2. ASSUME NEW m \in 0 .. Len(text), Good(m) PROVE m = count
      <3>1. ~(m < count)
        <4> SUFFICES ASSUME m < count PROVE FALSE
          OBVIOUS
        <4>1. m + 1 \in 1 .. count /\ m < Len(text)
          BY <1>7
        <4>2. text[m + 1] = Pad
          BY <2>2, <4>1
        <4>3. text[m + 1] = chars[m + 1]
          BY <1>7, <4>1
        <4>4. chars[m + 1] # Pad
          BY <1>4, <4>1
        <4> QED BY <4>2, <4>3, <4>4
      <3>2. ~(m > count)
        <4> SUFFICES ASSUME m > count PROVE FALSE
          OBVIOUS
        <4>1. count + 1 \in 1 .. m /\ 1 \in 1 .. pads
          BY <1>7
        <4>2. text[count + 1] # Pad
          BY <2>2, <4>1
        <4>3. text[count + 1] = Pad
          BY <1>7, <4>1
        <4> QED BY <4>2, <4>3
      <3> QED BY <1>7, <3>1, <3>2
    <2>3. Unpadded(text) = CHOOSE m \in 0 .. Len(text) : Good(m)
      BY DEF Unpadded
    <2> HIDE DEF Good
    <2> QED BY <2>1, <2>2, <2>3
  <1>9. ASSUME NEW k \in 0 .. count - 1 PROVE decode(text[k + 1]) = Sextet(bytes, k)
    <2>1. k + 1 \in 1 .. count /\ (k + 1) - 1 = k
      OBVIOUS
    <2> QED BY <1>4, <1>7, <2>1
  <1> QED BY <1>1, <1>2, <1>8, <1>9 DEF text

(* The three bytes that stand for four characters (1949-1987).             *)
LEMMA OctetsOf ==
  ASSUME NEW text, NEW a \in Nat
  PROVE  /\ Octet(text, 3 * a)
              = decode(text[4 * a + 1]) * 4 + (decode(text[4 * a + 2]) \div 16)
         /\ Octet(text, 3 * a + 1)
              = ((decode(text[4 * a + 2]) % 16) * 16) + (decode(text[4 * a + 3]) \div 4)
         /\ Octet(text, 3 * a + 2)
              = ((decode(text[4 * a + 3]) % 4) * 64) + decode(text[4 * a + 4])
  <1>1. /\ (3 * a) % 3 = 0 /\ (3 * a + 1) % 3 = 1 /\ (3 * a + 2) % 3 = 2
        /\ (3 * a) \div 3 = a /\ (3 * a + 1) \div 3 = a /\ (3 * a + 2) \div 3 = a
    OBVIOUS
  <1>2. /\ 4 * a + 1 + 1 = 4 * a + 2 /\ 4 * a + 1 + 2 = 4 * a + 3 /\ 4 * a + 1 + 3 = 4 * a + 4
    OBVIOUS
  <1>3. Octet(text, 3 * a) = decode(text[4 * a + 1]) * 4 + (decode(text[4 * a + 2]) \div 16)
    BY <1>1, <1>2 DEF Octet
  <1>4. Octet(text, 3 * a + 1)
              = ((decode(text[4 * a + 2]) % 16) * 16) + (decode(text[4 * a + 3]) \div 4)
    BY <1>1, <1>2 DEF Octet
  <1>5. Octet(text, 3 * a + 2)
              = ((decode(text[4 * a + 3]) % 4) * 64) + decode(text[4 * a + 4])
    BY <1>1, <1>2 DEF Octet
  <1> QED BY <1>3, <1>4, <1>5

(* What is encoded is read back, whatever it is.                           *)
LEMMA Base64ReadsBack ==
  ASSUME NEW bytes \in Octets
  PROVE  Base64Read(Base64Of(bytes)) = bytes
  <1>1. PICK n \in Nat : n = Len(bytes)
    BY DEF Octets
  <1> DEFINE text == Base64Of(bytes)
  <1>2. PICK count \in Nat :
          /\ count = (8 * n + 5) \div 6 /\ Unpadded(text) = count
          /\ \A k \in 0 .. count - 1 : decode(text[k + 1]) = Sextet(bytes, k)
    BY <1>1, TextOf
  <1>3. (6 * count) \div 8 = n
    BY <1>2
  <1> HIDE DEF text
  <1>4. ASSUME NEW k \in 0 .. n - 1 PROVE Octet(text, k) = bytes[k + 1]
    <2>1. PICK a \in Nat, r \in 0 .. 2 : k = 3 * a + r /\ a = k \div 3 /\ r = k % 3
      <3>1. k \div 3 \in Nat /\ k % 3 \in 0 .. 2 /\ k = 3 * (k \div 3) + (k % 3)
        OBVIOUS
      <3> QED BY <3>1
    <2>10. PICK x \in 0 .. 255 : x = ByteAt(bytes, 3 * a + 1)
      BY ThreeBytes
    <2>11. PICK y \in 0 .. 255 : y = ByteAt(bytes, 3 * a + 2)
      BY ThreeBytes
    <2>12. PICK z \in 0 .. 255 : z = ByteAt(bytes, 3 * a + 3)
      BY ThreeBytes
    <2>2. /\ x = ByteAt(bytes, 3 * a + 1) /\ y = ByteAt(bytes, 3 * a + 2)
          /\ z = ByteAt(bytes, 3 * a + 3)
          /\ Sextet(bytes, 4 * a) = x \div 4
          /\ Sextet(bytes, 4 * a + 1) = (x % 4) * 16 + (y \div 16)
          /\ Sextet(bytes, 4 * a + 2) = (y % 16) * 4 + (z \div 64)
          /\ Sextet(bytes, 4 * a + 3) = z % 64
      BY <2>10, <2>11, <2>12, SextetsOf
    <2>3. /\ r = 0 => x = bytes[k + 1]
          /\ r = 1 => y = bytes[k + 1]
          /\ r = 2 => z = bytes[k + 1]
      <3>1. DOMAIN bytes = 1 .. n /\ k + 1 \in 1 .. n
        BY <1>1 DEF Octets
      <3>2. ByteAt(bytes, k + 1) = bytes[k + 1]
        BY <3>1 DEF ByteAt
      <3>3. /\ r = 0 => 3 * a + 1 = k + 1
            /\ r = 1 => 3 * a + 2 = k + 1
            /\ r = 2 => 3 * a + 3 = k + 1
        BY <2>1
      <3> QED BY <2>2, <3>2, <3>3
    <2> DEFINE value(i) == decode(text[i])
    <2>4. 4 * a + r + 1 \in 0 .. count - 1
      BY <1>2, <2>1
    <2>5. /\ value(4 * a + r + 1) = Sextet(bytes, 4 * a + r)
          /\ value(4 * a + r + 2) = Sextet(bytes, 4 * a + r + 1)
      <3>1. 4 * a + r \in 0 .. count - 1 /\ (4 * a + r + 1) + 1 = 4 * a + r + 2
        BY <2>4
      <3> QED BY <1>2, <2>4, <3>1
    <2>6. /\ (x \div 4) * 4 + (((x % 4) * 16 + (y \div 16)) \div 16) = x
          /\ ((((x % 4) * 16 + (y \div 16)) % 16) * 16) + (((y % 16) * 4 + (z \div 64)) \div 4) = y
          /\ ((((y % 16) * 4 + (z \div 64)) % 4) * 64) + (z % 64) = z
      OBVIOUS
    <2> HIDE DEF value
    <2>7. CASE r = 0
      <3>1. k = 3 * a /\ 4 * a + r + 1 = 4 * a + 1 /\ 4 * a + r + 2 = 4 * a + 2 /\ 4 * a + r = 4 * a
        BY <2>1, <2>7
      <3>2. value(4 * a + 1) = x \div 4 /\ value(4 * a + 2) = (x % 4) * 16 + (y \div 16)
        BY <2>2, <2>5, <2>7, <3>1
      <3>3. Octet(text, k) = value(4 * a + 1) * 4 + (value(4 * a + 2) \div 16)
        BY <3>1, OctetsOf DEF value
      <3> QED BY <2>3, <2>6, <2>7, <3>2, <3>3
    <2>8. CASE r = 1
      <3>1. k = 3 * a + 1 /\ 4 * a + r + 1 = 4 * a + 2 /\ 4 * a + r + 2 = 4 * a + 3 /\ 4 * a + r = 4 * a + 1
        BY <2>1, <2>8
      <3>2. /\ value(4 * a + 2) = (x % 4) * 16 + (y \div 16)
            /\ value(4 * a + 3) = (y % 16) * 4 + (z \div 64)
        BY <2>2, <2>5, <2>8, <3>1
      <3>3. Octet(text, k) = ((value(4 * a + 2) % 16) * 16) + (value(4 * a + 3) \div 4)
        BY <3>1, OctetsOf DEF value
      <3> QED BY <2>3, <2>6, <2>8, <3>2, <3>3
    <2>9. CASE r = 2
      <3>1. k = 3 * a + 2 /\ 4 * a + r + 1 = 4 * a + 3 /\ 4 * a + r + 2 = 4 * a + 4 /\ 4 * a + r = 4 * a + 2
        BY <2>1, <2>9
      <3>2. /\ value(4 * a + 3) = (y % 16) * 4 + (z \div 64)
            /\ value(4 * a + 4) = z % 64
        BY <2>2, <2>5, <2>9, <3>1
      <3>3. Octet(text, k) = ((value(4 * a + 3) % 4) * 64) + value(4 * a + 4)
        BY <3>1, OctetsOf DEF value
      <3> QED BY <2>3, <2>6, <2>9, <3>2, <3>3
    <2> QED BY <2>7, <2>8, <2>9
  <1>5. Base64Read(text) = [k \in 1 .. n |-> Octet(text, k - 1)]
    BY <1>2, <1>3 DEF Base64Read
  <1>6. ASSUME NEW k \in 1 .. n PROVE Octet(text, k - 1) = bytes[k]
    <2>1. k - 1 \in 0 .. n - 1 /\ (k - 1) + 1 = k
      OBVIOUS
    <2> QED BY <1>4, <2>1
  <1>7. bytes = [k \in 1 .. n |-> bytes[k]]
    BY <1>1 DEF Octets
  <1> QED BY <1>5, <1>6, <1>7 DEF text

-----------------------------------------------------------------------------
(* So many bytes.                                                          *)
Counted(u, n) == u \in Octets /\ Len(u) = n

(* Two such strings one after the other.                                   *)
LEMMA JoinedBytes ==
  ASSUME NEW u, NEW v, NEW m \in Nat, NEW n \in Nat, Counted(u, m), Counted(v, n)
  PROVE  Counted(u \o v, m + n)
  <1>1. u \in Seq(0 .. 255) /\ v \in Seq(0 .. 255) /\ Len(u) = m /\ Len(v) = n
    BY DEF Counted, Octets
  <1>2. u \o v \in Seq(0 .. 255) /\ Len(u \o v) = Len(u) + Len(v)
    BY <1>1, Concatenation
  <1> QED BY <1>1, <1>2 DEF Counted, Octets

(* The header is 30 bytes long, whatever the width (2026-2073).            *)
LEMMA HeaderType ==
  ASSUME NEW w \in Nat
  PROVE  Header(w) \in Octets /\ Len(Header(w)) = 30
  <1> DEFINE size0 == writeShort(w)
             zero == writeShort(0)
             a == Signature \o size0
             b == a \o size0
             c == b \o <<128, 0, 0>>
             d == c \o ColorMap
             e == d \o <<44>>
             f == e \o zero
             g == f \o zero
             h == g \o size0
             i == h \o size0
             j == i \o <<0>>
             k == j \o <<lzwMinCodeSize>>
  <1>1. Counted(size0, 2) /\ Counted(zero, 2)
    <2>1. w % 256 \in 0 .. 255 /\ (w \div 256) % 256 \in 0 .. 255
          /\ 0 % 256 = 0 /\ (0 \div 256) % 256 = 0
      OBVIOUS
    <2> QED BY <2>1 DEF writeShort, Octets, Counted
  <1>2. /\ Counted(Signature, 6) /\ Counted(ColorMap, 6) /\ Counted(<<128, 0, 0>>, 3)
        /\ Counted(<<44>>, 1) /\ Counted(<<0>>, 1) /\ Counted(<<lzwMinCodeSize>>, 1)
    BY DEF Signature, ColorMap, lzwMinCodeSize, Octets, Counted
  <1> HIDE DEF size0, zero, a, b, c, d, e, f, g, h, i, j, k
  <1>3. Counted(a, 6 + 2)
    BY <1>1, <1>2, JoinedBytes DEF a
  <1>4. Counted(b, 8 + 2)
    BY <1>1, <1>2, <1>3, JoinedBytes DEF b
  <1>5. Counted(c, 10 + 3)
    BY <1>1, <1>2, <1>4, JoinedBytes DEF c
  <1>6. Counted(d, 13 + 6)
    BY <1>1, <1>2, <1>5, JoinedBytes DEF d
  <1>7. Counted(e, 19 + 1)
    BY <1>1, <1>2, <1>6, JoinedBytes DEF e
  <1>8. Counted(f, 20 + 2)
    BY <1>1, <1>2, <1>7, JoinedBytes DEF f
  <1>9. Counted(g, 22 + 2)
    BY <1>1, <1>2, <1>8, JoinedBytes DEF g
  <1>10. Counted(h, 24 + 2)
    BY <1>1, <1>2, <1>9, JoinedBytes DEF h
  <1>11. Counted(i, 26 + 2)
    BY <1>1, <1>2, <1>10, JoinedBytes DEF i
  <1>12. Counted(j, 28 + 1)
    BY <1>1, <1>2, <1>11, JoinedBytes DEF j
  <1>13. Counted(k, 29 + 1)
    BY <1>1, <1>2, <1>12, JoinedBytes DEF k
  <1>14. Header(w) = k
    BY DEF Header, a, b, c, d, e, f, g, h, i, j, k, size0, zero
  <1> QED BY <1>13, <1>14 DEF Counted

(* writeBytes copies a range that is there (1841-1847).                    *)
LEMMA BlockOf ==
  ASSUME NEW bytes \in Octets, NEW off \in Nat, NEW len \in 1 .. 255, off + len <= Len(bytes)
  PROVE  LET block == writeBytes(bytes, off, len)
         IN /\ block \in Octets /\ Len(block) = len
            /\ \A k \in 1 .. len : block[k] = bytes[off + k]
  <1> DEFINE block == writeBytes(bytes, off, len)
  <1>1. ASSUME NEW k \in 1 .. len PROVE off + k \in DOMAIN bytes /\ bytes[off + k] \in 0 .. 255
    <2>1. bytes \in Seq(0 .. 255) /\ DOMAIN bytes = 1 .. Len(bytes) /\ Len(bytes) \in Nat
      BY DEF Octets
    <2>2. off + k \in 1 .. Len(bytes)
      BY <2>1
    <2>3. \A i \in 1 .. Len(bytes) : bytes[i] \in 0 .. 255
      BY <2>1, ElementOfSeq
    <2> QED BY <2>1, <2>2, <2>3
  <1>2. len # 0
    OBVIOUS
  <1>3. block = [k \in 1 .. len |-> bytes[off + k]]
    <2>1. block = [k \in 1 .. len |-> IF off + k \in DOMAIN bytes THEN bytes[off + k] ELSE 0]
      BY <1>2 DEF writeBytes
    <2> QED BY <1>1, <2>1
  <1> HIDE DEF block
  <1>4. block \in Octets /\ Len(block) = len
    <2>1. \A k \in 1 .. len : bytes[off + k] \in 0 .. 255
      BY <1>1
    <2> QED BY <1>3, <2>1 DEF Octets
  <1> QED BY <1>3, <1>4 DEF block

(* A part of a file that lies within it.                                   *)
LEMMA SubSeqOfOctets ==
  ASSUME NEW file \in Octets, NEW m \in Nat, NEW l \in Nat, m >= 1, m <= l + 1, l <= Len(file)
  PROVE  /\ SubSeq(file, m, l) \in Octets /\ Len(SubSeq(file, m, l)) = l - m + 1
         /\ \A k \in 1 .. l - m + 1 : SubSeq(file, m, l)[k] = file[m + k - 1]
  <1>1. file \in Seq(0 .. 255)
    BY DEF Octets
  <1>2. \A i \in m .. l : file[i] \in 0 .. 255
    <2>1. \A i \in m .. l : i \in 1 .. Len(file)
      BY <1>1
    <2> QED BY <1>1, <2>1, ElementOfSeq
  <1> QED BY <1>1, <1>2, SubSeqProperties DEF Octets

(* A part stands in a file from m to l.                                    *)
Stands(file, part, m, l) ==
  /\ file \in Octets /\ part \in Octets /\ m \in Nat /\ l \in Nat
  /\ m >= 1 /\ m <= l + 1 /\ l <= Len(file) /\ Len(part) = l - m + 1
  /\ \A k \in 1 .. l - m + 1 : file[m + k - 1] = part[k]

(* It is what is cut out there.                                            *)
LEMMA PartOf ==
  ASSUME NEW file, NEW part, NEW m, NEW l, Stands(file, part, m, l)
  PROVE  SubSeq(file, m, l) = part
  <1>0. /\ file \in Octets /\ part \in Octets /\ m \in Nat /\ l \in Nat
        /\ m >= 1 /\ m <= l + 1 /\ l <= Len(file) /\ Len(part) = l - m + 1
        /\ \A k \in 1 .. l - m + 1 : file[m + k - 1] = part[k]
    BY DEF Stands
  <1>1. /\ SubSeq(file, m, l) \in Octets /\ Len(SubSeq(file, m, l)) = l - m + 1
        /\ \A k \in 1 .. l - m + 1 : SubSeq(file, m, l)[k] = file[m + k - 1]
    BY <1>0, SubSeqOfOctets
  <1>2. \A k \in 1 .. l - m + 1 : SubSeq(file, m, l)[k] = part[k]
    BY <1>0, <1>1
  <1> QED BY <1>0, <1>1, <1>2, SeqEqual DEF Octets

(* After g a block of n bytes, its length at p, and then tail.             *)
Framed(file, g, p, n, block, tail) ==
  /\ g \in Octets /\ n \in 1 .. 255 /\ block \in Octets /\ Len(block) = n /\ tail \in Octets
  /\ p \in Nat /\ p = Len(g) + 1
  /\ file = ((g \o <<n>>) \o block) \o tail

(* A viewer at p finds the block and what comes after it.                  *)
Found(file, p, n, block, tail) ==
  /\ file \in Octets /\ Len(file) = p + n + Len(tail) /\ file[p] = n
  /\ SubSeq(file, p + 1, p + n) = block
  /\ SubSeq(file, p + n + 1, Len(file)) = tail

(* A block that is written with its length before it is found again.       *)
LEMMA BlockIsFound ==
  ASSUME NEW g \in Octets, NEW n \in 1 .. 255, NEW block \in Octets, NEW tail \in Octets,
         NEW file, NEW p \in Nat,
         Framed(file, g, p, n, block, tail)
  PROVE  Found(file, p, n, block, tail)
  <1> DEFINE one == <<n>>
             u == g \o one
             v == u \o block
  <1>0. /\ g \in Octets /\ n \in 1 .. 255 /\ block \in Octets /\ Len(block) = n
        /\ tail \in Octets /\ p \in Nat /\ p = Len(g) + 1
        /\ file = ((g \o <<n>>) \o block) \o tail
    BY DEF Framed
  <1>1. one \in Octets /\ Len(one) = 1 /\ one[1] = n
    BY <1>0 DEF Octets
  <1> HIDE DEF one
  <1>2. Len(g) \in Nat /\ Len(tail) \in Nat
    BY <1>0 DEF Octets
  <1>3. u \in Octets /\ Len(u) = p /\ u[p] = n
    <2>1. /\ u \in Octets /\ Len(u) = Len(g) + Len(one)
          /\ \A k \in 1 .. Len(one) : u[Len(g) + k] = one[k]
      <3>1. g \in Seq(0 .. 255) /\ one \in Seq(0 .. 255)
        BY <1>0, <1>1 DEF Octets
      <3> QED BY <3>1, Concatenation DEF Octets
    <2> QED BY <1>0, <1>1, <2>1
  <1> HIDE DEF u
  <1>4. /\ v \in Octets /\ Len(v) = p + n
        /\ \A k \in 1 .. p : v[k] = u[k]
        /\ \A k \in 1 .. n : v[p + k] = block[k]
    <2>1. u \in Seq(0 .. 255) /\ block \in Seq(0 .. 255)
      BY <1>0, <1>3 DEF Octets
    <2>2. /\ u \o block \in Seq(0 .. 255) /\ Len(u \o block) = Len(u) + Len(block)
          /\ \A k \in 1 .. Len(u) : (u \o block)[k] = u[k]
          /\ \A k \in 1 .. Len(block) : (u \o block)[Len(u) + k] = block[k]
      BY <2>1, Concatenation
    <2>3. Len(u) = p /\ Len(block) = n
      BY <1>0, <1>3
    <2> QED BY <2>2, <2>3 DEF Octets
  <1> HIDE DEF v
  <1>5. /\ file \in Octets /\ Len(file) = p + n + Len(tail)
        /\ \A k \in 1 .. p + n : file[k] = v[k]
        /\ \A k \in 1 .. Len(tail) : file[p + n + k] = tail[k]
    <2>1. v \in Seq(0 .. 255) /\ tail \in Seq(0 .. 255)
      BY <1>0, <1>4 DEF Octets
    <2>2. file = v \o tail
      BY <1>0 DEF v, u, one
    <2>3. /\ v \o tail \in Seq(0 .. 255) /\ Len(v \o tail) = Len(v) + Len(tail)
          /\ \A k \in 1 .. Len(v) : (v \o tail)[k] = v[k]
          /\ \A k \in 1 .. Len(tail) : (v \o tail)[Len(v) + k] = tail[k]
      BY <2>1, Concatenation
    <2>4. Len(v) = p + n
      BY <1>4
    <2> QED BY <2>2, <2>3, <2>4 DEF Octets
  <1>6. p >= 1
    BY <1>0, <1>2
  <1>10. PICK t \in Nat : t = Len(tail) /\ Len(file) = p + n + t /\ Len(block) = n
    BY <1>0, <1>2, <1>5
  <1>7. SubSeq(file, p + 1, p + n) = block
    <2>1. \A k \in 1 .. Len(block) : file[p + k] = block[k]
      BY <1>0, <1>4, <1>5, <1>6
    <2>2. PICK m \in Nat, l \in Nat :
            m = p + 1 /\ l = p + n
      BY <1>0, <1>2, <1>5
    <2>3. /\ m >= 1 /\ m <= l + 1 /\ l <= Len(file) /\ Len(block) = l - m + 1
          /\ \A k \in 1 .. l - m + 1 : file[m + k - 1] = block[k]
      <3>1. \A k \in 1 .. l - m + 1 : m + k - 1 = p + k /\ k \in 1 .. Len(block)
        BY <1>0, <2>2
      <3>2. m >= 1 /\ m <= l + 1 /\ l <= Len(file) /\ Len(block) = l - m + 1
        BY <1>10, <2>2
      <3> QED BY <2>1, <3>1, <3>2
    <2>4. Stands(file, block, m, l)
      BY <1>0, <1>5, <2>3 DEF Stands
    <2>5. SubSeq(file, m, l) = block
      BY <2>4, PartOf
    <2> QED BY <2>2, <2>5
  <1>8. SubSeq(file, p + n + 1, Len(file)) = tail
    <2>1. PICK m \in Nat, l \in Nat : m = p + n + 1 /\ l = Len(file)
      BY <1>0, <1>2, <1>5
    <2>2. /\ m >= 1 /\ m <= l + 1 /\ l <= Len(file) /\ Len(tail) = l - m + 1
          /\ \A k \in 1 .. l - m + 1 : file[m + k - 1] = tail[k]
      <3>1. \A k \in 1 .. l - m + 1 : m + k - 1 = p + n + k /\ k \in 1 .. Len(tail)
        BY <1>0, <1>2, <1>5, <2>1
      <3>2. m >= 1 /\ m <= l + 1 /\ l <= Len(file) /\ Len(tail) = l - m + 1
        BY <1>10, <2>1
      <3>3. \A k \in 1 .. Len(tail) : file[p + n + k] = tail[k]
        BY <1>5
      <3> QED BY <3>1, <3>2, <3>3
    <2>3. Stands(file, tail, m, l)
      BY <1>0, <1>5, <2>2 DEF Stands
    <2>4. SubSeq(file, m, l) = tail
      BY <2>3, PartOf
    <2> QED BY <2>1, <2>4
  <1>9. file[p] = n
    BY <1>0, <1>3, <1>4, <1>5, <1>6
  <1> QED BY <1>5, <1>7, <1>8, <1>9 DEF Found

-----------------------------------------------------------------------------
(* What has been written, phase by phase.                                  *)
Waiting == fed = <<>> /\ offset = 0 /\ at = 31 /\ seen = <<>>

(* The codes of the first pixels are in the stream.                        *)
Drawing ==
  /\ gif = Header(_width) /\ offset = 0 /\ at = 31 /\ seen = <<>>
  /\ fed = <<>> \/ s # <<>>
  /\ Len(fed) <= Len(_data)
  /\ \A i \in 1 .. Len(fed) : fed[i] = _data[i]

(* The codes of all pixels and the end code are.                           *)
Drawn == fed = _data /\ s = <<>> /\ fed # <<>>

(* The viewer is at the end of the file and has the bytes written so far.  *)
InBlocks ==
  /\ at = Len(gif) + 1
  /\ offset < Len(out.bytes) /\ Len(seen) = offset
  /\ \A i \in 1 .. offset : seen[i] = out.bytes[i]

(* It has all of them and is at the terminator.                            *)
Written == seen = out.bytes /\ SubSeq(gif, at, Len(gif)) = Terminator

(* Phase by phase, together: the inductive invariant.                      *)
ImageInv ==
  /\ phase \in {"none", "raster", "blocks", "encode", "shown"}
  /\ gif \in Octets /\ seen \in Octets /\ offset \in Nat
  /\ phase = "none" => Waiting
  /\ phase # "none" => _width \in Nat /\ _data \in Seq(Pixels)
  /\ phase = "raster" => Drawing
  /\ phase \in {"blocks", "encode", "shown"} => Drawn
  /\ phase = "blocks" => InBlocks
  /\ phase \in {"encode", "shown"} => Written
  /\ phase = "shown" => base64 = Base64Of(gif)

(* Nothing is written at the start.                                        *)
LEMMA ImageInvInit == ImageInit => RasterInv /\ StreamInv /\ ImageInv
  <1> SUFFICES ASSUME ImageInit PROVE ImageInv
    BY RasterInvInit, StreamInvInit DEF ImageInit
  <1>1. gif \in Octets /\ seen \in Octets
    BY DEF ImageInit, Octets
  <1> QED BY <1>1 DEF ImageInit, RasterInit, ImageInv, Waiting

(* The raster is left alone before and after it is made.                   *)
LEMMA SetPixelsStep ==
  ASSUME ImageInv, NEW w \in Nat, NEW data \in Seq(Pixels), SetPixels(w, data)
  PROVE  ImageInv'
  <1>1. /\ phase = "none" /\ phase' = "raster" /\ _width' = w /\ _data' = data
        /\ gif' = Header(w) /\ UNCHANGED <<offset, base64, at, seen, s, out, bits, fed>>
    BY DEF SetPixels, viewer, rasterVars
  <1>2. Waiting /\ seen \in Octets /\ offset \in Nat
    BY <1>1 DEF ImageInv
  <1>3. gif' \in Octets
    BY <1>1, HeaderType
  <1>4. Drawing'
    BY <1>1, <1>2 DEF Waiting, Drawing
  <1> QED BY <1>1, <1>2, <1>3, <1>4 DEF ImageInv

(* A pixel more is in the stream (2161-2176).                              *)
LEMMA RasterStep ==
  ASSUME RasterInv, ImageInv, Raster
  PROVE  RasterNext /\ ImageInv'
  <1>1. /\ phase = "raster" /\ Len(fed) < Len(_data)
        /\ Feed(_data[Len(fed) + 1])
        /\ UNCHANGED <<phase, _width, _data, gif, offset, base64, at, seen>>
    BY DEF Raster, imageVars, viewer
  <1>2. /\ Drawing /\ _data \in Seq(Pixels) /\ _width \in Nat
        /\ gif \in Octets /\ seen \in Octets /\ offset \in Nat
    BY <1>1 DEF ImageInv
  <1>3. fed \in Seq(Chars) /\ Len(fed) \in Nat
    BY DEF RasterInv, TypesOK, Strings
  <1>4. PICK c \in Pixels : c = _data[Len(fed) + 1] /\ Feed(c)
    <2>1. Len(fed) + 1 \in 1 .. Len(_data)
      BY <1>1, <1>2, <1>3
    <2>2. _data[Len(fed) + 1] \in Pixels
      BY <1>2, <2>1, ElementOfSeq
    <2> QED BY <1>1, <2>2
  <1>5. fed' = Append(fed, c) /\ s' # <<>>
    <2>1. fed' = Append(fed, c)
      BY <1>4 DEF Feed
    <2>2. s \in Strings
      BY DEF RasterInv, TypesOK
    <2>3. s' # <<>>
      BY <1>4, <2>2, AppendPixel DEF Feed, Begins, Extends, Emits
    <2> QED BY <2>1, <2>3
  <1>6. c \in Chars
    BY DEF Pixels, Chars, endCode
  <1>7. Drawing'
    <2>1. /\ Len(fed') = Len(fed) + 1 /\ fed'[Len(fed) + 1] = c
          /\ \A i \in 1 .. Len(fed) : fed'[i] = fed[i]
      BY <1>3, <1>5, <1>6, AppendProperties
    <2>2. ASSUME NEW i \in 1 .. Len(fed') PROVE fed'[i] = _data[i]
      <3>1. CASE i = Len(fed) + 1
        BY <1>4, <2>1, <3>1
      <3>2. CASE i # Len(fed) + 1
        <4>1. i \in 1 .. Len(fed)
          BY <1>3, <2>1, <3>2
        <4> QED BY <1>2, <2>1, <4>1 DEF Drawing
      <3> QED BY <3>1, <3>2
    <2>3. Len(fed') <= Len(_data)
      BY <1>1, <1>2, <1>3, <2>1
    <2> QED BY <1>1, <1>2, <1>5, <2>2, <2>3 DEF Drawing
  <1>8. ImageInv'
    BY <1>1, <1>2, <1>7 DEF ImageInv
  <1> QED BY <1>4, <1>8 DEF RasterNext

(* The end code is never left out.                                         *)
LEMMA EndCodeWritten ==
  ASSUME RasterInv, StreamInv, LastCodes
  PROVE  Len(bits') \in Nat /\ Len(bits') >= 1
  <1> DEFINE b == bits \o LowBitsFirst(table[s], bitLength)
             last == LowBitsFirst(endCode, bitLength)
  <1>1. bitLength \in Nat /\ bitLength >= 3 /\ b \in Seq({0, 1})
    BY PendingHolds DEF LastCodes, StreamInv, Holds
  <1>2. last \in Seq({0, 1}) /\ Len(last) = bitLength
    <2>1. \A i \in 1 .. bitLength : BitOf(endCode, i - 1) \in {0, 1}
      BY <1>1, BitType DEF endCode
    <2> QED BY <1>1, <2>1 DEF LowBitsFirst
  <1> HIDE DEF b, last
  <1>3. bits' = b \o last
    BY DEF LastCodes, b, last
  <1> QED BY <1>1, <1>2, <1>3, Concatenation

(* The last codes are written for the last pixel, never before one         *)
(* (2179-2187).                                                            *)
LEMMA EndRasterStep ==
  ASSUME RasterInv, StreamInv, ImageInv, EndRaster
  PROVE  RasterNext /\ ImageInv'
  <1>1. /\ phase = "raster" /\ Len(fed) = Len(_data) /\ LastCodes /\ phase' = "blocks"
        /\ UNCHANGED <<_width, _data, gif, offset, base64, at, seen>>
    BY DEF EndRaster, viewer
  <1>2. /\ Drawing /\ _data \in Seq(Pixels) /\ _width \in Nat
        /\ gif \in Octets /\ seen \in Octets /\ offset \in Nat
    BY <1>1 DEF ImageInv
  <1>3. RasterNext
    BY <1>1 DEF RasterNext
  <1>4. RasterInv' /\ StreamInv'
    BY <1>3, RasterInvStep, StreamInvStep
  <1>5. s # <<>> /\ s' = <<>> /\ fed' = fed /\ fed # <<>>
    <2>1. s # <<>> /\ s' = <<>> /\ fed' = fed
      BY <1>1 DEF LastCodes
    <2>2. fed = read \o s /\ read \in Seq(Chars) /\ s \in Seq(Chars)
      BY DEF RasterInv, TypesOK, Strings
    <2> QED BY <2>1, <2>2
  <1>6. fed = _data
    <2>1. fed \in Seq(Chars) /\ Pixels \subseteq Chars
      BY DEF RasterInv, TypesOK, Strings, Pixels, Chars, endCode
    <2>2. _data \in Seq(Chars)
      BY <1>2, <2>1, SeqMonotonic
    <2>3. \A i \in 1 .. Len(fed) : fed[i] = _data[i]
      BY <1>2 DEF Drawing
    <2> QED BY <1>1, <2>1, <2>2, <2>3, SeqEqual
  <1>7. Drawn'
    BY <1>1, <1>5, <1>6 DEF Drawn
  <1>8. InBlocks'
    <2>1. Flushed(out'.bytes, bits')
      BY <1>4, <1>5 DEF StreamInv
    <2>2. Len(out'.bytes) \in Nat /\ 0 < Len(out'.bytes)
      <3>1. Len(bits') \in Nat /\ Len(bits') >= 1
        BY <1>1, EndCodeWritten
      <3>2. Len(out'.bytes) = (Len(bits') + 7) \div 8
        BY <2>1 DEF Flushed
      <3> QED BY <3>1, <3>2
    <2>3. at' = Len(gif') + 1
      <3>1. Len(Header(_width)) = 30
        BY <1>2, HeaderType
      <3> QED BY <1>1, <1>2, <3>1 DEF Drawing
    <2>4. offset' = 0 /\ seen' = <<>>
      BY <1>1, <1>2 DEF Drawing
    <2> QED BY <2>2, <2>3, <2>4 DEF InBlocks
  <1>9. ImageInv'
    BY <1>1, <1>2, <1>7, <1>8 DEF ImageInv
  <1> QED BY <1>3, <1>9

(* A full block is found by the viewer where it is (2076-2081).            *)
LEMMA WriteBlockStep ==
  ASSUME RasterInv, StreamInv, ImageInv, WriteBlock
  PROVE  ImageInv'
  <1>1. /\ phase = "blocks" /\ left > BlockLimit
        /\ gif' = gif \o <<BlockLimit>> \o writeBytes(out.bytes, offset, BlockLimit)
        /\ offset' = offset + BlockLimit
        /\ Views
        /\ UNCHANGED <<phase, _width, _data, base64, rasterVars>>
    BY DEF WriteBlock
  <1>2. /\ InBlocks /\ Drawn /\ _data \in Seq(Pixels) /\ _width \in Nat
        /\ gif \in Octets /\ seen \in Octets /\ offset \in Nat
    BY <1>1 DEF ImageInv
  <1>3. out.bytes \in Octets /\ Len(out.bytes) \in Nat
    <2>1. Flushed(out.bytes, bits)
      BY <1>2 DEF Drawn, StreamInv
    <2> QED BY <2>1 DEF Flushed, Octets
  <1>14. offset + BlockLimit < Len(out.bytes) /\ offset + BlockLimit <= Len(out.bytes)
    <2>1. Len(out.bytes) - offset > BlockLimit
      BY DEF WriteBlock, left
    <2>2. PICK full \in Nat, o \in Nat, limit \in 1 .. 255 :
            full = Len(out.bytes) /\ o = offset /\ limit = BlockLimit
      BY <1>2, <1>3, BlockLimitAssumption
    <2>3. full - o > limit
      BY <2>1, <2>2
    <2>4. o + limit < full /\ o + limit <= full
      BY <2>3
    <2> QED BY <2>2, <2>4
  <1> DEFINE block == writeBytes(out.bytes, offset, BlockLimit)
  <1>4. /\ block \in Octets /\ Len(block) = BlockLimit
        /\ \A k \in 1 .. BlockLimit : block[k] = out.bytes[offset + k]
    <2>1. offset + BlockLimit <= Len(out.bytes)
      BY <1>14
    <2> QED BY ZenonT(40), <1>2, <1>3, <2>1, BlockLimitAssumption, BlockOf
  <1> HIDE DEF block
  <1>5. gif' = gif \o <<BlockLimit>> \o block \o <<>>
    <2>1. gif \o <<BlockLimit>> \o block \in Octets
      <3>1. <<BlockLimit>> \in Octets
        BY BlockLimitAssumption DEF Octets
      <3> QED BY <1>2, <1>4, <3>1, Concatenation DEF Octets
    <2> QED BY <1>1, <2>1, ConcatEmptySeq DEF Octets, block
  <1>6. /\ gif' \in Octets /\ Len(gif') = Len(gif) + 1 + BlockLimit /\ gif'[Len(gif) + 1] = BlockLimit
        /\ SubSeq(gif', Len(gif) + 1 + 1, Len(gif) + 1 + BlockLimit) = block
    <2>1. <<>> \in Octets /\ Len(<<>>) = 0
      BY DEF Octets
    <2>2. PICK p \in Nat, n \in 1 .. 255 : p = Len(gif) + 1 /\ n = BlockLimit
      BY <1>2, BlockLimitAssumption DEF Octets
    <2>3. gif' = ((gif \o <<n>>) \o block) \o <<>> /\ Len(block) = n
      BY <1>4, <1>5, <2>2
    <2>4. Framed(gif', gif, p, n, block, <<>>)
      BY <1>2, <1>4, <2>1, <2>2, <2>3 DEF Framed
    <2>5. Found(gif', p, n, block, <<>>)
      BY <1>2, <1>4, <2>1, <2>4, BlockIsFound
    <2> QED BY <2>1, <2>2, <2>5, BlockLimitAssumption DEF Found
  <1>7. at = Len(gif) + 1 /\ Len(gif) \in Nat /\ Len(seen) = offset
    BY <1>2 DEF InBlocks, Octets
  <1>8. seen' = seen \o block /\ at' = Len(gif') + 1
    <2>1. gif'[at] # 0
      BY <1>6, <1>7, BlockLimitAssumption
    <2>2. seen' = seen \o SubSeq(gif', at + 1, at + BlockLimit) /\ at' = at + BlockLimit + 1
      BY <1>1, <1>6, <1>7, <2>1 DEF Views
    <2> QED BY <1>6, <1>7, <2>2, BlockLimitAssumption
  <1>9. /\ seen' \in Octets /\ Len(seen') = offset + BlockLimit
        /\ \A k \in 1 .. offset : seen'[k] = seen[k]
        /\ \A k \in 1 .. BlockLimit : seen'[offset + k] = block[k]
    <2>1. seen \in Seq(0 .. 255) /\ block \in Seq(0 .. 255)
      BY <1>2, <1>4 DEF Octets
    <2>2. /\ seen \o block \in Seq(0 .. 255) /\ Len(seen \o block) = Len(seen) + Len(block)
          /\ \A k \in 1 .. Len(seen) : (seen \o block)[k] = seen[k]
          /\ \A k \in 1 .. Len(block) : (seen \o block)[Len(seen) + k] = block[k]
      BY <2>1, Concatenation
    <2> QED BY <1>4, <1>7, <1>8, <2>2 DEF Octets
  <1>10. InBlocks'
    <2>1. UNCHANGED out
      BY <1>1 DEF rasterVars
    <2>2. ASSUME NEW k \in 1 .. offset' PROVE seen'[k] = out'.bytes[k]
      <3>1. CASE k <= offset
        BY <1>2, <1>9, <2>1, <3>1 DEF InBlocks
      <3>2. CASE k > offset
        <4>1. PICK j \in 1 .. BlockLimit : k = offset + j
          <5>1. k - offset \in 1 .. BlockLimit /\ k = offset + (k - offset)
            BY <1>1, <1>2, <3>2, BlockLimitAssumption
          <5> QED BY <5>1
        <4> QED BY <1>4, <1>9, <2>1, <4>1
      <3> QED BY <1>2, <3>1, <3>2
    <2>3. offset' < Len(out'.bytes)
      BY <1>1, <1>14, <2>1
    <2> QED BY <1>1, <1>8, <1>9, <2>2, <2>3 DEF InBlocks
  <1>11. Drawn'
    BY <1>1, <1>2 DEF Drawn, rasterVars
  <1>12. offset' \in Nat
    BY <1>1, <1>2, BlockLimitAssumption
  <1> QED BY <1>1, <1>2, <1>6, <1>9, <1>10, <1>11, <1>12 DEF ImageInv

(* So is the last one, which has at least a byte, and the terminator is    *)
(* not taken for a block (2083-2090).                                      *)
LEMMA WriteLastBlockStep ==
  ASSUME RasterInv, StreamInv, ImageInv, WriteLastBlock
  PROVE  ImageInv'
  <1>1. /\ phase = "blocks" /\ left <= BlockLimit
        /\ gif' = gif \o <<left>> \o writeBytes(out.bytes, offset, left) \o Terminator
        /\ phase' = "encode"
        /\ Views
        /\ UNCHANGED <<_width, _data, offset, base64, rasterVars>>
    BY DEF WriteLastBlock
  <1>2. /\ InBlocks /\ Drawn /\ _data \in Seq(Pixels) /\ _width \in Nat
        /\ gif \in Octets /\ seen \in Octets /\ offset \in Nat
    BY <1>1 DEF ImageInv
  <1>3. out.bytes \in Octets /\ Len(out.bytes) \in Nat
    <2>1. Flushed(out.bytes, bits)
      BY <1>2 DEF Drawn, StreamInv
    <2> QED BY <2>1 DEF Flushed, Octets
  <1>4. PICK n \in 1 .. 255 : n = left /\ offset + n = Len(out.bytes)
    <2>1. left = Len(out.bytes) - offset
      BY DEF left
    <2>2. offset < Len(out.bytes) /\ left <= BlockLimit
      BY <1>1, <1>2 DEF InBlocks
    <2>3. left \in 1 .. 255 /\ offset + left = Len(out.bytes)
      <3>1. PICK limit \in 1 .. 255, size0 \in Nat : limit = BlockLimit /\ size0 = Len(out.bytes)
        BY <1>3, BlockLimitAssumption
      <3>2. left = size0 - offset /\ offset < size0 /\ left <= limit
        BY <2>1, <2>2, <3>1
      <3>3. size0 - offset \in 1 .. 255 /\ offset + (size0 - offset) = size0
        <4>1. PICK o \in Nat : o = offset
          BY <1>2
        <4>2. size0 - o \in 1 .. 255 /\ o + (size0 - o) = size0
          BY <3>2, <4>1
        <4> QED BY <4>1, <4>2
      <3> QED BY <3>1, <3>2, <3>3
    <2> QED BY <2>3
  <1> DEFINE block == writeBytes(out.bytes, offset, n)
  <1>5. /\ block \in Octets /\ Len(block) = n
        /\ \A k \in 1 .. n : block[k] = out.bytes[offset + k]
    <2>1. offset + n <= Len(out.bytes)
      BY <1>3, <1>4
    <2> QED BY ZenonT(40), <1>2, <1>3, <2>1, BlockOf
  <1>6. gif' = gif \o <<n>> \o block \o Terminator
    BY <1>1, <1>4
  <1> HIDE DEF block
  <1>7. /\ gif' \in Octets /\ gif'[Len(gif) + 1] = n
        /\ SubSeq(gif', Len(gif) + 1 + 1, Len(gif) + 1 + n) = block
        /\ SubSeq(gif', Len(gif) + 1 + n + 1, Len(gif')) = Terminator
    <2>1. Terminator \in Octets
      BY DEF Octets, Terminator
    <2>2. PICK p \in Nat : p = Len(gif) + 1
      BY <1>2 DEF Octets
    <2>3. gif' = ((gif \o <<n>>) \o block) \o Terminator
      BY <1>6
    <2>4. Framed(gif', gif, p, n, block, Terminator)
      BY <1>2, <1>5, <2>1, <2>2, <2>3 DEF Framed
    <2>5. Found(gif', p, n, block, Terminator)
      BY <1>2, <1>5, <2>1, <2>4, BlockIsFound
    <2> QED BY <2>2, <2>5 DEF Found
  <1>8. at = Len(gif) + 1 /\ Len(gif) \in Nat /\ Len(seen) = offset
    BY <1>2 DEF InBlocks, Octets
  <1>9. seen' = seen \o block /\ at' = Len(gif) + 1 + n + 1
    <2>1. gif'[at] = n /\ n # 0
      BY <1>7, <1>8
    <2>2. seen' = seen \o SubSeq(gif', at + 1, at + n) /\ at' = at + n + 1
      BY <1>1, <2>1 DEF Views
    <2> QED BY <1>7, <1>8, <2>2
  <1>10. /\ seen' \in Octets /\ Len(seen') = offset + n
         /\ \A k \in 1 .. offset : seen'[k] = seen[k]
         /\ \A k \in 1 .. n : seen'[offset + k] = block[k]
    <2>1. seen \in Seq(0 .. 255) /\ block \in Seq(0 .. 255)
      BY <1>2, <1>5 DEF Octets
    <2>2. /\ seen \o block \in Seq(0 .. 255) /\ Len(seen \o block) = Len(seen) + Len(block)
          /\ \A k \in 1 .. Len(seen) : (seen \o block)[k] = seen[k]
          /\ \A k \in 1 .. Len(block) : (seen \o block)[Len(seen) + k] = block[k]
      BY <2>1, Concatenation
    <2> QED BY <1>5, <1>8, <1>9, <2>2 DEF Octets
  <1>11. Written'
    <2>1. UNCHANGED out
      BY <1>1 DEF rasterVars
    <2>2. ASSUME NEW k \in 1 .. Len(seen') PROVE seen'[k] = out.bytes[k]
      <3>1. CASE k <= offset
        BY <1>2, <1>10, <3>1 DEF InBlocks
      <3>2. CASE k > offset
        <4>1. PICK j \in 1 .. n : k = offset + j
          <5>1. k - offset \in 1 .. n /\ k = offset + (k - offset)
            BY <1>2, <1>10, <3>2
          <5> QED BY <5>1
        <4> QED BY <1>5, <1>10, <4>1
      <3> QED BY <1>2, <3>1, <3>2
    <2>3. seen' = out.bytes
      <3>1. seen' \in Seq(0 .. 255) /\ out.bytes \in Seq(0 .. 255) /\ Len(seen') = Len(out.bytes)
        BY <1>3, <1>4, <1>10 DEF Octets
      <3> QED BY <2>2, <3>1, SeqEqual
    <2> QED BY <1>7, <1>9, <2>1, <2>3 DEF Written
  <1>12. Drawn'
    BY <1>1, <1>2 DEF Drawn, rasterVars
  <1> QED BY <1>1, <1>2, <1>7, <1>10, <1>11, <1>12 DEF ImageInv

(* The text of the URL is that of the file (2230-2240).                    *)
LEMMA WriteBase64Step ==
  ASSUME ImageInv, WriteBase64
  PROVE  ImageInv'
  <1>1. /\ phase = "encode" /\ base64' = Base64Of(gif) /\ phase' = "shown"
        /\ UNCHANGED <<_width, _data, gif, offset, at, seen, out, s, fed>>
    BY DEF WriteBase64, viewer, rasterVars
  <1>2. /\ Written /\ Drawn /\ _data \in Seq(Pixels) /\ _width \in Nat
        /\ gif \in Octets /\ seen \in Octets /\ offset \in Nat
    BY <1>1 DEF ImageInv
  <1>3. Written' /\ Drawn'
    BY <1>1, <1>2 DEF Written, Drawn
  <1> QED BY <1>1, <1>2, <1>3 DEF ImageInv

(* Every step of the image keeps the invariant.                            *)
LEMMA ImageInvStep ==
  ASSUME RasterInv, StreamInv, ImageInv, [ImageNext]_<<rasterVars, imageVars>>
  PROVE  RasterInv' /\ StreamInv' /\ ImageInv'
  <1>1. ASSUME [RasterNext]_rasterVars PROVE RasterInv' /\ StreamInv'
    BY <1>1, RasterInvStep, StreamInvStep
  <1>2. ASSUME NEW w \in Nat, NEW data \in Seq(Pixels), SetPixels(w, data)
        PROVE  RasterInv' /\ StreamInv' /\ ImageInv'
    <2>1. UNCHANGED rasterVars
      BY <1>2 DEF SetPixels
    <2> QED BY <1>1, <1>2, <2>1, SetPixelsStep
  <1>3. CASE Raster
    BY <1>1, <1>3, RasterStep
  <1>4. CASE EndRaster
    BY <1>1, <1>4, EndRasterStep
  <1>5. CASE WriteBlock
    <2>1. UNCHANGED rasterVars
      BY <1>5 DEF WriteBlock
    <2> QED BY <1>1, <1>5, <2>1, WriteBlockStep
  <1>6. CASE WriteLastBlock
    <2>1. UNCHANGED rasterVars
      BY <1>6 DEF WriteLastBlock
    <2> QED BY <1>1, <1>6, <2>1, WriteLastBlockStep
  <1>7. CASE WriteBase64
    <2>1. UNCHANGED rasterVars
      BY <1>7 DEF WriteBase64
    <2> QED BY <1>1, <1>7, <2>1, WriteBase64Step
  <1>8. CASE UNCHANGED <<rasterVars, imageVars>>
    <2>1. UNCHANGED rasterVars /\ UNCHANGED <<phase, _width, _data, gif, offset, base64, at, seen>>
      BY <1>8 DEF imageVars, viewer
    <2>2. UNCHANGED <<fed, s, out>>
      BY <2>1 DEF rasterVars
    <2>3. ImageInv'
      BY <2>1, <2>2 DEF ImageInv, Waiting, Drawing, Drawn, InBlocks, Written
    <2> QED BY <1>1, <2>1, <2>3
  <1> QED BY <1>2, <1>3, <1>4, <1>5, <1>6, <1>7, <1>8 DEF ImageNext, WriteNext

(* The bits of the end code are the last ones before the bits that fill up *)
(* the last byte, which are 0 as its higher bits are.                      *)
LEMMA EndCodeAtEnd ==
  ASSUME Flushed(seen, bits), Ended, bitLength \in Nat, bitLength >= 3
  PROVE  EndCodeFound
  <1>1. PICK b \in Seq({0, 1}) : bits = b \o LowBitsFirst(endCode, bitLength)
    BY DEF Ended
  <1> DEFINE code == LowBitsFirst(endCode, bitLength)
  <1>2. /\ code \in Seq({0, 1}) /\ Len(code) = bitLength
        /\ \A i \in 1 .. bitLength : code[i] = BitOf(endCode, i - 1)
    <2>1. \A i \in 1 .. bitLength : BitOf(endCode, i - 1) \in {0, 1}
      BY BitType DEF endCode
    <2> QED BY <2>1 DEF LowBitsFirst
  <1> HIDE DEF code
  <1>3. /\ Len(bits) = Len(b) + bitLength /\ Len(b) \in Nat /\ Len(bits) - bitLength = Len(b)
        /\ \A i \in 1 .. bitLength : bits[Len(b) + i] = code[i]
    <2>1. bits = b \o code
      BY <1>1 DEF code
    <2>2. PICK L \in Nat : L = Len(b)
      OBVIOUS
    <2>3. Len(b \o code) = L + bitLength /\ \A i \in 1 .. bitLength : (b \o code)[L + i] = code[i]
      <3>1. b \in Seq({0, 1}) /\ code \in Seq({0, 1})
        BY <1>2
      <3>2. /\ b \o code \in Seq({0, 1}) /\ Len(b \o code) = Len(b) + Len(code)
            /\ \A k \in 1 .. Len(b) : (b \o code)[k] = b[k]
            /\ \A k \in 1 .. Len(code) : (b \o code)[Len(b) + k] = code[k]
        BY <3>1, Concatenation
      <3> QED BY <1>2, <2>2, <3>2
    <2> QED BY <2>1, <2>2, <2>3
  <1>4. ASSUME NEW i \in 0 .. bitLength, Len(b) + i < 8 * Len(seen)
        PROVE  SeenBit(Len(b) + i) = BitOf(endCode, i)
    <2>1. CASE i < bitLength
      <3>1. Len(b) + i \in 0 .. Len(bits) - 1 /\ i + 1 \in 1 .. bitLength
            /\ (Len(b) + i) + 1 = Len(b) + (i + 1) /\ (i + 1) - 1 = i
        BY <1>3, <2>1
      <3>2. SeenBit(Len(b) + i) = bits[(Len(b) + i) + 1]
        BY <3>1 DEF Flushed, SeenBit
      <3> QED BY <1>2, <1>3, <3>1, <3>2
    <2>2. CASE i = bitLength
      <3>1. Len(b) + i \in Len(bits) .. 8 * Len(seen) - 1
        BY <1>3, <1>4, <2>2 DEF Flushed, Octets
      <3>2. SeenBit(Len(b) + i) = 0
        BY <3>1 DEF Flushed, SeenBit
      <3>3. BitOf(endCode, 3 + (i - 3)) = 0
        <4>1. endCode \in 0 .. PowerOf2[3] - 1 /\ i - 3 \in Nat /\ 3 \in Nat
          BY <2>2, Powers DEF endCode
        <4> QED BY <4>1, BitsAbove
      <3>4. 3 + (i - 3) = i
        BY <2>2
      <3> QED BY <3>2, <3>3, <3>4
    <2> QED BY <2>1, <2>2
  <1> QED BY <1>3, <1>4 DEF EndCodeFound

(* A shown image decodes to its pixels.                                    *)
LEMMA ImageInvImplies ==
  ASSUME RasterInv, StreamInv, ImageInv
  PROVE  GifDecodes
  <1> SUFFICES ASSUME phase = "shown" PROVE GifDecodes
    BY DEF GifDecodes
  <1>1. Written /\ Drawn /\ base64 = Base64Of(gif) /\ gif \in Octets
    BY DEF ImageInv
  <1>2. Base64Read(base64) = gif
    BY <1>1, Base64ReadsBack
  <1>3. Flushed(seen, bits) /\ Ended
    BY <1>1 DEF Written, Drawn, StreamInv
  <1>4. ASSUME NEW i \in DOMAIN bits
        PROVE  SeenBit(i - 1) = bits[i]
    <2>1. i - 1 \in 0 .. Len(bits) - 1 /\ (i - 1) + 1 = i
      BY <1>3 DEF Flushed
    <2> QED BY <1>3, <2>1 DEF Flushed, SeenBit
  <1>5. read = _data
    <2>1. fed = read \o s /\ s = <<>> /\ fed = _data /\ read \in Seq(Chars)
      BY <1>1 DEF Drawn, RasterInv, TypesOK, Strings
    <2> QED BY <2>1, ConcatEmptySeq
  <1>6. EndCodeFound
    BY <1>3, EndCodeAtEnd DEF StreamInv
  <1> QED BY <1>1, <1>2, <1>3, <1>4, <1>5, <1>6 DEF GifDecodes, Written, Flushed

(* The image that is shown decodes to the pixels that were given to it, up *)
(* to an end code that a viewer finds at either of the widths it may be    *)
(* at: for any pixels, any width, any odd limit of the table and any       *)
(* length of the blocks up to 255 (qrcode.js:1832-2241).                   *)
THEOREM AnyImageDecodes == ImageSpec => []GifDecodes
  <1> DEFINE Inv == RasterInv /\ StreamInv /\ ImageInv
  <1>1. ImageInit => Inv
    BY ImageInvInit
  <1>2. Inv /\ [ImageNext]_<<rasterVars, imageVars>> => Inv'
    BY ImageInvStep
  <1>3. Inv => GifDecodes
    BY ImageInvImplies
  <1> QED BY <1>1, <1>2, <1>3, PTL DEF ImageSpec
=============================================================================
