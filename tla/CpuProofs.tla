------------------------------ MODULE CpuProofs ------------------------------
(***************************************************************************)
(* The two engines of the CPU, for every width of a byte, every set of     *)
(* registers and every program: interpreted and compiled, a block leaves   *)
(* the same machine.                                                       *)
(***************************************************************************)
EXTENDS Cpu, WellFoundedInduction, TLAPS

-----------------------------------------------------------------------------
(* Powers of two.                                                          *)

\* Induction over the natural numbers, for a set: the numbers are well-founded.
LEMMA Induction ==
  ASSUME NEW T, 0 \in T, \A n \in Nat : n \in T => n + 1 \in T
  PROVE  Nat \subseteq T
<1> DEFINE N == {n \in Nat : n \notin T}
           R == OpToRel(<, Nat)
<1> SUFFICES ASSUME N # {} PROVE FALSE
  OBVIOUS
<1>1. IsWellFoundedOn(R, Nat)
  BY NatLessThanWellFounded
<1> HIDE DEF R
<1>2. PICK x \in N : \A y \in N : ~ (<<y, x>> \in R)
  <2>1. N \subseteq Nat
    OBVIOUS
  <2> HIDE DEF N
  <2> QED
    BY <1>1, <2>1, WFMin
<1>3. x - 1 \in Nat /\ x - 1 \in N /\ x - 1 < x
  BY <1>2
<1>4. <<x - 1, x>> \in R
  BY <1>2, <1>3 DEF R, OpToRel
<1> QED
  BY <1>2, <1>3, <1>4

\* The places of a word's bits, and of its end.
Places == 0 .. 4 * ByteBits

Doubles(f, m) == f = [k \in 0 .. m |-> IF k = 0 THEN 1 ELSE 2 * f[k - 1]]

LEMMA PowersExist == \A m \in Nat : \E f : Doubles(f, m)
<1> DEFINE T == {m \in Nat : \E f : Doubles(f, m)}
<1>1. 0 \in T
  <2> DEFINE f == [k \in 0 .. 0 |-> 1]
  <2>1. Doubles(f, 0)
    BY DEF Doubles
  <2> QED
    BY <2>1
<1>2. ASSUME NEW m \in Nat, m \in T PROVE m + 1 \in T
  <2>1. PICK f : Doubles(f, m)
    BY <1>2
  <2> DEFINE g == [k \in 0 .. m + 1 |-> IF k = m + 1 THEN 2 * f[m] ELSE f[k]]
  <2>2. ASSUME NEW k \in 0 .. m + 1 PROVE g[k] = IF k = 0 THEN 1 ELSE 2 * g[k - 1]
    <3>1. CASE k = m + 1
      <4>1. k # 0 /\ k - 1 = m /\ k - 1 \in 0 .. m + 1 /\ k - 1 # m + 1
        BY <3>1
      <4>2. g[k - 1] = f[m] /\ g[k] = 2 * f[m]
        BY <3>1, <4>1
      <4> QED
        BY <4>1, <4>2
    <3>2. CASE k # m + 1
      <4>1. k \in 0 .. m /\ g[k] = f[k]
        BY <3>2
      <4>2. f[k] = IF k = 0 THEN 1 ELSE 2 * f[k - 1]
        BY <2>1, <4>1 DEF Doubles
      <4>3. k # 0 => g[k - 1] = f[k - 1]
        BY <4>1
      <4> QED
        BY <4>1, <4>2, <4>3
    <3> QED
      BY <3>1, <3>2
  <2>3. Doubles(g, m + 1)
    <3>1. g = [k \in 0 .. m + 1 |-> g[k]]
      OBVIOUS
    <3> HIDE DEF g
    <3> QED
      BY <2>2, <3>1 DEF Doubles
  <2> QED
    BY <2>3
<1>3. Nat \subseteq T
  <2>1. \A m \in Nat : m \in T => m + 1 \in T
    BY <1>2
  <2> HIDE DEF T
  <2> QED
    BY <1>1, <2>1, Induction
<1> QED
  BY <1>3

LEMMA PowersDouble == Doubles(Pow2, 4 * ByteBits)
<1>1. 4 * ByteBits \in Nat
  BY CpuAssumption
<1>2. \E f : Doubles(f, 4 * ByteBits)
  BY <1>1, PowersExist
<1>3. Pow2 = CHOOSE f : Doubles(f, 4 * ByteBits)
  BY Zenon DEF Pow2, Doubles
<1> QED
  BY <1>2, <1>3

LEMMA Powers ==
  /\ Pow2[0] = 1
  /\ \A k \in Places : k > 0 => Pow2[k] = 2 * Pow2[k - 1]
<1>1. 4 * ByteBits \in Nat
  BY CpuAssumption
<1>2. ASSUME NEW f, NEW m \in Nat, Doubles(f, m)
      PROVE  f[0] = 1 /\ \A k \in 0 .. m : k > 0 => f[k] = 2 * f[k - 1]
  <2>1. \A k \in 0 .. m : f[k] = IF k = 0 THEN 1 ELSE 2 * f[k - 1]
    BY <1>2 DEF Doubles
  <2> QED
    BY <2>1
<1> QED
  BY <1>1, <1>2, PowersDouble DEF Places

LEMMA PowerIsPositive == \A k \in Places : Pow2[k] \in Nat \ {0}
<1> DEFINE T == {k \in Nat : k \in Places => Pow2[k] \in Nat \ {0}}
<1>1. 0 \in T
  BY Powers
<1>2. ASSUME NEW k \in Nat, k \in T, k + 1 \in Places PROVE Pow2[k + 1] \in Nat \ {0}
  <2>1. k \in Places /\ k + 1 > 0 /\ (k + 1) - 1 = k
    BY <1>2, CpuAssumption DEF Places
  <2>2. Pow2[k + 1] = 2 * Pow2[k]
    BY <1>2, <2>1, Powers
  <2> QED
    BY <1>2, <2>1, <2>2
<1>3. Nat \subseteq T
  <2>1. \A k \in Nat : k \in T => k + 1 \in T
    BY <1>2
  <2> HIDE DEF T
  <2> QED
    BY <1>1, <2>1, Induction
<1> QED
  BY <1>3, CpuAssumption DEF Places

LEMMA PowersMultiply ==
  \A a, b \in Nat : a + b \in Places => Pow2[a + b] = Pow2[a] * Pow2[b]
<1> SUFFICES ASSUME NEW a \in Nat, a \in Places
             PROVE \A b \in Nat : a + b \in Places => Pow2[a + b] = Pow2[a] * Pow2[b]
  BY CpuAssumption DEF Places
<1> DEFINE T == {b \in Nat : a + b \in Places => Pow2[a + b] = Pow2[a] * Pow2[b]}
<1>1. Pow2[a] \in Nat
  BY PowerIsPositive
<1>2. 0 \in T
  BY Powers, <1>1
<1>3. ASSUME NEW b \in Nat, b \in T, a + (b + 1) \in Places
      PROVE  Pow2[a + (b + 1)] = Pow2[a] * Pow2[b + 1]
  <2>1. /\ a + b \in Places /\ b \in Places /\ b + 1 \in Places
        /\ (a + (b + 1)) - 1 = a + b /\ (b + 1) - 1 = b /\ a + (b + 1) > 0 /\ b + 1 > 0
    BY <1>3, CpuAssumption DEF Places
  <2>2. Pow2[a + (b + 1)] = 2 * Pow2[a + b]
    BY <1>3, <2>1, Powers
  <2>3. Pow2[b + 1] = 2 * Pow2[b]
    BY <2>1, Powers
  <2>4. Pow2[b] \in Nat
    BY <2>1, PowerIsPositive
  <2>5. \A x, y \in Nat : 2 * (x * y) = x * (2 * y)
    OBVIOUS
  <2>6. Pow2[a + b] = Pow2[a] * Pow2[b]
    BY <1>3, <2>1
  <2>7. 2 * (Pow2[a] * Pow2[b]) = Pow2[a] * (2 * Pow2[b])
    BY <1>1, <2>4, <2>5
  <2> QED
    BY <2>2, <2>3, <2>6, <2>7
<1>4. Nat \subseteq T
  <2>1. \A b \in Nat : b \in T => b + 1 \in T
    BY <1>3
  <2> HIDE DEF T
  <2> QED
    BY <1>2, <2>1, Induction
<1> QED
  BY <1>4

LEMMA Widths == ByteBits \in Nat /\ ByteBits >= 2
  BY CpuAssumption

\* A lane, the lanes below it and the ones above it.
LEMMA LaneIsPositive == \A k \in 0 .. 4 : Lane(k) \in Nat \ {0}
<1> SUFFICES ASSUME NEW k \in 0 .. 4 PROVE k * ByteBits \in Places
  BY PowerIsPositive DEF Lane
<1>1. \A w \in Nat : k * w \in Nat /\ k * w <= 4 * w
  OBVIOUS
<1> QED
  BY <1>1, Widths DEF Places

LEMMA LanesMultiply ==
  \A j, k \in 0 .. 4 : j + k <= 4 => Lane(j + k) = Lane(j) * Lane(k)
<1> SUFFICES ASSUME NEW j \in 0 .. 4, NEW k \in 0 .. 4, j + k <= 4
             PROVE Lane(j + k) = Lane(j) * Lane(k)
  OBVIOUS
<1>1. /\ j * ByteBits \in Nat /\ k * ByteBits \in Nat
      /\ (j + k) * ByteBits = j * ByteBits + k * ByteBits
  <2>1. \A w \in Nat : /\ j * w \in Nat /\ k * w \in Nat
                       /\ (j + k) * w = j * w + k * w
    OBVIOUS
  <2> QED
    BY <2>1, Widths
<1>2. (j + k) * ByteBits \in Places
  <2>1. \A w \in Nat : (j + k) * w \in Nat /\ (j + k) * w <= 4 * w
    OBVIOUS
  <2> QED
    BY <2>1, Widths DEF Places
<1> QED
  BY <1>1, <1>2, PowersMultiply DEF Lane

LEMMA LaneZero == Lane(0) = 1
<1>1. 0 * ByteBits = 0
  BY Widths
<1> QED
  BY <1>1, Powers DEF Lane

\* A word is split in two by each of its lanes.
LEMMA Split ==
  \A k \in 0 .. 4 : /\ Lane(k) \in Nat \ {0} /\ Lane(4 - k) \in Nat \ {0}
                    /\ Size = Lane(k) * Lane(4 - k)
<1> SUFFICES ASSUME NEW k \in 0 .. 4
             PROVE  /\ Lane(k) \in Nat \ {0} /\ Lane(4 - k) \in Nat \ {0}
                    /\ Size = Lane(k) * Lane(4 - k)
  OBVIOUS
<1>1. 4 - k \in 0 .. 4 /\ k + (4 - k) = 4
  OBVIOUS
<1>2. Lane(k + (4 - k)) = Lane(k) * Lane(4 - k)
  BY <1>1, LanesMultiply
<1> QED
  BY <1>1, <1>2, LaneIsPositive DEF Size

\* A word has at least eight bits.
LEMMA EightBits == /\ Pow2[6] = 64 /\ Pow2[7] = 128 /\ Pow2[8] = 256
                   /\ {0, 1, 2, 3, 4, 5, 6, 7, 8} \subseteq Places
<1>1. {0, 1, 2, 3, 4, 5, 6, 7, 8} \subseteq Places
  BY Widths DEF Places
<1>2. Pow2[1] = 2 /\ Pow2[2] = 4 /\ Pow2[3] = 8 /\ Pow2[4] = 16
  <2>1. Pow2[1] = 2
    BY <1>1, Powers
  <2>2. Pow2[2] = 4
    BY <1>1, <2>1, Powers
  <2>3. Pow2[3] = 8
    BY <1>1, <2>2, Powers
  <2> QED
    BY <1>1, <2>1, <2>2, <2>3, Powers
<1>3. Pow2[5] = 32
  BY <1>1, <1>2, Powers
<1>4. Pow2[6] = 64
  BY <1>1, <1>3, Powers
<1>5. Pow2[7] = 128
  BY <1>1, <1>4, Powers
<1> QED
  BY <1>1, <1>4, <1>5, Powers

LEMMA Sizes ==
  /\ \E q \in Nat \ {0} : Size = 256 * q /\ Sign = 128 * q
  /\ Size \in Nat /\ Sign \in Nat /\ Size = 2 * Sign /\ Size >= 256 /\ Sign >= 128
<1>1. /\ 4 * ByteBits \in Places /\ 4 * ByteBits - 8 \in Places /\ 4 * ByteBits - 8 \in Nat
      /\ 8 + (4 * ByteBits - 8) = 4 * ByteBits
  BY Widths DEF Places
<1>2. Size = Pow2[4 * ByteBits]
  BY DEF Size, Lane
<1> DEFINE q == Pow2[4 * ByteBits - 8]
<1>3. q \in Nat \ {0}
  BY <1>1, PowerIsPositive
<1>4. Size = 256 * q
  BY <1>1, <1>2, PowersMultiply, EightBits
<1> HIDE DEF q
<1>5. Sign = 128 * q
  BY <1>3, <1>4 DEF Sign
<1> QED
  BY <1>3, <1>4, <1>5

LEMMA Halves ==
  Half \in Nat \ {0} /\ Size = Half * Half /\ B \in Nat \ {0} /\ Half = B * B /\ B <= Half /\ Half <= Size
<1>1. Half \in Nat \ {0} /\ B \in Nat \ {0}
  BY LaneIsPositive DEF Half, B
<1>2. Size = Half * Half /\ Half = B * B
  BY LanesMultiply DEF Half, B, Size
<1>3. \A x \in Nat \ {0} : x <= x * x
  OBVIOUS
<1> QED
  BY <1>1, <1>2, <1>3

-----------------------------------------------------------------------------
(* Division.                                                               *)

LEMMA Division ==
  ASSUME NEW x \in Int, NEW n \in Nat \ {0}
  PROVE  /\ x \div n \in Int /\ x % n \in 0 .. n - 1
         /\ x = n * (x \div n) + (x % n)
  OBVIOUS

LEMMA DivisionIs ==
  ASSUME NEW n \in Nat \ {0}, NEW q \in Int, NEW r \in 0 .. n - 1
  PROVE  (n * q + r) \div n = q /\ (n * q + r) % n = r
  OBVIOUS

LEMMA Modulo ==
  ASSUME NEW n \in Nat \ {0}, NEW x \in Int, NEW k \in Int
  PROVE  (n * k + x) % n = x % n /\ (n * k + x) \div n = k + (x \div n)
<1> DEFINE q == x \div n
           r == x % n
<1>1. q \in Int /\ r \in 0 .. n - 1 /\ x = n * q + r
  BY Division
<1> HIDE DEF q, r
<1>2. n * k + x = n * (k + q) + r /\ k + q \in Int
  BY <1>1
<1>3. (n * (k + q) + r) \div n = k + q /\ (n * (k + q) + r) % n = r
  BY <1>1, <1>2, DivisionIs
<1> QED
  BY <1>2, <1>3 DEF q, r

\* What fits a number divided by n fits its parts.
LEMMA QuotientFits ==
  ASSUME NEW n \in Nat \ {0}, NEW m \in Nat \ {0}, NEW x \in 0 .. n * m - 1
  PROVE  x \div n \in 0 .. m - 1
<1> DEFINE q == x \div n
           r == x % n
<1>1. q \in Int /\ r \in 0 .. n - 1 /\ x = n * q + r
  BY Division
<1> HIDE DEF q, r
<1>2. q >= 0
  <2>1. ASSUME q <= -1 PROVE FALSE
    <3>1. n * q <= n * (-1)
      BY <1>1, <2>1
    <3> QED
      BY <1>1, <3>1
  <2> QED
    BY <1>1, <2>1
<1>3. q <= m - 1
  <2>1. ASSUME q >= m PROVE FALSE
    <3>1. n * q >= n * m
      BY <1>1, <2>1
    <3> QED
      BY <1>1, <3>1
  <2> QED
    BY <1>1, <2>1
<1> QED
  BY <1>1, <1>2, <1>3 DEF q

LEMMA PartsFit ==
  ASSUME NEW n \in Nat \ {0}, NEW m \in Nat \ {0}, NEW x \in 0 .. n * m - 1
  PROVE  x \div n \in 0 .. m - 1 /\ x % n \in 0 .. n - 1 /\ x = n * (x \div n) + (x % n)
<1>1. x \in Int
  OBVIOUS
<1>2. x \div n \in 0 .. m - 1
  BY QuotientFits
<1> QED
  BY <1>1, <1>2, Division

LEMMA QuotientSmaller ==
  ASSUME NEW n \in Nat \ {0}, NEW x \in Nat
  PROVE  x \div n \in 0 .. x /\ x % n \in 0 .. x
<1> DEFINE q == x \div n
           r == x % n
<1>1. q \in Int /\ r \in 0 .. n - 1 /\ x = n * q + r
  BY Division
<1>2. q \in 0 .. x
  <2>1. x \in 0 .. n * (x + 1) - 1
    <3>1. n * (x + 1) >= x + 1
      OBVIOUS
    <3> QED
      BY <3>1
  <2>2. x + 1 \in Nat \ {0}
    OBVIOUS
  <2> QED
    BY <2>1, <2>2, QuotientFits
<1> HIDE DEF q, r
<1>3. n * q >= 0
  BY <1>2
<1> QED
  BY <1>1, <1>2, <1>3 DEF q, r

\* A multiple below a multiple is a whole step below it.
LEMMA MultipleBelow ==
  ASSUME NEW n \in Nat \ {0}, NEW q \in Int, NEW m \in Int, n * q < n * m
  PROVE  n * q <= n * m - n
<1>1. q <= m - 1
  <2>1. ASSUME q >= m PROVE FALSE
    <3>1. n * q >= n * m
      BY <2>1
    <3> QED
      BY <3>1
  <2> QED
    BY <2>1
<1>2. n * q <= n * (m - 1)
  BY <1>1
<1> QED
  BY <1>2

-----------------------------------------------------------------------------
(* Words.                                                                  *)

LEMMA WrapIsWord == \A x \in Int : Wrap(x) \in Word
  BY Sizes, Division DEF Wrap, Word

LEMMA WrapOfWord == \A x \in Word : Wrap(x) = x
<1> SUFFICES ASSUME NEW x \in Word PROVE Wrap(x) = x
  OBVIOUS
<1>1. Size \in Nat \ {0} /\ x \in 0 .. Size - 1
  BY Sizes DEF Word
<1>2. (Size * 0 + x) % Size = x
  BY <1>1, DivisionIs
<1> QED
  BY <1>1, <1>2 DEF Wrap

LEMMA WrapTwice == \A x, y \in Int : Wrap(Wrap(x) + y) = Wrap(x + y)
<1> SUFFICES ASSUME NEW x \in Int, NEW y \in Int PROVE ((x % Size) + y) % Size = (x + y) % Size
  BY DEF Wrap
<1>1. Size \in Nat \ {0}
  BY Sizes
<1> DEFINE q == x \div Size
           r == x % Size
<1>2. q \in Int /\ r \in Int /\ x = Size * q + r
  BY <1>1, Division
<1> HIDE DEF q, r
<1>3. x + y = Size * q + (r + y) /\ r + y \in Int
  BY <1>1, <1>2
<1>4. (Size * q + (r + y)) % Size = (r + y) % Size
  BY <1>1, <1>2, <1>3, Modulo
<1> QED
  BY <1>3, <1>4 DEF r

LEMMA SignedWord ==
  \A x \in Word : Signed(x) \in -Sign .. Sign - 1 /\ Wrap(Signed(x)) = x
<1> SUFFICES ASSUME NEW x \in Word
             PROVE Signed(x) \in -Sign .. Sign - 1 /\ Wrap(Signed(x)) = x
  OBVIOUS
<1>1. x \in 0 .. Size - 1 /\ Size = 2 * Sign /\ Sign \in Nat
  BY Sizes DEF Word
<1>2. CASE x < Sign
  BY <1>1, <1>2, WrapOfWord DEF Signed
<1>3. CASE ~(x < Sign)
  <2>1. Signed(x) = Size * (-1) + x
    BY <1>1, <1>3 DEF Signed
  <2>2. (Size * (-1) + x) % Size = x % Size
    BY <1>1, Sizes, Modulo
  <2>3. Wrap(Signed(x)) = Wrap(x)
    BY <2>1, <2>2 DEF Wrap
  <2> QED
    BY <1>1, <1>3, <2>1, <2>3, WrapOfWord
<1> QED
  BY <1>2, <1>3

LEMMA ExtendWord ==
  ASSUME NEW lim \in Nat, NEW x \in Word
  PROVE  Extend(x, lim) \in Word
<1>1. x \in Int /\ x - lim \in Int
  BY Sizes DEF Word
<1> QED
  BY <1>1, WrapIsWord DEF Extend

Sums(g, S, m) ==
    g = [k \in 0 .. m |-> IF k = 0 THEN 0 ELSE g[k - 1] + IF k - 1 \in S THEN Pow2[k - 1] ELSE 0]

LEMMA SumsExist == \A S : \A m \in Nat : \E g : Sums(g, S, m)
<1> SUFFICES ASSUME NEW S PROVE \A m \in Nat : \E g : Sums(g, S, m)
  OBVIOUS
<1> DEFINE p(k) == IF k \in S THEN Pow2[k] ELSE 0
           T == {m \in Nat : \E g : Sums(g, S, m)}
<1>1. 0 \in T
  <2> DEFINE g == [k \in 0 .. 0 |-> 0]
  <2>1. Sums(g, S, 0)
    BY DEF Sums
  <2> QED
    BY <2>1
<1>2. ASSUME NEW m \in Nat, m \in T PROVE m + 1 \in T
  <2>1. PICK f : Sums(f, S, m)
    BY <1>2
  <2> DEFINE g == [k \in 0 .. m + 1 |-> IF k = m + 1 THEN f[m] + p(m) ELSE f[k]]
  <2>2. ASSUME NEW k \in 0 .. m + 1 PROVE g[k] = IF k = 0 THEN 0 ELSE g[k - 1] + p(k - 1)
    <3> HIDE DEF p
    <3>1. CASE k = m + 1
      <4>1. k # 0 /\ k - 1 = m /\ k - 1 \in 0 .. m + 1 /\ k - 1 # m + 1
        BY <3>1
      <4>2. g[k - 1] = f[m] /\ g[k] = f[m] + p(m)
        BY <3>1, <4>1
      <4> QED
        BY <4>1, <4>2
    <3>2. CASE k # m + 1
      <4>1. k \in 0 .. m /\ g[k] = f[k]
        BY <3>2
      <4>2. f[k] = IF k = 0 THEN 0 ELSE f[k - 1] + p(k - 1)
        BY <2>1, <4>1 DEF Sums, p
      <4>3. k # 0 => g[k - 1] = f[k - 1]
        BY <4>1
      <4> QED
        BY <4>1, <4>2, <4>3
    <3> QED
      BY <3>1, <3>2
  <2>3. Sums(g, S, m + 1)
    <3>1. g = [k \in 0 .. m + 1 |-> g[k]]
      OBVIOUS
    <3> HIDE DEF g
    <3> QED
      BY <2>2, <3>1 DEF Sums
  <2> QED
    BY <2>3
<1>3. Nat \subseteq T
  <2>1. \A m \in Nat : m \in T => m + 1 \in T
    BY <1>2
  <2> HIDE DEF T
  <2> QED
    BY <1>1, <2>1, Induction
<1> QED
  BY <1>3

\* Places below k add up to less than the value of place k.
LEMMA SumsAreBelow ==
  ASSUME NEW S, NEW g, Sums(g, S, 4 * ByteBits)
  PROVE  \A k \in Places : g[k] \in 0 .. Pow2[k] - 1
<1>1. \A k \in Places : g[k] = IF k = 0 THEN 0
                               ELSE g[k - 1] + IF k - 1 \in S THEN Pow2[k - 1] ELSE 0
  BY DEF Sums, Places
<1> DEFINE T == {k \in Nat : k \in Places => g[k] \in 0 .. Pow2[k] - 1}
<1>2. 0 \in T
  BY <1>1, Powers
<1>3. ASSUME NEW k \in Nat, k \in T, k + 1 \in Places PROVE g[k + 1] \in 0 .. Pow2[k + 1] - 1
  <2>1. k \in Places /\ k + 1 > 0 /\ (k + 1) - 1 = k /\ k + 1 # 0
    BY <1>3, Widths DEF Places
  <2>2. Pow2[k + 1] = 2 * Pow2[k]
    BY <1>3, <2>1, Powers
  <2>3. Pow2[k] \in Nat /\ g[k] \in 0 .. Pow2[k] - 1
    BY <1>3, <2>1, PowerIsPositive
  <2>4. g[k + 1] = g[k] + IF k \in S THEN Pow2[k] ELSE 0
    BY <1>1, <1>3, <2>1
  <2> QED
    BY <2>2, <2>3, <2>4
<1>4. Nat \subseteq T
  <2>1. \A k \in Nat : k \in T => k + 1 \in T
    BY <1>3
  <2> HIDE DEF T
  <2> QED
    BY <1>2, <2>1, Induction
<1> QED
  BY <1>4, Widths DEF Places

LEMMA BitsWord == \A S : OfBits(S) \in Word
<1> SUFFICES ASSUME NEW S PROVE OfBits(S) \in Word
  OBVIOUS
<1>1. 4 * ByteBits \in Nat /\ 4 * ByteBits \in Places
  BY Widths DEF Places
<1> DEFINE g == CHOOSE f : Sums(f, S, 4 * ByteBits)
<1>2. Sums(g, S, 4 * ByteBits)
  BY <1>1, SumsExist
<1>3. OfBits(S) = g[4 * ByteBits]
  BY Zenon DEF OfBits, Sums
<1> HIDE DEF g
<1>4. g[4 * ByteBits] \in 0 .. Pow2[4 * ByteBits] - 1
  BY <1>1, <1>2, SumsAreBelow
<1> QED
  BY <1>3, <1>4 DEF Word, Size, Lane

LEMMA LogicWord ==
  /\ \A x, y \in Word : Or(x, y) \in Word /\ And(x, y) \in Word /\ Xor(x, y) \in Word
  /\ \A x, y : Or(x, y) = Or(y, x)
  /\ \A x \in Word : Not(x) \in Word
<1>1. \A x, y : Or(x, y) \in Word /\ And(x, y) \in Word /\ Xor(x, y) \in Word
  BY BitsWord DEF Or, And, Xor
<1>2. \A x, y : Or(x, y) = Or(y, x)
  <2>1. \A x, y : Bits(x) \cup Bits(y) = Bits(y) \cup Bits(x)
    OBVIOUS
  <2> QED
    BY <2>1 DEF Or
<1>3. \A x \in Word : Not(x) \in Word
  BY Sizes DEF Not, Word
<1> QED
  BY <1>1, <1>2, <1>3

-----------------------------------------------------------------------------
(* Lanes.                                                                  *)

\* A lane of a word replaced by another value of the lane.
LEMMA LaneReplaced ==
  ASSUME NEW at \in Nat \ {0}, NEW lim \in Nat \ {0}, NEW above \in Nat \ {0},
         NEW x \in 0 .. at * (lim * above) - 1, NEW v \in 0 .. lim - 1
  PROVE  x + at * (v - ((x \div at) % lim)) \in 0 .. at * (lim * above) - 1
<1> DEFINE m == lim * above
           q == x \div at
           r == x % at
           h == q \div lim
           l == q % lim
<1>1. m \in Nat \ {0}
  <2>1. lim * above >= lim * 1
    OBVIOUS
  <2> QED
    BY <2>1
<1>2. q \in 0 .. m - 1 /\ r \in 0 .. at - 1 /\ x = at * q + r
  <2>1. x \in 0 .. at * m - 1
    OBVIOUS
  <2> HIDE DEF m
  <2> QED
    BY <1>1, <2>1, PartsFit
<1>3. h \in 0 .. above - 1 /\ l \in 0 .. lim - 1 /\ q = lim * h + l
  <2>1. q \in 0 .. lim * above - 1
    BY <1>2
  <2> HIDE DEF q
  <2> QED
    BY <2>1, PartsFit
<1> HIDE DEF q, r, h, l
<1>4. lim * h + v \in 0 .. m - 1
  <2>1. lim * h >= 0
    BY <1>3
  <2>2. lim * h <= lim * (above - 1)
    BY <1>3
  <2>3. lim * (above - 1) = m - lim
    OBVIOUS
  <2> HIDE DEF m
  <2> QED
    BY <1>1, <1>3, <2>1, <2>2, <2>3
<1> DEFINE y == lim * h + v
<1>5. x + at * (v - l) = at * y + r
  <2>1. at * q + at * (v - l) = at * y
    BY <1>2, <1>3
  <2> QED
    BY <1>2, <1>3, <2>1
<1>6. at * y + r \in 0 .. at * m - 1
  <2>1. y \in 0 .. m - 1
    BY <1>4
  <2> HIDE DEF y, m
  <2>2. at * y >= 0 /\ at * y <= at * (m - 1)
    BY <1>1, <2>1
  <2>3. at * (m - 1) = at * m - at
    BY <1>1
  <2> QED
    BY <1>1, <1>2, <2>1, <2>2, <2>3
<1> QED
  BY <1>5, <1>6 DEF l, q, m

\* The low part of one word under the low part of another, moved up ...
LEMMA JoinLow ==
  ASSUME NEW P \in Nat \ {0}, NEW Q \in Nat \ {0}, NEW x \in Nat, NEW w \in Nat
  PROVE  (x % P) + ((w * P) % (P * Q)) \in 0 .. P * Q - 1
<1> DEFINE h == w \div Q
           l == w % Q
<1>1. h \in Int /\ l \in 0 .. Q - 1 /\ w = Q * h + l
  BY Division
<1> HIDE DEF h, l
<1>2. P * Q \in Nat \ {0}
  <2>1. P * Q >= P * 1
    OBVIOUS
  <2> QED
    BY <2>1
<1>3. w * P = (P * Q) * h + P * l
  BY <1>1
<1>4. P * l >= 0 /\ P * l <= P * (Q - 1) /\ P * (Q - 1) = P * Q - P
  BY <1>1
<1> DEFINE n == P * Q
           k == P * l
<1>5. n \in Nat \ {0} /\ k \in 0 .. n - P
  <2>1. P * l \in Int
    BY <1>1
  <2> QED
    BY <1>2, <1>4, <2>1
<1>6. (n * h + k) % n = k
  <2> HIDE DEF n, k
  <2> QED
    BY <1>1, <1>5, DivisionIs
<1>7. (w * P) % (P * Q) = k
  BY <1>3, <1>6
<1>8. x % P \in 0 .. P - 1
  OBVIOUS
<1> HIDE DEF n, k
<1>9. (x % P) + k \in 0 .. n - 1
  BY <1>5, <1>8
<1> QED
  BY <1>7, <1>9 DEF n

\* ... and the high part of one word over the high part of another.
LEMMA JoinHigh ==
  ASSUME NEW P \in Nat \ {0}, NEW Q \in Nat \ {0},
         NEW x \in 0 .. P * Q - 1, NEW w \in 0 .. P * Q - 1
  PROVE  (x - (x % P)) + (w \div Q) \in 0 .. P * Q - 1
<1> DEFINE h == x \div P
           l == x % P
<1>1. h \in 0 .. Q - 1 /\ l \in 0 .. P - 1 /\ x = P * h + l
  BY PartsFit
<1>2. w \div Q \in 0 .. P - 1
  <2>1. w \in 0 .. Q * P - 1
    BY Q * P = P * Q
  <2> QED
    BY <2>1, QuotientFits
<1> DEFINE v == w \div Q
<1> HIDE DEF h, l, v
<1>3. P * h >= 0 /\ P * h <= P * (Q - 1) /\ P * (Q - 1) = P * Q - P
  BY <1>1
<1>4. x - l = P * h
  BY <1>1
<1>5. P * h + v \in 0 .. P * Q - 1
  <2>1. P * h \in Int /\ P * Q \in Int
    BY <1>1
  <2> QED
    BY <1>2, <1>3, <2>1 DEF v
<1> QED
  BY <1>4, <1>5 DEF l, v

-----------------------------------------------------------------------------
(* Memory.                                                                 *)

Memories == [{0, 1} -> Word]

LEMMA CellOf == \A a \in Word : Cell(a) \in {0, 1} /\ a % 4 \in 0 .. 3
<1> SUFFICES ASSUME NEW a \in Word PROVE Cell(a) \in {0, 1} /\ a % 4 \in 0 .. 3
  OBVIOUS
<1>1. a \in Int
  BY Sizes DEF Word
<1> QED
  BY <1>1 DEF Cell

\* What is as wide as its address is aligned stays within the word.
LEMMA WithinWord ==
  ASSUME NEW a \in Word, NEW w \in {1, 2, 4}, a % w = 0
  PROVE  (a % 4) + w \in 1 .. 4
<1>1. a \in Nat
  BY Sizes DEF Word
<1>2. CASE w = 1
  BY <1>1, <1>2
<1>3. CASE w = 2
  BY <1>1, <1>3
<1>4. CASE w = 4
  BY <1>1, <1>4
<1> QED
  BY <1>2, <1>3, <1>4

\* ... so a word is what lies below, what is stored and what lies above.
LEMMA Lanes ==
  ASSUME NEW l \in 0 .. 3, NEW w \in 1 .. 4, l + w <= 4
  PROVE  /\ Lane(l) \in Nat \ {0} /\ Lane(w) \in Nat \ {0} /\ Lane(4 - (l + w)) \in Nat \ {0}
         /\ Size = Lane(l) * (Lane(w) * Lane(4 - (l + w)))
<1> DEFINE u == 4 - (l + w)
<1>1. l \in 0 .. 4 /\ w \in 0 .. 4 /\ u \in 0 .. 4 /\ w + u \in 0 .. 4 /\ l + (w + u) = 4
  OBVIOUS
<1>2. Lane(w + u) = Lane(w) * Lane(u)
  <2> HIDE DEF u
  <2> QED
    BY <1>1, LanesMultiply
<1>3. Lane(l + (w + u)) = Lane(l) * Lane(w + u)
  <2> HIDE DEF u
  <2> QED
    BY <1>1, LanesMultiply
<1>4. Lane(l + (w + u)) = Size
  BY <1>1 DEF Size
<1> QED
  BY <1>1, <1>2, <1>3, <1>4, LaneIsPositive

LEMMA LoadIsBelow ==
  ASSUME NEW mem \in Memories, NEW a \in Word, NEW w \in {1, 2, 4}
  PROVE  Load(mem, a, Lane(w)) \in 0 .. Lane(w) - 1 /\ Load(mem, a, Lane(w)) \in Word
<1>1. Lane(w) \in Nat \ {0} /\ Lane(w) <= Size
  <2>1. w \in 0 .. 4
    OBVIOUS
  <2>2. Lane(w) \in Nat \ {0} /\ Lane(4 - w) \in Nat \ {0} /\ Size = Lane(w) * Lane(4 - w)
    BY <2>1, Split
  <2>3. \A x, y \in Nat \ {0} : x <= x * y
    OBVIOUS
  <2> QED
    BY <2>2, <2>3
<1>2. mem[Cell(a)] \in Int
  BY CellOf, Sizes DEF Memories, Word
<1>3. Lane(a % 4) \in Nat \ {0}
  BY CellOf, LaneIsPositive
<1>4. mem[Cell(a)] \div Lane(a % 4) \in Int
  BY <1>2, <1>3, Division
<1>5. Load(mem, a, Lane(w)) \in 0 .. Lane(w) - 1
  BY <1>1, <1>4, Division DEF Load
<1> QED
  BY <1>1, <1>5, Sizes DEF Word

LEMMA LoadOfWord ==
  ASSUME NEW mem \in Memories, NEW a \in Word, a % 4 = 0
  PROVE  Load(mem, a, Lane(4)) = LoadWord(mem, a)
<1>1. mem[Cell(a)] \in Word
  BY CellOf DEF Memories
<1>2. mem[Cell(a)] \in Int /\ mem[Cell(a)] \div 1 = mem[Cell(a)]
  BY <1>1, Sizes DEF Word
<1>3. mem[Cell(a)] % Size = mem[Cell(a)]
  BY <1>1, WrapOfWord DEF Wrap
<1> QED
  BY <1>2, <1>3, LaneZero DEF Load, LoadWord, Size

LEMMA StoreIsMemory ==
  ASSUME NEW mem \in Memories, NEW a \in Word, NEW v \in Word, NEW w \in {1, 2, 4}, a % w = 0
  PROVE  Store(mem, a, v, Lane(w)) \in Memories
<1> DEFINE l == a % 4
           x == mem[Cell(a)]
           y == x + Lane(l) * ((v % Lane(w)) - ((x \div Lane(l)) % Lane(w)))
<1>1. l \in 0 .. 3 /\ w \in 1 .. 4 /\ l + w <= 4
  BY CellOf, WithinWord
<1>2. x \in 0 .. Size - 1 /\ v \in Int
  BY CellOf, Sizes DEF Memories, Word
<1> HIDE DEF l, x
<1>3. y \in 0 .. Size - 1
  <2> DEFINE at == Lane(l)
             lim == Lane(w)
             above == Lane(4 - (l + w))
  <2>1. at \in Nat \ {0} /\ lim \in Nat \ {0} /\ above \in Nat \ {0} /\ Size = at * (lim * above)
    BY <1>1, Lanes
  <2> HIDE DEF at, lim, above
  <2>2. v % lim \in 0 .. lim - 1
    BY <1>2, <2>1, Division
  <2>3. x \in 0 .. at * (lim * above) - 1
    BY <1>2, <2>1
  <2>4. x + at * ((v % lim) - ((x \div at) % lim)) \in 0 .. at * (lim * above) - 1
    BY <2>1, <2>2, <2>3, LaneReplaced
  <2> QED
    BY <2>1, <2>4 DEF at, lim
<1>4. Store(mem, a, v, Lane(w)) = [mem EXCEPT ![Cell(a)] = y]
  BY DEF Store, l, x
<1> HIDE DEF y
<1> QED
  BY <1>3, <1>4 DEF Memories, Word

LEMMA StoreOfWord ==
  ASSUME NEW mem \in Memories, NEW a \in Word, NEW v \in Word, a % 4 = 0
  PROVE  Store(mem, a, v, Lane(4)) = StoreWord(mem, a, v)
<1> DEFINE x == mem[Cell(a)]
<1>1. x \in Word
  BY CellOf DEF Memories
<1>2. x \in Int /\ v \in Int /\ x \div 1 = x
  BY <1>1, Sizes DEF Word
<1>3. v % Lane(4) = v /\ x % Lane(4) = x
  BY <1>1, WrapOfWord DEF Wrap, Size
<1>4. x + 1 * (v - x) = v
  BY <1>2
<1>5. Store(mem, a, v, Lane(4)) = [mem EXCEPT ![Cell(a)] = x + 1 * ((v % Lane(4)) - ((x \div 1) % Lane(4)))]
  BY LaneZero DEF Store
<1> QED
  BY <1>2, <1>3, <1>4, <1>5 DEF StoreWord

LEMMA StoreWordIsMemory ==
  \A mem \in Memories, a \in Word, v \in Word : StoreWord(mem, a, v) \in Memories
  BY DEF StoreWord, Memories

LEMMA LoadWordIsWord == \A mem \in Memories, a \in Word : LoadWord(mem, a) \in Word
  BY CellOf DEF LoadWord, Memories

-----------------------------------------------------------------------------
(* Products and quotients.                                                 *)

\* A product taken in double words has the same two halves.
LEMMA ProductHalves ==
  ASSUME NEW p \in Int
  PROVE  /\ (p % (Size * Size)) \div Size = Wrap(p \div Size)
         /\ (p % (Size * Size)) % Size = Wrap(p)
         /\ Wrap(p \div Size) \in Word /\ Wrap(p) \in Word
<1> DEFINE S == Size
           q == p \div S
           r == p % S
           h == q \div S
           l == q % S
<1>1. S \in Nat \ {0}
  BY Sizes
<1>2. q \in Int /\ r \in 0 .. S - 1 /\ p = S * q + r
  BY <1>1, Division
<1>3. h \in Int /\ l \in 0 .. S - 1 /\ q = S * h + l
  BY <1>1, <1>2, Division
<1> HIDE DEF S, q, r, h, l
<1>4. S * S \in Nat \ {0}
  <2>1. S * S >= S * 1
    BY <1>1
  <2> QED
    BY <1>1, <2>1
<1>5. p = (S * S) * h + (S * l + r)
  BY <1>1, <1>2, <1>3
<1>6. S * l + r \in 0 .. (S * S) - 1
  <2>1. S * l >= 0 /\ S * l <= S * (S - 1) /\ S * (S - 1) = S * S - S /\ S * l \in Int
    BY <1>1, <1>3
  <2> QED
    BY <1>1, <1>2, <1>4, <2>1
<1>7. p % (S * S) = S * l + r
  <2> DEFINE n == S * S
             k == S * l + r
  <2> HIDE DEF n, k
  <2>1. (n * h + k) % n = k
    BY <1>3, <1>4, <1>6, DivisionIs DEF n, k
  <2> QED
    BY <1>5, <2>1 DEF n, k
<1>8. (S * l + r) \div S = l /\ (S * l + r) % S = r
  BY <1>1, <1>2, <1>3, DivisionIs
<1>9. Wrap(q) \in Word /\ Wrap(p) \in Word
  BY <1>2, WrapIsWord
<1>10. Wrap(q) = l /\ Wrap(p) = r
  BY DEF Wrap, l, r, S
<1> QED
  BY <1>7, <1>8, <1>9, <1>10 DEF S, q

LEMMA QuotientOfInts ==
  ASSUME NEW n \in Int, NEW d \in Int, d # 0
  PROVE  Quot(n, d) \in Int /\ Rem(n, d) \in Int
<1>1. Abs(n) \in Nat /\ Abs(d) \in Nat \ {0}
  BY DEF Abs
<1>2. Abs(n) \div Abs(d) \in Int
  BY <1>1, Division
<1>3. Quot(n, d) \in Int
  BY <1>2 DEF Quot
<1> QED
  BY <1>3 DEF Rem

LEMMA QuotientOfNats ==
  ASSUME NEW n \in Word, NEW d \in Word, d # 0
  PROVE  Wrap(Quot(n, d)) = n \div d /\ Wrap(Rem(n, d)) = n % d
<1>1. n \in Nat /\ d \in Nat \ {0} /\ ~(n < 0) /\ ~(d < 0)
  BY Sizes DEF Word
<1>2. Quot(n, d) = n \div d
  BY <1>1 DEF Quot, Abs
<1>3. n \div d \in Int /\ n = d * (n \div d) + (n % d) /\ n % d \in Int
  <2>1. n \div d \in Int /\ n % d \in 0 .. d - 1 /\ n = d * (n \div d) + (n % d)
    <3>1. n \in Int
      BY <1>1
    <3> QED
      BY <1>1, <3>1, Division, Zenon
  <2>2. n % d \in Int
    BY <1>1, <2>1
  <2> QED
    BY <2>1, <2>2
<1>4. Rem(n, d) = n % d
  <2> DEFINE q == d * (n \div d)
             m == n % d
  <2>1. Rem(n, d) = n - q
    BY <1>2 DEF Rem
  <2>2. n = q + m /\ q \in Int /\ m \in Int
    BY <1>1, <1>3
  <2> HIDE DEF q, m
  <2>3. n - q = m
    BY <2>2
  <2> QED
    BY <2>1, <2>3 DEF m
<1>5. n \div d \in 0 .. n /\ n % d \in 0 .. n
  BY <1>1, QuotientSmaller
<1>6. n \div d \in Word /\ n % d \in Word
  BY <1>1, <1>5, Sizes DEF Word
<1> QED
  BY <1>2, <1>4, <1>6, WrapOfWord

-----------------------------------------------------------------------------
(* The status and the cause register.                                      *)

Entered(sr) == (sr - (sr % ModeMask)) + ((4 * sr) % ModeMask)
Returned(sr) == (sr - (sr % 16)) + ((sr % ModeMask) \div 4)

LEMMA StatusWord ==
  ASSUME NEW sr \in Word
  PROVE  /\ Entered(sr) \in Word /\ Returned(sr) \in Word
         /\ IsBoot(Entered(sr)) = IsBoot(sr)
<1>1. PICK q \in Nat \ {0} : Size = 256 * q
  BY Sizes
<1>2. sr \in Nat /\ sr <= 256 * q - 1
  BY <1>1 DEF Word
<1>3. Entered(sr) \in Nat /\ Entered(sr) <= 256 * q - 1
  BY <1>1, <1>2 DEF Entered, ModeMask
<1>4. Returned(sr) \in Nat /\ Returned(sr) <= 256 * q - 1
  BY <1>1, <1>2 DEF Returned, ModeMask
<1>5. Entered(sr) \div 128 = sr \div 128
  BY <1>2 DEF Entered, ModeMask
<1> QED
  BY <1>1, <1>3, <1>4, <1>5 DEF Word, IsBoot

LEMMA CauseWord ==
  ASSUME NEW c \in Word, NEW v \in Word
  PROVE  /\ (c - (c % CauseSoftware)) + (v % CauseSoftware) \in Word
         /\ \A code \in 0 .. 12 : (c % CauseSoftware) + 4 * code \in Word
<1>1. PICK q \in Nat \ {0} : Size = 256 * q
  BY Sizes
<1>2. c \in Nat /\ c <= 256 * q - 1 /\ v \in Nat
  BY <1>1 DEF Word
<1> QED
  BY <1>1, <1>2 DEF CauseSoftware, Word

-----------------------------------------------------------------------------
(* The two machines, instruction by instruction.                           *)

IsRef(s) ==
    s \in [ r : [Reg -> Word], hi : Word, lo : Word, pc : Word, sr : Word, cause : Word,
            epc : Word, baddr : Word, load : Reg \X Word, next_pc : Word, current_pc : Word,
            branch : BOOLEAN, delay_slot : BOOLEAN, interrupt : BOOLEAN, mem : Memories,
            gd : Word, gc : Word ]
IsJit(j) ==
    j \in [ v : [Var -> Word], regs : SUBSET Var, delayed_load : {None} \cup (Reg \X Word),
            i : Nat, addr : Word, delay_slot : BOOLEAN, m : [Var -> Word], mem : Memories,
            gd : Word, gc : Word, done : BOOLEAN, cycles : Nat ]

\* The interpreter s and the compiled code j hold the same machine: the general
\* registers X, the others, memory and the coprocessor; a variable the block has
\* not loaded is as it is in the Registers.
Same(s, j, X) ==
    /\ IsRef(s) /\ IsJit(j)
    /\ s.r[0] = 0 /\ j.v[0] = 0
    /\ \A x \in X : s.r[x] = j.v[x]
    /\ s.hi = j.v[REG_HI] /\ s.lo = j.v[REG_LO]
    /\ s.sr = j.v[REG_SR] /\ s.cause = j.v[REG_CAUSE]
    /\ s.epc = j.v[REG_EPC] /\ s.baddr = j.v[REG_BADDR]
    /\ s.mem = j.mem /\ s.gd = j.gd /\ s.gc = j.gc
    /\ s.delay_slot = j.delay_slot
    /\ \A x \in Var : x \notin j.regs => j.v[x] = j.m[x]
    /\ j.m[REG_LOAD_REG] \in Reg

\* No load is pending.
Quiet(s, j) ==
    s.load = <<0, 0>> /\ j.v[REG_LOAD_REG] = 0 /\ REG_LOAD_REG \in j.regs
Empty(s, j) == Quiet(s, j) /\ j.delayed_load = None

\* The load the block was entered with is delivered already; if it is delivered
\* again, with the delay slot of a jump at index 0, registers Y keep their value.
Delivered(j, Y) ==
    LET reg == j.m[REG_LOAD_REG]
    IN j.i = 0 /\ reg # 0 /\ reg \in Y => j.v[reg] = j.m[REG_LOAD_VAL]

\* The load the block was entered with is still pending.
Fresh(s, j) ==
    /\ j.i = 0 /\ j.delayed_load = None
    /\ s.load = <<j.m[REG_LOAD_REG], j.m[REG_LOAD_VAL]>>

\* A load of the block is pending; a load of register 0 is none.
InFlight(s, j) ==
    /\ j.delayed_load # None
    /\ s.load[1] = j.delayed_load[1]
    /\ s.load[1] # 0 => s.load[2] = j.delayed_load[2]
    /\ j.delayed_load[1] \in j.regs /\ REG_LOAD_REG \in j.regs

\* The pending load, as it is before an instruction ...
Ready(s, j, Y) ==
    \/ Fresh(s, j)
    \/ Empty(s, j) /\ Delivered(j, Y)
    \/ j.i # 0 /\ InFlight(s, j) /\ j.v[REG_LOAD_REG] = 0
\* ... and after it.
Held(s, j) ==
    \/ Empty(s, j)
    \/ InFlight(s, j) /\ j.v[REG_LOAD_REG] \in {0, j.delayed_load[1]}

\* What an instruction that is no jump leaves alone.
SteadyRef(s, t) ==
    /\ t.pc = s.pc /\ t.next_pc = s.next_pc /\ t.current_pc = s.current_pc
    /\ t.branch = s.branch /\ t.delay_slot = s.delay_slot /\ t.interrupt = s.interrupt
SteadyJit(j, k) ==
    /\ k.i = j.i /\ k.addr = j.addr /\ k.delay_slot = j.delay_slot
    /\ k.done = j.done /\ k.cycles = j.cycles /\ j.regs \subseteq k.regs

LEMMA VarFacts ==
  /\ Reg \subseteq Var /\ Reg \subseteq 0 .. 31 /\ 0 \in Reg /\ 31 \in Reg /\ Reg \subseteq Word
  /\ {32, 33, 34, 35, 36, 37, 38, 39, 40} \subseteq Var
  /\ NoReg \notin Reg
<1>1. Reg \subseteq 0 .. 31 /\ 0 \in Reg /\ 31 \in Reg
  BY CpuAssumption
<1>2. {32, 33, 34, 35, 36, 37, 38, 39, 40} \subseteq Var
  BY DEF Var, REG_HI, REG_LOAD_VAL
<1> QED
  BY <1>1, <1>2, Sizes DEF Var, Word, NoReg

USE DEF REG_HI, REG_LO, REG_PC, REG_SR, REG_CAUSE, REG_EPC, REG_BADDR, REG_LOAD_REG,
        REG_LOAD_VAL, NoReg

\* What the code of the first instruction does with a load pending at the entry.
LEMMA CheckedEntry ==
  ASSUME NEW j, IsJit(j), j.m[REG_LOAD_REG] \in Reg, NEW current
  PROVE  LET k == CheckForLoadInRegs(j, current)
             reg == j.m[REG_LOAD_REG]
             val == j.m[REG_LOAD_VAL]
         IN /\ IsJit(k) /\ SteadyJit(j, k)
            /\ k.mem = j.mem /\ k.gd = j.gd /\ k.gc = j.gc /\ k.delayed_load = j.delayed_load
            /\ j.i # 0 => k = j
            /\ j.i = 0 => REG_LOAD_REG \in k.regs
            /\ k.m[REG_LOAD_REG] = reg /\ k.m[REG_LOAD_VAL] = val
            /\ \A x \in 32 .. 38 : k.v[x] = j.v[x] /\ k.m[x] = j.m[x]
            /\ j.i = 0 /\ (reg = 0 \/ reg = current) =>
                  /\ k.v[REG_LOAD_REG] = reg
                  /\ \A x \in Reg : k.v[x] = j.v[x] /\ k.m[x] = j.m[x]
            /\ j.i = 0 /\ ~(reg = 0 \/ reg = current) =>
                  /\ k.v[REG_LOAD_REG] = 0
                  /\ k.v[reg] = val /\ k.m[reg] = val
                  /\ \A x \in Reg : x # reg => k.v[x] = j.v[x] /\ k.m[x] = j.m[x]
            /\ (\A x \in Var : x \notin j.regs => j.v[x] = j.m[x])
               => \A x \in Var : x \notin k.regs => k.v[x] = k.m[x]
<1> DEFINE k == CheckForLoadInRegs(j, current)
           reg == j.m[REG_LOAD_REG]
           val == j.m[REG_LOAD_VAL]
           e == [j EXCEPT !.v[REG_LOAD_REG] = reg, !.v[REG_LOAD_VAL] = val,
                          !.regs = @ \cup {REG_LOAD_REG}]
           f == [e EXCEPT !.v[reg] = val, !.v[REG_LOAD_REG] = 0, !.m[reg] = val]
<1>1. /\ reg \in Reg /\ reg \in Word /\ val \in Word /\ reg \in Var /\ 0 \in Word
      /\ REG_LOAD_REG \in Var /\ REG_LOAD_VAL \in Var
      /\ reg \in 0 .. 31
  BY VarFacts DEF IsJit
<1>2. j.i # 0 => k = j
  BY DEF CheckForLoadInRegs
<1>3. j.i = 0 /\ (reg = 0 \/ reg = current) => k = e
  BY DEF CheckForLoadInRegs
<1>4. j.i = 0 /\ ~(reg = 0 \/ reg = current) => k = f
  BY DEF CheckForLoadInRegs
<1>5. j.i \in Nat
  BY DEF IsJit
<1> HIDE DEF k, reg, val
<1>6. CASE j.i # 0
  <2>1. k = j
    BY <1>2, <1>6
  <2> QED
    BY <1>6, <2>1 DEF k, reg, val, SteadyJit
<1>7. /\ IsJit(e) /\ e.regs = j.regs \cup {REG_LOAD_REG} /\ e.m = j.m
      /\ e.v[REG_LOAD_REG] = reg /\ e.v[REG_LOAD_VAL] = val
      /\ \A x \in Var : x # REG_LOAD_REG /\ x # REG_LOAD_VAL => e.v[x] = j.v[x]
      /\ SteadyJit(j, e)
      /\ e.mem = j.mem /\ e.gd = j.gd /\ e.gc = j.gc /\ e.delayed_load = j.delayed_load
  <2>1. /\ e.v = [j.v EXCEPT ![REG_LOAD_REG] = reg, ![REG_LOAD_VAL] = val]
        /\ e.regs = j.regs \cup {REG_LOAD_REG} /\ e.m = j.m
        /\ e.mem = j.mem /\ e.gd = j.gd /\ e.gc = j.gc /\ e.delayed_load = j.delayed_load
        /\ e.i = j.i /\ e.addr = j.addr /\ e.delay_slot = j.delay_slot
        /\ e.done = j.done /\ e.cycles = j.cycles
    BY DEF IsJit
  <2>2. j.v \in [Var -> Word] /\ j.regs \subseteq Var
    BY DEF IsJit
  <2> DEFINE w == [j.v EXCEPT ![REG_LOAD_REG] = reg, ![REG_LOAD_VAL] = val]
             R == j.regs \cup {REG_LOAD_REG}
  <2>3. /\ w \in [Var -> Word] /\ R \in SUBSET Var
        /\ w[REG_LOAD_REG] = reg /\ w[REG_LOAD_VAL] = val
        /\ \A x \in Var : x # REG_LOAD_REG /\ x # REG_LOAD_VAL => w[x] = j.v[x]
    BY <1>1, <2>2
  <2>4. e = [j EXCEPT !.v = w, !.regs = R]
    BY DEF IsJit
  <2> HIDE DEF w, R
  <2>5. IsJit([j EXCEPT !.v = w, !.regs = R])
    BY <2>3 DEF IsJit
  <2>6. IsJit(e)
    BY <2>4, <2>5
  <2> HIDE DEF e
  <2> QED
    BY <2>1, <2>3, <2>6 DEF w, SteadyJit
<1>8. CASE j.i = 0 /\ (reg = 0 \/ reg = current)
  <2>1. k = e
    BY <1>3, <1>8
  <2> HIDE DEF e
  <2>2. \A x \in Reg \cup 32 .. 38 : e.v[x] = j.v[x] /\ x \in Var
    BY <1>7, VarFacts
  <2>3. (\A x \in Var : x \notin j.regs => j.v[x] = j.m[x])
        => \A x \in Var : x \notin e.regs => e.v[x] = e.m[x]
    BY <1>1, <1>7 DEF val
  <2> QED
    BY <1>1, <1>7, <1>8, <2>1, <2>2, <2>3 DEF k, reg, val
<1> HIDE DEF e
<1>9. CASE j.i = 0 /\ ~(reg = 0 \/ reg = current)
  <2>1. k = f
    BY <1>4, <1>9
  <2>2. /\ IsJit(f) /\ f.regs = e.regs
        /\ f.v[REG_LOAD_REG] = 0 /\ f.v[reg] = val /\ f.m[reg] = val
        /\ \A x \in Var : x # REG_LOAD_REG /\ x # reg => f.v[x] = e.v[x]
        /\ \A x \in Var : x # reg => f.m[x] = e.m[x]
        /\ SteadyJit(e, f)
        /\ f.mem = e.mem /\ f.gd = e.gd /\ f.gc = e.gc /\ f.delayed_load = e.delayed_load
    <3>1. /\ f.v = [e.v EXCEPT ![reg] = val, ![REG_LOAD_REG] = 0]
          /\ f.m = [e.m EXCEPT ![reg] = val]
          /\ f.regs = e.regs
          /\ f.mem = e.mem /\ f.gd = e.gd /\ f.gc = e.gc /\ f.delayed_load = e.delayed_load
          /\ f.i = e.i /\ f.addr = e.addr /\ f.delay_slot = e.delay_slot
          /\ f.done = e.done /\ f.cycles = e.cycles
      BY <1>7 DEF IsJit
    <3>2. e.v \in [Var -> Word] /\ e.m \in [Var -> Word]
      BY <1>7 DEF IsJit
    <3> DEFINE w == [e.v EXCEPT ![reg] = val, ![REG_LOAD_REG] = 0]
               u == [e.m EXCEPT ![reg] = val]
    <3>3. /\ w \in [Var -> Word] /\ u \in [Var -> Word]
          /\ w[REG_LOAD_REG] = 0 /\ w[reg] = val /\ u[reg] = val
          /\ \A x \in Var : x # REG_LOAD_REG /\ x # reg => w[x] = e.v[x]
          /\ \A x \in Var : x # reg => u[x] = e.m[x]
      BY <1>1, <3>2
    <3>4. f = [e EXCEPT !.v = w, !.m = u]
      BY <1>7 DEF IsJit
    <3> HIDE DEF w, u
    <3>5. IsJit([e EXCEPT !.v = w, !.m = u])
      BY <1>7, <3>3 DEF IsJit
    <3>6. IsJit(f)
      BY <3>4, <3>5
    <3> HIDE DEF f
    <3> QED
      BY <3>1, <3>3, <3>6 DEF w, u, SteadyJit
  <2> HIDE DEF f
  <2>3. /\ \A x \in 32 .. 38 : f.v[x] = j.v[x] /\ f.m[x] = j.m[x]
        /\ \A x \in Reg : x # reg => f.v[x] = j.v[x] /\ f.m[x] = j.m[x]
    BY <1>1, <1>7, <2>2, VarFacts
  <2>4. (\A x \in Var : x \notin j.regs => j.v[x] = j.m[x])
        => \A x \in Var : x \notin f.regs => f.v[x] = f.m[x]
    <3> SUFFICES ASSUME \A x \in Var : x \notin j.regs => j.v[x] = j.m[x],
                        NEW x \in Var, x \notin f.regs
                 PROVE  f.v[x] = f.m[x]
      OBVIOUS
    <3>1. x \notin e.regs /\ x # REG_LOAD_REG
      BY <1>7, <2>2
    <3>2. CASE x = reg
      BY <2>2, <3>2
    <3>3. CASE x # reg
      <4>1. f.v[x] = e.v[x] /\ f.m[x] = e.m[x]
        BY <2>2, <3>1, <3>3
      <4> HIDE DEF e, f, reg
      <4> QED
        BY <1>1, <1>7, <3>1, <4>1 DEF val
    <3> QED
      BY <3>2, <3>3
  <2>5. SteadyJit(j, f)
    BY <1>7, <2>2 DEF SteadyJit
  <2>6. f.m[REG_LOAD_REG] = reg /\ f.m[REG_LOAD_VAL] = val /\ REG_LOAD_REG \in f.regs
    BY <1>1, <1>7, <2>2 DEF reg, val
  <2> QED
    BY <1>7, <1>9, <2>1, <2>2, <2>3, <2>4, <2>5, <2>6 DEF k, reg, val
<1> QED
  BY <1>5, <1>6, <1>8, <1>9

\* What is left when a general register or the pending load changes.
RestRef(s, t) ==
    /\ t.hi = s.hi /\ t.lo = s.lo /\ t.sr = s.sr /\ t.cause = s.cause
    /\ t.epc = s.epc /\ t.baddr = s.baddr /\ t.mem = s.mem /\ t.gd = s.gd /\ t.gc = s.gc
RestJit(j, k) ==
    /\ k.mem = j.mem /\ k.gd = j.gd /\ k.gc = j.gc
    /\ \A x \in 32 .. 38 : k.v[x] = j.v[x]

LEMMA DefIs ==
  ASSUME NEW j, IsJit(j), NEW x \in Var, NEW w \in Word
  PROVE  LET k == Def(j, x, w)
         IN /\ IsJit(k) /\ SteadyJit(j, k) /\ k.regs = j.regs /\ k.m = j.m
            /\ k.mem = j.mem /\ k.gd = j.gd /\ k.gc = j.gc /\ k.delayed_load = j.delayed_load
            /\ k.v[x] = w /\ \A y \in Var : y # x => k.v[y] = j.v[y]
<1> DEFINE u == [j.v EXCEPT ![x] = w]
<1>1. Def(j, x, w) = [j EXCEPT !.v = u]
  BY DEF Def, IsJit
<1>2. j.v \in [Var -> Word]
  BY DEF IsJit
<1>3. u \in [Var -> Word] /\ u[x] = w /\ \A y \in Var : y # x => u[y] = j.v[y]
  BY <1>2
<1> HIDE DEF u
<1> DEFINE k == [j EXCEPT !.v = u]
<1>4. IsJit(k)
  BY <1>3 DEF IsJit
<1>5. /\ k.v = u /\ k.regs = j.regs /\ k.m = j.m
      /\ k.mem = j.mem /\ k.gd = j.gd /\ k.gc = j.gc /\ k.delayed_load = j.delayed_load
      /\ SteadyJit(j, k)
  BY DEF IsJit, SteadyJit
<1> HIDE DEF k
<1> QED
  BY <1>1, <1>3, <1>4, <1>5 DEF k

LEMMA LoadIs ==
  ASSUME NEW j, IsJit(j), NEW d \in {None} \cup (Reg \X Word)
  PROVE  LET k == [j EXCEPT !.delayed_load = d]
         IN /\ IsJit(k) /\ SteadyJit(j, k) /\ k.regs = j.regs /\ k.m = j.m /\ k.v = j.v
            /\ k.mem = j.mem /\ k.gd = j.gd /\ k.gc = j.gc /\ k.delayed_load = d
BY DEF IsJit, SteadyJit

LEMMA SetRegIs ==
  ASSUME NEW s, IsRef(s), s.r[0] = 0, NEW x \in Reg, NEW w \in Word
  PROVE  LET t == SetReg(s, x, w)
         IN /\ IsRef(t) /\ SteadyRef(s, t) /\ RestRef(s, t) /\ t.load = s.load
            /\ t.r[0] = 0 /\ t.r[x] = (IF x = 0 THEN 0 ELSE w)
            /\ \A y \in Reg : y # x => t.r[y] = s.r[y]
<1> DEFINE e == IF x = 0 THEN 0 ELSE w
           u == [s.r EXCEPT ![x] = e]
<1>1. SetReg(s, x, w) = [s EXCEPT !.r = u]
  BY DEF SetReg, IsRef
<1>2. s.r \in [Reg -> Word] /\ e \in Word /\ 0 \in Reg
  BY VarFacts DEF IsRef
<1>3. u \in [Reg -> Word] /\ u[x] = e /\ u[0] = 0 /\ \A y \in Reg : y # x => u[y] = s.r[y]
  BY <1>2
<1> DEFINE t == [s EXCEPT !.r = u]
<1> HIDE DEF u
<1>4. IsRef(t)
  BY <1>3 DEF IsRef
<1>5. t.r = u /\ SteadyRef(s, t) /\ RestRef(s, t) /\ t.load = s.load
  BY DEF IsRef, SteadyRef, RestRef
<1> HIDE DEF t
<1> QED
  BY <1>1, <1>3, <1>4, <1>5 DEF t

LEMMA LoadOfRefIs ==
  ASSUME NEW s, IsRef(s), NEW d \in Reg \X Word
  PROVE  LET t == [s EXCEPT !.load = d]
         IN IsRef(t) /\ SteadyRef(s, t) /\ RestRef(s, t) /\ t.load = d /\ t.r = s.r
BY DEF IsRef, SteadyRef, RestRef

\* The pending load of the interpreter reaches its register.
LEMMA DelayedLoadIs ==
  ASSUME NEW s, IsRef(s), s.r[0] = 0
  PROVE  LET t == DelayedLoad(s)
         IN /\ IsRef(t) /\ SteadyRef(s, t) /\ RestRef(s, t) /\ t.load = <<0, 0>>
            /\ t.r[0] = 0
            /\ s.load[1] # 0 => t.r[s.load[1]] = s.load[2]
            /\ \A y \in Reg : y # s.load[1] => t.r[y] = s.r[y]
            /\ s.load[1] \in Reg /\ s.load[2] \in Word
<1> DEFINE x == s.load[1]
           w == s.load[2]
           e == SetReg(s, x, w)
           zero == <<0, 0>>
<1>1. x \in Reg /\ w \in Word
  BY DEF IsRef
<1>2. DelayedLoad(s) = [e EXCEPT !.load = zero]
  BY DEF DelayedLoad
<1> HIDE DEF x, w
<1>3. /\ IsRef(e) /\ SteadyRef(s, e) /\ RestRef(s, e)
      /\ e.r[0] = 0 /\ e.r[x] = (IF x = 0 THEN 0 ELSE w)
      /\ \A y \in Reg : y # x => e.r[y] = s.r[y]
  BY <1>1, SetRegIs
<1>4. zero \in Reg \X Word
  BY VarFacts, Sizes DEF Word
<1> HIDE DEF e, zero
<1> DEFINE t == [e EXCEPT !.load = zero]
<1>5. IsRef(t) /\ SteadyRef(e, t) /\ RestRef(e, t) /\ t.load = zero /\ t.r = e.r
  BY <1>3, <1>4, LoadOfRefIs
<1> HIDE DEF t
<1>6. SteadyRef(s, t) /\ RestRef(s, t)
  BY <1>3, <1>5 DEF SteadyRef, RestRef
<1> QED
  BY <1>1, <1>2, <1>3, <1>5, <1>6 DEF t, zero, x, w

\* ... unless the next load of the same register takes its place.
LEMMA DelayedLoadChainIs ==
  ASSUME NEW s, IsRef(s), s.r[0] = 0, NEW reg \in Reg, NEW v \in Word
  PROVE  LET t == DelayedLoadChain(s, reg, v)
         IN /\ IsRef(t) /\ SteadyRef(s, t) /\ RestRef(s, t) /\ t.load = <<reg, v>>
            /\ t.r[0] = 0
            /\ s.load[1] # 0 /\ s.load[1] # reg => t.r[s.load[1]] = s.load[2]
            /\ s.load[1] = reg => t.r = s.r
            /\ \A y \in Reg : y # s.load[1] => t.r[y] = s.r[y]
            /\ s.load[1] \in Reg /\ s.load[2] \in Word
<1> DEFINE x == s.load[1]
           w == s.load[2]
           e == IF x # reg THEN SetReg(s, x, w) ELSE s
           d == <<reg, v>>
<1>1. x \in Reg /\ w \in Word
  BY DEF IsRef
<1>2. DelayedLoadChain(s, reg, v) = [e EXCEPT !.load = d]
  BY DEF DelayedLoadChain
<1> HIDE DEF x, w
<1>3. /\ IsRef(e) /\ SteadyRef(s, e) /\ RestRef(s, e)
      /\ e.r[0] = 0 /\ (x # 0 /\ x # reg => e.r[x] = w)
      /\ (x = reg => e.r = s.r)
      /\ \A y \in Reg : y # x => e.r[y] = s.r[y]
  <2>1. CASE x = reg
    BY <2>1 DEF SteadyRef, RestRef
  <2>2. CASE x # reg
    <3> DEFINE g == SetReg(s, x, w)
    <3>1. e = g
      BY <2>2
    <3>2. /\ IsRef(g) /\ SteadyRef(s, g) /\ RestRef(s, g) /\ g.r[0] = 0
          /\ g.r[x] = (IF x = 0 THEN 0 ELSE w)
          /\ \A y \in Reg : y # x => g.r[y] = s.r[y]
      BY <1>1, SetRegIs
    <3> HIDE DEF e, g
    <3> QED
      BY <2>2, <3>1, <3>2
  <2> QED
    BY <2>1, <2>2
<1>4. d \in Reg \X Word
  OBVIOUS
<1> HIDE DEF e, d
<1> DEFINE t == [e EXCEPT !.load = d]
<1>5. IsRef(t) /\ SteadyRef(e, t) /\ RestRef(e, t) /\ t.load = d /\ t.r = e.r
  BY <1>3, <1>4, LoadOfRefIs
<1> HIDE DEF t
<1>6. SteadyRef(s, t) /\ RestRef(s, t)
  BY <1>3, <1>5 DEF SteadyRef, RestRef
<1> QED
  BY <1>1, <1>2, <1>3, <1>5, <1>6 DEF t, d, x, w

LEMMA CommitIs ==
  ASSUME NEW c, IsJit(c), c.v[0] = 0, NEW d \in {None} \cup (Reg \X Word)
  PROVE  LET k == Commit(c, d)
         IN /\ IsJit(k) /\ SteadyJit(c, k) /\ k.regs = c.regs /\ k.m = c.m
            /\ k.mem = c.mem /\ k.gd = c.gd /\ k.gc = c.gc /\ k.delayed_load = c.delayed_load
            /\ k.v[0] = 0
            /\ d = None => k = c
            /\ d # None => /\ d[1] \in Reg /\ d[2] \in Word
                           /\ d[1] # 0 => k.v[d[1]] = d[2]
                           /\ \A y \in Var : y # d[1] => k.v[y] = c.v[y]
<1>1. CASE d = None
  BY <1>1 DEF Commit, SteadyJit
<1>2. CASE d # None
  <2> DEFINE x == d[1]
             w == d[2]
  <2>1. x \in Reg /\ x \in Var /\ w \in Word /\ 0 \in Var
    BY <1>2, VarFacts
  <2>2. Commit(c, d) = DefReg(c, x, w)
    BY <1>2 DEF Commit
  <2> HIDE DEF x, w
  <2> DEFINE k == DefReg(c, x, w)
  <2>3. /\ IsJit(k) /\ SteadyJit(c, k) /\ k.regs = c.regs /\ k.m = c.m
        /\ k.mem = c.mem /\ k.gd = c.gd /\ k.gc = c.gc /\ k.delayed_load = c.delayed_load
        /\ k.v[0] = 0 /\ (x # 0 => k.v[x] = w)
        /\ \A y \in Var : y # x => k.v[y] = c.v[y]
    <3>1. CASE x = 0
      BY <3>1 DEF DefReg, SteadyJit
    <3>2. CASE x # 0
      <4>1. k = Def(c, x, w)
        BY <3>2 DEF DefReg
      <4> HIDE DEF k
      <4> QED
        BY <2>1, <3>2, <4>1, DefIs
    <3> QED
      BY <3>1, <3>2
  <2> HIDE DEF k
  <2> QED
    BY <1>2, <2>1, <2>2, <2>3 DEF k, x, w
<1> QED
  BY <1>1, <1>2

LEMMA CompileDelayedLoadIs ==
  ASSUME NEW j, IsJit(j), j.v[0] = 0, j.m[REG_LOAD_REG] \in Reg, NEW clear \in BOOLEAN,
         \A x \in Var : x \notin j.regs => j.v[x] = j.m[x],
         j.delayed_load # None => j.i # 0 /\ j.delayed_load[1] \in j.regs
  PROVE  LET k == CompileDelayedLoad(j, clear)
             d == j.delayed_load
             reg == j.m[REG_LOAD_REG]
             val == j.m[REG_LOAD_VAL]
         IN /\ IsJit(k) /\ SteadyJit(j, k) /\ RestJit(j, k)
            /\ k.m[REG_LOAD_REG] = reg /\ k.m[REG_LOAD_VAL] = val
            /\ k.v[0] = 0 /\ (clear => k.delayed_load = None)
            /\ \A x \in Var : x \notin k.regs => k.v[x] = k.m[x]
            /\ j.i = 0 => /\ k.v[REG_LOAD_REG] = 0 /\ REG_LOAD_REG \in k.regs
                          /\ reg # 0 => k.v[reg] = val
                          /\ \A x \in Reg : x # reg \/ reg = 0 => k.v[x] = j.v[x]
            /\ j.i # 0 /\ d = None => k.v = j.v
            /\ j.i # 0 /\ d # None => /\ d[1] # 0 => k.v[d[1]] = d[2]
                                      /\ \A x \in Reg : x # d[1] => k.v[x] = j.v[x]
            /\ j.i # 0 => k.v[REG_LOAD_REG] = j.v[REG_LOAD_REG] /\ k.regs = j.regs
<1> DEFINE c == CheckForLoadInRegs(j, NoReg)
           d == j.delayed_load
           e == Commit(c, c.delayed_load)
           left == IF clear THEN None ELSE e.delayed_load
           k == CompileDelayedLoad(j, clear)
           reg == j.m[REG_LOAD_REG]
           val == j.m[REG_LOAD_VAL]
<1>1. k = [e EXCEPT !.delayed_load = left]
  BY DEF CompileDelayedLoad
<1>2. /\ reg \in Reg /\ reg # NoReg /\ d \in {None} \cup (Reg \X Word) /\ 0 \in Reg
      /\ reg \in Var /\ 0 \in Var /\ REG_LOAD_REG \in Var /\ REG_LOAD_REG \notin Reg
      /\ reg \notin 32 .. 38 /\ 32 .. 38 \subseteq Var /\ Reg \subseteq Var
  <2>1. d \in {None} \cup (Reg \X Word)
    BY DEF IsJit
  <2> HIDE DEF d
  <2> QED
    BY <2>1, VarFacts
<1>3. /\ IsJit(c) /\ SteadyJit(j, c)
      /\ c.mem = j.mem /\ c.gd = j.gd /\ c.gc = j.gc /\ c.delayed_load = d
      /\ j.i # 0 => c = j
      /\ j.i = 0 => REG_LOAD_REG \in c.regs
      /\ c.m[REG_LOAD_REG] = reg /\ c.m[REG_LOAD_VAL] = val
      /\ \A x \in 32 .. 38 : c.v[x] = j.v[x]
      /\ j.i = 0 /\ reg = 0 => c.v[REG_LOAD_REG] = 0 /\ \A x \in Reg : c.v[x] = j.v[x]
      /\ j.i = 0 /\ reg # 0 =>
           /\ c.v[REG_LOAD_REG] = 0 /\ c.v[reg] = val
           /\ \A x \in Reg : x # reg => c.v[x] = j.v[x]
      /\ \A x \in Var : x \notin c.regs => c.v[x] = c.m[x]
  BY <1>2, CheckedEntry
<1> HIDE DEF c, k, reg, val
<1>4. c.v[0] = 0
  BY <1>2, <1>3
<1>5. /\ IsJit(e) /\ SteadyJit(c, e) /\ e.regs = c.regs /\ e.m = c.m
      /\ e.mem = c.mem /\ e.gd = c.gd /\ e.gc = c.gc /\ e.delayed_load = d
      /\ e.v[0] = 0
      /\ d = None => e = c
      /\ d # None => /\ d[1] \in Reg /\ d[2] \in Word
                     /\ d[1] # 0 => e.v[d[1]] = d[2]
                     /\ \A y \in Var : y # d[1] => e.v[y] = c.v[y]
  BY <1>2, <1>3, <1>4, CommitIs
<1> HIDE DEF e
<1>6. left \in {None} \cup (Reg \X Word) /\ (clear => left = None)
  BY <1>2, <1>5
<1> HIDE DEF left
<1>7. /\ IsJit(k) /\ SteadyJit(e, k) /\ k.regs = e.regs /\ k.m = e.m /\ k.v = e.v
      /\ k.mem = e.mem /\ k.gd = e.gd /\ k.gc = e.gc /\ k.delayed_load = left
  BY <1>1, <1>5, <1>6, LoadIs
<1>8. SteadyJit(j, k)
  BY <1>3, <1>5, <1>7 DEF SteadyJit
<1>9. RestJit(j, k)
  <2>1. ASSUME NEW x \in 32 .. 38 PROVE k.v[x] = j.v[x]
    <3>1. d # None => x # d[1]
      BY <1>2, <1>5, VarFacts
    <3> HIDE DEF d
    <3> QED
      BY <1>2, <1>3, <1>5, <1>7, <3>1
  <2> QED
    BY <1>3, <1>5, <1>7, <2>1 DEF RestJit
<1>10. \A x \in Var : x \notin k.regs => k.v[x] = k.m[x]
  <2>1. CASE d = None
    BY <1>3, <1>5, <1>7, <2>1
  <2>2. CASE d # None
    <3>1. c = j /\ d[1] \in k.regs
      BY <1>3, <1>5, <1>7, <2>2
    <3> HIDE DEF d
    <3> QED
      BY <1>3, <1>5, <1>7, <2>2, <3>1
  <2> QED
    BY <2>1, <2>2
<1>11. j.i = 0 => d = None
  OBVIOUS
<1>12. j.i = 0 => /\ k.v[REG_LOAD_REG] = 0 /\ REG_LOAD_REG \in k.regs
                  /\ reg # 0 => k.v[reg] = val
                  /\ \A x \in Reg : x # reg \/ reg = 0 => k.v[x] = j.v[x]
  <2> HIDE DEF d
  <2> QED
    BY <1>3, <1>5, <1>7, <1>11
<1>13. j.i # 0 => k.v[REG_LOAD_REG] = j.v[REG_LOAD_REG] /\ k.regs = j.regs
  <2>1. d # None => REG_LOAD_REG # d[1]
    BY <1>2, <1>5
  <2> HIDE DEF d
  <2> QED
    BY <1>2, <1>3, <1>5, <1>7, <2>1
<1>14. /\ j.i # 0 /\ d = None => k.v = j.v
       /\ j.i # 0 /\ d # None => /\ d[1] # 0 => k.v[d[1]] = d[2]
                                 /\ \A x \in Reg : x # d[1] => k.v[x] = j.v[x]
  <2> HIDE DEF d
  <2> QED
    BY <1>2, <1>3, <1>5, <1>7
<1>15. k.m[REG_LOAD_REG] = reg /\ k.m[REG_LOAD_VAL] = val /\ k.v[0] = 0
       /\ (clear => k.delayed_load = None)
  BY <1>3, <1>5, <1>6, <1>7
<1> QED
  BY <1>7, <1>8, <1>9, <1>10, <1>12, <1>13, <1>14, <1>15 DEF k, reg, val

\* Both engines deliver the pending load.
LEMMA Deliver ==
  ASSUME NEW s, NEW j, NEW X \in SUBSET Reg, NEW Y \in SUBSET X, NEW clear \in BOOLEAN,
         Same(s, j, X), Ready(s, j, Y)
  PROVE  LET t == DelayedLoad(s)
             k == CompileDelayedLoad(j, clear)
         IN /\ Same(t, k, Y) /\ Quiet(t, k) /\ (clear => Empty(t, k)) /\ Delivered(k, Reg)
            /\ SteadyRef(s, t) /\ SteadyJit(j, k) /\ RestRef(s, t) /\ RestJit(j, k)
            /\ \A y \in Reg : y # s.load[1] => t.r[y] = s.r[y]
<1> DEFINE t == DelayedLoad(s)
           k == CompileDelayedLoad(j, clear)
           d == j.delayed_load
           reg == j.m[REG_LOAD_REG]
           val == j.m[REG_LOAD_VAL]
<1>1. /\ IsRef(s) /\ IsJit(j) /\ s.r[0] = 0 /\ j.v[0] = 0 /\ reg \in Reg
      /\ \A x \in X : s.r[x] = j.v[x]
      /\ \A x \in Var : x \notin j.regs => j.v[x] = j.m[x]
  BY DEF Same
<1>2. d # None => j.i # 0 /\ d[1] \in j.regs
  BY DEF Ready, Fresh, Empty, InFlight
<1>3. /\ IsRef(t) /\ SteadyRef(s, t) /\ RestRef(s, t) /\ t.load = <<0, 0>>
      /\ t.r[0] = 0
      /\ s.load[1] # 0 => t.r[s.load[1]] = s.load[2]
      /\ \A y \in Reg : y # s.load[1] => t.r[y] = s.r[y]
      /\ s.load[1] \in Reg /\ s.load[2] \in Word
  BY <1>1, DelayedLoadIs
<1>4. /\ IsJit(k) /\ SteadyJit(j, k) /\ RestJit(j, k)
      /\ k.m[REG_LOAD_REG] = reg /\ k.m[REG_LOAD_VAL] = val
      /\ k.v[0] = 0 /\ (clear => k.delayed_load = None)
      /\ \A x \in Var : x \notin k.regs => k.v[x] = k.m[x]
      /\ j.i = 0 => /\ k.v[REG_LOAD_REG] = 0 /\ REG_LOAD_REG \in k.regs
                    /\ reg # 0 => k.v[reg] = val
                    /\ \A x \in Reg : x # reg \/ reg = 0 => k.v[x] = j.v[x]
      /\ j.i # 0 /\ d = None => k.v = j.v
      /\ j.i # 0 /\ d # None => /\ d[1] # 0 => k.v[d[1]] = d[2]
                                /\ \A x \in Reg : x # d[1] => k.v[x] = j.v[x]
      /\ j.i # 0 => k.v[REG_LOAD_REG] = j.v[REG_LOAD_REG] /\ k.regs = j.regs
  BY <1>1, <1>2, CompileDelayedLoadIs
<1> HIDE DEF t, k, reg, val
<1>5. Quiet(t, k)
  <2>1. CASE j.i = 0
    BY <1>3, <1>4, <2>1 DEF Quiet
  <2>2. CASE j.i # 0
    BY <1>3, <1>4, <2>2 DEF Quiet, Ready, Fresh, Empty, InFlight
  <2> QED
    BY <2>1, <2>2
<1>6. ASSUME NEW x \in Y PROVE t.r[x] = k.v[x]
  <2>1. x \in Reg /\ s.r[x] = j.v[x]
    BY <1>1
  <2>2. CASE x = 0
    BY <1>3, <1>4, <2>2
  <2>3. CASE x # 0 /\ Fresh(s, j)
    <3>1. j.i = 0 /\ s.load[1] = reg /\ s.load[2] = val
      BY <2>3 DEF Fresh, reg, val
    <3> QED
      BY <1>3, <1>4, <2>1, <2>3, <3>1
  <2>4. CASE x # 0 /\ Empty(s, j) /\ Delivered(j, Y)
    <3>1. t.r[x] = s.r[x] /\ d = None
      BY <1>3, <2>1, <2>4 DEF Empty, Quiet
    <3>2. CASE j.i = 0
      <4>1. x = reg => j.v[x] = val
        BY <2>4, <3>2 DEF Delivered, reg, val
      <4> QED
        BY <1>4, <2>1, <2>4, <3>1, <3>2, <4>1
    <3>3. CASE j.i # 0
      BY <1>4, <2>1, <3>1, <3>3
    <3> QED
      BY <3>2, <3>3
  <2>5. CASE x # 0 /\ j.i # 0 /\ InFlight(s, j)
    <3>1. d # None /\ s.load[1] = d[1] /\ (s.load[1] # 0 => s.load[2] = d[2])
      BY <2>5 DEF InFlight
    <3> HIDE DEF d
    <3> QED
      BY <1>3, <1>4, <2>1, <2>5, <3>1
  <2> QED
    BY <2>2, <2>3, <2>4, <2>5 DEF Ready
<1>7. Same(t, k, Y)
  <2>1. /\ t.hi = k.v[REG_HI] /\ t.lo = k.v[REG_LO]
        /\ t.sr = k.v[REG_SR] /\ t.cause = k.v[REG_CAUSE]
        /\ t.epc = k.v[REG_EPC] /\ t.baddr = k.v[REG_BADDR]
        /\ t.mem = k.mem /\ t.gd = k.gd /\ t.gc = k.gc
        /\ t.delay_slot = k.delay_slot
    BY <1>3, <1>4 DEF Same, RestRef, RestJit, SteadyRef, SteadyJit
  <2> QED
    BY <1>1, <1>3, <1>4, <1>6, <2>1 DEF Same
<1>8. Delivered(k, Reg)
  BY <1>4 DEF Delivered, SteadyJit
<1> QED
  BY <1>3, <1>4, <1>5, <1>7, <1>8 DEF t, k, Empty

-----------------------------------------------------------------------------
(* What an instruction does when it raises no exception.                   *)

\* The instruction n leads from s and j to t and k.
Ran(s, j, t, k, Y, n) ==
    /\ Same(t, k, Y) /\ Held(t, k) /\ SteadyRef(s, t) /\ SteadyJit(j, k)
    /\ \/ k.v[REG_LOAD_REG] = 0
       \/ /\ j.i = 0 /\ n.op \in LoadOps
          /\ j.m[REG_LOAD_REG] = n.rt /\ k.v[REG_LOAD_REG] = n.rt
    /\ \A y \in Reg : y \notin {n.rt, n.rd, s.load[1]} => t.r[y] = s.r[y]

\* Setting a register of both.
BothSet(t, k, u, l, Y, x) ==
    /\ Same(u, l, Y \cup {x}) /\ Empty(u, l)
    /\ SteadyRef(t, u) /\ SteadyJit(k, l) /\ l.m = k.m
    /\ \A y \in Reg : y # x => u.r[y] = t.r[y] /\ l.v[y] = k.v[y]

LEMMA SetSame ==
  ASSUME NEW t, NEW k, NEW Y, Y \subseteq Reg, Same(t, k, Y), Empty(t, k),
         NEW x \in Reg, x \in k.regs, NEW w \in Word
  PROVE  BothSet(t, k, SetReg(t, x, w), DefReg(k, x, w), Y, x)
<1> DEFINE u == SetReg(t, x, w)
           l == DefReg(k, x, w)
<1>1. /\ IsRef(t) /\ IsJit(k) /\ t.r[0] = 0 /\ k.v[0] = 0 /\ k.m[REG_LOAD_REG] \in Reg
      /\ \A y \in Y : t.r[y] = k.v[y]
      /\ \A y \in Var : y \notin k.regs => k.v[y] = k.m[y]
  BY DEF Same
<1>2. /\ IsRef(u) /\ SteadyRef(t, u) /\ RestRef(t, u) /\ u.load = t.load
      /\ u.r[0] = 0 /\ u.r[x] = (IF x = 0 THEN 0 ELSE w)
      /\ \A y \in Reg : y # x => u.r[y] = t.r[y]
  BY <1>1, SetRegIs
<1>3. x \in Var /\ 0 \in Var /\ Reg \subseteq Var /\ x \notin 32 .. 40
  BY VarFacts
<1>4. /\ IsJit(l) /\ SteadyJit(k, l) /\ l.regs = k.regs /\ l.m = k.m
      /\ l.mem = k.mem /\ l.gd = k.gd /\ l.gc = k.gc /\ l.delayed_load = k.delayed_load
      /\ l.v[0] = 0 /\ l.v[x] = (IF x = 0 THEN 0 ELSE w)
      /\ \A y \in Var : y # x => l.v[y] = k.v[y]
  <2>1. CASE x = 0
    BY <1>1, <2>1 DEF DefReg, SteadyJit
  <2>2. CASE x # 0
    <3>1. l = Def(k, x, w)
      BY <2>2 DEF DefReg
    <3> HIDE DEF l
    <3> QED
      BY <1>1, <1>3, <2>2, <3>1, DefIs
  <2> QED
    BY <2>1, <2>2
<1> HIDE DEF u, l
<1>5. \A y \in 32 .. 40 : y \in Var /\ l.v[y] = k.v[y]
  BY <1>3, <1>4, VarFacts
<1>6. Same(u, l, Y \cup {x})
  <2>1. /\ u.hi = l.v[REG_HI] /\ u.lo = l.v[REG_LO]
        /\ u.sr = l.v[REG_SR] /\ u.cause = l.v[REG_CAUSE]
        /\ u.epc = l.v[REG_EPC] /\ u.baddr = l.v[REG_BADDR]
        /\ u.mem = l.mem /\ u.gd = l.gd /\ u.gc = l.gc
        /\ u.delay_slot = l.delay_slot
    BY <1>2, <1>4, <1>5 DEF Same, RestRef, SteadyRef, SteadyJit
  <2>2. \A y \in Y \cup {x} : u.r[y] = l.v[y]
    BY <1>1, <1>2, <1>3, <1>4
  <2>3. \A y \in Var : y \notin l.regs => l.v[y] = l.m[y]
    BY <1>1, <1>4
  <2> QED
    BY <1>1, <1>2, <1>4, <2>1, <2>2, <2>3 DEF Same
<1>7. Empty(u, l)
  BY <1>2, <1>4, <1>5 DEF Empty, Quiet
<1>8. BothSet(t, k, u, l, Y, x)
  BY <1>2, <1>4, <1>6, <1>7, VarFacts DEF BothSet
<1> QED
  BY <1>8 DEF u, l

\* Setting something else of both.
LEMMA OtherSame ==
  ASSUME NEW t, NEW k, NEW Y \in SUBSET Reg, Same(t, k, Y), Empty(t, k),
         NEW u, NEW l, IsRef(u), IsJit(l),
         u.r = t.r, u.load = t.load, SteadyRef(t, u), SteadyJit(k, l),
         l.regs = k.regs, l.m = k.m, l.delayed_load = k.delayed_load,
         \A y \in Reg \cup {REG_LOAD_REG} : l.v[y] = k.v[y],
         \A y \in Var : l.v[y] = k.v[y] \/ y \in k.regs,
         u.hi = l.v[REG_HI], u.lo = l.v[REG_LO], u.sr = l.v[REG_SR],
         u.cause = l.v[REG_CAUSE], u.epc = l.v[REG_EPC], u.baddr = l.v[REG_BADDR],
         u.mem = l.mem, u.gd = l.gd, u.gc = l.gc
  PROVE  Same(u, l, Y) /\ Empty(u, l)
<1>1. u.r[0] = 0 /\ l.v[0] = 0
  BY VarFacts DEF Same
<1>2. \A y \in Y : u.r[y] = l.v[y]
  BY DEF Same
<1>3. u.delay_slot = l.delay_slot
  BY DEF Same, SteadyRef, SteadyJit
<1>4. \A y \in Var : y \notin l.regs => l.v[y] = l.m[y]
  BY DEF Same
<1>5. l.m[REG_LOAD_REG] \in Reg
  BY DEF Same
<1> QED
  BY <1>1, <1>2, <1>3, <1>4, <1>5 DEF Same, Empty, Quiet

\* After the delivery, any of these steps.
LEMMA Delivers ==
  ASSUME NEW s, NEW j, NEW X \in SUBSET Reg, NEW Y \in SUBSET X, NEW n,
         Same(s, j, X), Ready(s, j, Y),
         NEW u, NEW l, SteadyRef(DelayedLoad(s), u), SteadyJit(CompileDelayedLoad(j, TRUE), l),
         Same(u, l, Y), Empty(u, l),
         \A y \in Reg : y \notin {n.rt, n.rd} => u.r[y] = DelayedLoad(s).r[y]
  PROVE  Ran(s, j, u, l, Y, n)
<1> DEFINE t == DelayedLoad(s)
           k == CompileDelayedLoad(j, TRUE)
<1>1. /\ SteadyRef(s, t) /\ SteadyJit(j, k)
      /\ \A y \in Reg : y # s.load[1] => t.r[y] = s.r[y]
  BY Deliver
<1> HIDE DEF t, k
<1>2. SteadyRef(t, u) /\ SteadyJit(k, l) /\ \A y \in Reg : y \notin {n.rt, n.rd} => u.r[y] = t.r[y]
  BY DEF t, k
<1>3. SteadyRef(s, u) /\ SteadyJit(j, l)
  BY <1>1, <1>2 DEF SteadyRef, SteadyJit
<1> QED
  BY <1>1, <1>2, <1>3 DEF Ran, Held, Empty, Quiet

\* A general register.
LEMMA ResultRuns ==
  ASSUME NEW s, NEW j, NEW X \in SUBSET Reg, NEW Y \in SUBSET X, NEW n,
         Same(s, j, X), Ready(s, j, Y),
         NEW x \in Reg, x \in {n.rt, n.rd}, x \in j.regs, NEW w \in Word
  PROVE  Ran(s, j, SetReg(DelayedLoad(s), x, w), DefReg(CompileDelayedLoad(j, TRUE), x, w), Y, n)
<1> DEFINE t == DelayedLoad(s)
           k == CompileDelayedLoad(j, TRUE)
           u == SetReg(t, x, w)
           l == DefReg(k, x, w)
<1>1. Same(t, k, Y) /\ Empty(t, k) /\ SteadyJit(j, k)
  BY Deliver
<1> HIDE DEF t, k
<1>2. x \in k.regs /\ Y \subseteq Reg
  BY <1>1 DEF SteadyJit
<1>3. /\ Same(u, l, Y \cup {x}) /\ Empty(u, l) /\ SteadyRef(t, u) /\ SteadyJit(k, l)
      /\ \A y \in Reg : y # x => u.r[y] = t.r[y]
  <2>1. BothSet(t, k, u, l, Y, x)
    BY <1>1, <1>2, SetSame
  <2> QED
    BY <2>1 DEF BothSet
<1> HIDE DEF u, l
<1>4. Same(u, l, Y)
  BY <1>3 DEF Same
<1>5. Ran(s, j, u, l, Y, n)
  BY <1>3, <1>4, Delivers DEF t, k
<1> QED
  BY <1>5 DEF u, l, t, k

\* The two halves of a product or a quotient.
WithHiLo(t, hi, lo) == [t EXCEPT !.hi = hi, !.lo = lo]

LEMMA HiLoRuns ==
  ASSUME NEW s, NEW j, NEW X \in SUBSET Reg, NEW Y \in SUBSET X, NEW n,
         Same(s, j, X), Ready(s, j, Y), REG_HI \in j.regs, REG_LO \in j.regs,
         NEW hi \in Word, NEW lo \in Word
  PROVE  Ran(s, j, WithHiLo(DelayedLoad(s), hi, lo), HiLo(j, hi, lo), Y, n)
<1> DEFINE t == DelayedLoad(s)
           k == CompileDelayedLoad(j, TRUE)
           u == [t EXCEPT !.hi = hi, !.lo = lo]
           h == Def(k, REG_HI, hi)
           l == Def(h, REG_LO, lo)
<1>1. Same(t, k, Y) /\ Empty(t, k) /\ SteadyJit(j, k)
  BY Deliver
<1> HIDE DEF t, k
<1>2. IsRef(t) /\ IsJit(k) /\ REG_HI \in k.regs /\ REG_LO \in k.regs
  BY <1>1 DEF Same, SteadyJit
<1>3. /\ IsRef(u) /\ u.hi = hi /\ u.lo = lo /\ u.r = t.r /\ u.load = t.load
      /\ SteadyRef(t, u) /\ u.sr = t.sr /\ u.cause = t.cause /\ u.epc = t.epc
      /\ u.baddr = t.baddr /\ u.mem = t.mem /\ u.gd = t.gd /\ u.gc = t.gc
  BY <1>2 DEF IsRef, SteadyRef
<1> HIDE DEF u
<1>4. REG_HI \in Var /\ REG_LO \in Var
  BY VarFacts
<1>5. /\ IsJit(h) /\ SteadyJit(k, h) /\ h.regs = k.regs /\ h.m = k.m
      /\ h.mem = k.mem /\ h.gd = k.gd /\ h.gc = k.gc /\ h.delayed_load = k.delayed_load
      /\ h.v[REG_HI] = hi /\ \A y \in Var : y # REG_HI => h.v[y] = k.v[y]
  BY <1>2, <1>4, DefIs
<1> HIDE DEF h
<1>6. /\ IsJit(l) /\ SteadyJit(h, l) /\ l.regs = h.regs /\ l.m = h.m
      /\ l.mem = h.mem /\ l.gd = h.gd /\ l.gc = h.gc /\ l.delayed_load = h.delayed_load
      /\ l.v[REG_LO] = lo /\ \A y \in Var : y # REG_LO => l.v[y] = h.v[y]
  BY <1>4, <1>5, DefIs
<1> HIDE DEF l
<1>7. /\ SteadyJit(k, l) /\ l.regs = k.regs /\ l.m = k.m /\ l.mem = k.mem /\ l.gd = k.gd
      /\ l.gc = k.gc /\ l.delayed_load = k.delayed_load
  BY <1>5, <1>6 DEF SteadyJit
<1>8. /\ \A y \in Var : y # REG_HI /\ y # REG_LO => l.v[y] = k.v[y]
      /\ l.v[REG_HI] = hi /\ l.v[REG_LO] = lo
  BY <1>4, <1>5, <1>6
<1>9. \A y \in Reg \cup {REG_SR, REG_CAUSE, REG_EPC, REG_BADDR, REG_LOAD_REG} : l.v[y] = k.v[y]
  BY <1>8, VarFacts
<1>10. /\ u.sr = l.v[REG_SR] /\ u.cause = l.v[REG_CAUSE] /\ u.epc = l.v[REG_EPC]
       /\ u.baddr = l.v[REG_BADDR] /\ u.mem = l.mem /\ u.gd = l.gd /\ u.gc = l.gc
  BY <1>1, <1>3, <1>7, <1>9 DEF Same
<1>11. \A y \in Var : l.v[y] = k.v[y] \/ y \in k.regs
  BY <1>2, <1>8
<1>12. Same(u, l, Y) /\ Empty(u, l)
  BY <1>1, <1>3, <1>6, <1>7, <1>8, <1>9, <1>10, <1>11, OtherSame
<1>13. Ran(s, j, u, l, Y, n)
  BY <1>3, <1>7, <1>12, Delivers DEF t, k
<1> QED
  BY <1>13 DEF u, l, h, t, k, HiLo, WithHiLo

\* One register of the machine that is not a general one.
LEMMA SpecialRuns ==
  ASSUME NEW s, NEW j, NEW X \in SUBSET Reg, NEW Y \in SUBSET X, NEW n,
         Same(s, j, X), Ready(s, j, Y), NEW w \in Word
  PROVE  LET t == DelayedLoad(s)
             k == CompileDelayedLoad(j, TRUE)
         IN /\ REG_HI \in j.regs => Ran(s, j, [t EXCEPT !.hi = w], Def(k, REG_HI, w), Y, n)
            /\ REG_LO \in j.regs => Ran(s, j, [t EXCEPT !.lo = w], Def(k, REG_LO, w), Y, n)
            /\ REG_SR \in j.regs => Ran(s, j, [t EXCEPT !.sr = w], Def(k, REG_SR, w), Y, n)
            /\ REG_CAUSE \in j.regs => Ran(s, j, [t EXCEPT !.cause = w], Def(k, REG_CAUSE, w), Y, n)
            /\ REG_BADDR \in j.regs => Ran(s, j, [t EXCEPT !.baddr = w], Def(k, REG_BADDR, w), Y, n)
<1> DEFINE t == DelayedLoad(s)
           k == CompileDelayedLoad(j, TRUE)
<1>1. Same(t, k, Y) /\ Empty(t, k) /\ SteadyJit(j, k)
  BY Deliver
<1> HIDE DEF t, k
<1>2. IsRef(t) /\ IsJit(k) /\ \A x : x \in j.regs => x \in k.regs
  BY <1>1 DEF Same, SteadyJit
<1>3. ASSUME NEW x \in {REG_HI, REG_LO, REG_SR, REG_CAUSE, REG_BADDR}
      PROVE  LET l == Def(k, x, w)
             IN /\ IsJit(l) /\ SteadyJit(k, l) /\ l.regs = k.regs /\ l.m = k.m
                /\ l.mem = k.mem /\ l.gd = k.gd /\ l.gc = k.gc /\ l.delayed_load = k.delayed_load
                /\ l.v[x] = w /\ \A y \in Var : y # x => l.v[y] = k.v[y]
                /\ \A y \in Reg \cup {REG_LOAD_REG} : l.v[y] = k.v[y]
  <2> DEFINE l == Def(k, x, w)
  <2>1. x \in Var /\ x \notin Reg \cup {REG_LOAD_REG} /\ Reg \cup {REG_LOAD_REG} \subseteq Var
    BY VarFacts
  <2>2. /\ IsJit(l) /\ SteadyJit(k, l) /\ l.regs = k.regs /\ l.m = k.m
        /\ l.mem = k.mem /\ l.gd = k.gd /\ l.gc = k.gc /\ l.delayed_load = k.delayed_load
        /\ l.v[x] = w /\ \A y \in Var : y # x => l.v[y] = k.v[y]
    BY <1>2, <2>1, DefIs
  <2> HIDE DEF l
  <2> QED
    BY <2>1, <2>2 DEF l
<1>4. ASSUME REG_HI \in j.regs
      PROVE  Ran(s, j, [t EXCEPT !.hi = w], Def(k, REG_HI, w), Y, n)
  <2> DEFINE u == [t EXCEPT !.hi = w]
             l == Def(k, REG_HI, w)
  <2>1. /\ IsJit(l) /\ SteadyJit(k, l) /\ l.regs = k.regs /\ l.m = k.m
        /\ l.mem = k.mem /\ l.gd = k.gd /\ l.gc = k.gc /\ l.delayed_load = k.delayed_load
        /\ l.v[REG_HI] = w /\ \A y \in Var : y # REG_HI => l.v[y] = k.v[y]
        /\ \A y \in Reg \cup {REG_LOAD_REG} : l.v[y] = k.v[y]
    BY <1>3
  <2>2. /\ IsRef(u) /\ u.hi = w /\ u.r = t.r /\ u.load = t.load /\ SteadyRef(t, u)
        /\ u.lo = t.lo /\ u.sr = t.sr /\ u.cause = t.cause /\ u.epc = t.epc /\ u.baddr = t.baddr
        /\ u.mem = t.mem /\ u.gd = t.gd /\ u.gc = t.gc
    BY <1>2 DEF IsRef, SteadyRef
  <2> HIDE DEF u, l
  <2>3. \A y \in {REG_LO, REG_SR, REG_CAUSE, REG_EPC, REG_BADDR} : l.v[y] = k.v[y]
    BY <2>1, VarFacts
  <2>4. /\ u.lo = l.v[REG_LO] /\ u.sr = l.v[REG_SR] /\ u.cause = l.v[REG_CAUSE] /\ u.epc = l.v[REG_EPC] /\ u.baddr = l.v[REG_BADDR]
        /\ u.mem = l.mem /\ u.gd = l.gd /\ u.gc = l.gc
    BY <1>1, <2>1, <2>2, <2>3 DEF Same
  <2>5. \A y \in Var : l.v[y] = k.v[y] \/ y \in k.regs
    BY <1>2, <1>4, <2>1
  <2>6. Same(u, l, Y) /\ Empty(u, l)
    BY <1>1, <2>1, <2>2, <2>4, <2>5, OtherSame
  <2>7. Ran(s, j, u, l, Y, n)
    BY <2>1, <2>2, <2>6, Delivers DEF t, k
  <2> QED
    BY <2>7 DEF u, l
<1>5. ASSUME REG_LO \in j.regs
      PROVE  Ran(s, j, [t EXCEPT !.lo = w], Def(k, REG_LO, w), Y, n)
  <2> DEFINE u == [t EXCEPT !.lo = w]
             l == Def(k, REG_LO, w)
  <2>1. /\ IsJit(l) /\ SteadyJit(k, l) /\ l.regs = k.regs /\ l.m = k.m
        /\ l.mem = k.mem /\ l.gd = k.gd /\ l.gc = k.gc /\ l.delayed_load = k.delayed_load
        /\ l.v[REG_LO] = w /\ \A y \in Var : y # REG_LO => l.v[y] = k.v[y]
        /\ \A y \in Reg \cup {REG_LOAD_REG} : l.v[y] = k.v[y]
    BY <1>3
  <2>2. /\ IsRef(u) /\ u.lo = w /\ u.r = t.r /\ u.load = t.load /\ SteadyRef(t, u)
        /\ u.hi = t.hi /\ u.sr = t.sr /\ u.cause = t.cause /\ u.epc = t.epc /\ u.baddr = t.baddr
        /\ u.mem = t.mem /\ u.gd = t.gd /\ u.gc = t.gc
    BY <1>2 DEF IsRef, SteadyRef
  <2> HIDE DEF u, l
  <2>3. \A y \in {REG_HI, REG_SR, REG_CAUSE, REG_EPC, REG_BADDR} : l.v[y] = k.v[y]
    BY <2>1, VarFacts
  <2>4. /\ u.hi = l.v[REG_HI] /\ u.sr = l.v[REG_SR] /\ u.cause = l.v[REG_CAUSE] /\ u.epc = l.v[REG_EPC] /\ u.baddr = l.v[REG_BADDR]
        /\ u.mem = l.mem /\ u.gd = l.gd /\ u.gc = l.gc
    BY <1>1, <2>1, <2>2, <2>3 DEF Same
  <2>5. \A y \in Var : l.v[y] = k.v[y] \/ y \in k.regs
    BY <1>2, <1>5, <2>1
  <2>6. Same(u, l, Y) /\ Empty(u, l)
    BY <1>1, <2>1, <2>2, <2>4, <2>5, OtherSame
  <2>7. Ran(s, j, u, l, Y, n)
    BY <2>1, <2>2, <2>6, Delivers DEF t, k
  <2> QED
    BY <2>7 DEF u, l
<1>6. ASSUME REG_SR \in j.regs
      PROVE  Ran(s, j, [t EXCEPT !.sr = w], Def(k, REG_SR, w), Y, n)
  <2> DEFINE u == [t EXCEPT !.sr = w]
             l == Def(k, REG_SR, w)
  <2>1. /\ IsJit(l) /\ SteadyJit(k, l) /\ l.regs = k.regs /\ l.m = k.m
        /\ l.mem = k.mem /\ l.gd = k.gd /\ l.gc = k.gc /\ l.delayed_load = k.delayed_load
        /\ l.v[REG_SR] = w /\ \A y \in Var : y # REG_SR => l.v[y] = k.v[y]
        /\ \A y \in Reg \cup {REG_LOAD_REG} : l.v[y] = k.v[y]
    BY <1>3
  <2>2. /\ IsRef(u) /\ u.sr = w /\ u.r = t.r /\ u.load = t.load /\ SteadyRef(t, u)
        /\ u.hi = t.hi /\ u.lo = t.lo /\ u.cause = t.cause /\ u.epc = t.epc /\ u.baddr = t.baddr
        /\ u.mem = t.mem /\ u.gd = t.gd /\ u.gc = t.gc
    BY <1>2 DEF IsRef, SteadyRef
  <2> HIDE DEF u, l
  <2>3. \A y \in {REG_HI, REG_LO, REG_CAUSE, REG_EPC, REG_BADDR} : l.v[y] = k.v[y]
    BY <2>1, VarFacts
  <2>4. /\ u.hi = l.v[REG_HI] /\ u.lo = l.v[REG_LO] /\ u.cause = l.v[REG_CAUSE] /\ u.epc = l.v[REG_EPC] /\ u.baddr = l.v[REG_BADDR]
        /\ u.mem = l.mem /\ u.gd = l.gd /\ u.gc = l.gc
    BY <1>1, <2>1, <2>2, <2>3 DEF Same
  <2>5. \A y \in Var : l.v[y] = k.v[y] \/ y \in k.regs
    BY <1>2, <1>6, <2>1
  <2>6. Same(u, l, Y) /\ Empty(u, l)
    BY <1>1, <2>1, <2>2, <2>4, <2>5, OtherSame
  <2>7. Ran(s, j, u, l, Y, n)
    BY <2>1, <2>2, <2>6, Delivers DEF t, k
  <2> QED
    BY <2>7 DEF u, l
<1>7. ASSUME REG_CAUSE \in j.regs
      PROVE  Ran(s, j, [t EXCEPT !.cause = w], Def(k, REG_CAUSE, w), Y, n)
  <2> DEFINE u == [t EXCEPT !.cause = w]
             l == Def(k, REG_CAUSE, w)
  <2>1. /\ IsJit(l) /\ SteadyJit(k, l) /\ l.regs = k.regs /\ l.m = k.m
        /\ l.mem = k.mem /\ l.gd = k.gd /\ l.gc = k.gc /\ l.delayed_load = k.delayed_load
        /\ l.v[REG_CAUSE] = w /\ \A y \in Var : y # REG_CAUSE => l.v[y] = k.v[y]
        /\ \A y \in Reg \cup {REG_LOAD_REG} : l.v[y] = k.v[y]
    BY <1>3
  <2>2. /\ IsRef(u) /\ u.cause = w /\ u.r = t.r /\ u.load = t.load /\ SteadyRef(t, u)
        /\ u.hi = t.hi /\ u.lo = t.lo /\ u.sr = t.sr /\ u.epc = t.epc /\ u.baddr = t.baddr
        /\ u.mem = t.mem /\ u.gd = t.gd /\ u.gc = t.gc
    BY <1>2 DEF IsRef, SteadyRef
  <2> HIDE DEF u, l
  <2>3. \A y \in {REG_HI, REG_LO, REG_SR, REG_EPC, REG_BADDR} : l.v[y] = k.v[y]
    BY <2>1, VarFacts
  <2>4. /\ u.hi = l.v[REG_HI] /\ u.lo = l.v[REG_LO] /\ u.sr = l.v[REG_SR] /\ u.epc = l.v[REG_EPC] /\ u.baddr = l.v[REG_BADDR]
        /\ u.mem = l.mem /\ u.gd = l.gd /\ u.gc = l.gc
    BY <1>1, <2>1, <2>2, <2>3 DEF Same
  <2>5. \A y \in Var : l.v[y] = k.v[y] \/ y \in k.regs
    BY <1>2, <1>7, <2>1
  <2>6. Same(u, l, Y) /\ Empty(u, l)
    BY <1>1, <2>1, <2>2, <2>4, <2>5, OtherSame
  <2>7. Ran(s, j, u, l, Y, n)
    BY <2>1, <2>2, <2>6, Delivers DEF t, k
  <2> QED
    BY <2>7 DEF u, l
<1>8. ASSUME REG_BADDR \in j.regs
      PROVE  Ran(s, j, [t EXCEPT !.baddr = w], Def(k, REG_BADDR, w), Y, n)
  <2> DEFINE u == [t EXCEPT !.baddr = w]
             l == Def(k, REG_BADDR, w)
  <2>1. /\ IsJit(l) /\ SteadyJit(k, l) /\ l.regs = k.regs /\ l.m = k.m
        /\ l.mem = k.mem /\ l.gd = k.gd /\ l.gc = k.gc /\ l.delayed_load = k.delayed_load
        /\ l.v[REG_BADDR] = w /\ \A y \in Var : y # REG_BADDR => l.v[y] = k.v[y]
        /\ \A y \in Reg \cup {REG_LOAD_REG} : l.v[y] = k.v[y]
    BY <1>3
  <2>2. /\ IsRef(u) /\ u.baddr = w /\ u.r = t.r /\ u.load = t.load /\ SteadyRef(t, u)
        /\ u.hi = t.hi /\ u.lo = t.lo /\ u.sr = t.sr /\ u.cause = t.cause /\ u.epc = t.epc
        /\ u.mem = t.mem /\ u.gd = t.gd /\ u.gc = t.gc
    BY <1>2 DEF IsRef, SteadyRef
  <2> HIDE DEF u, l
  <2>3. \A y \in {REG_HI, REG_LO, REG_SR, REG_CAUSE, REG_EPC} : l.v[y] = k.v[y]
    BY <2>1, VarFacts
  <2>4. /\ u.hi = l.v[REG_HI] /\ u.lo = l.v[REG_LO] /\ u.sr = l.v[REG_SR] /\ u.cause = l.v[REG_CAUSE] /\ u.epc = l.v[REG_EPC]
        /\ u.mem = l.mem /\ u.gd = l.gd /\ u.gc = l.gc
    BY <1>1, <2>1, <2>2, <2>3 DEF Same
  <2>5. \A y \in Var : l.v[y] = k.v[y] \/ y \in k.regs
    BY <1>2, <1>8, <2>1
  <2>6. Same(u, l, Y) /\ Empty(u, l)
    BY <1>1, <2>1, <2>2, <2>4, <2>5, OtherSame
  <2>7. Ran(s, j, u, l, Y, n)
    BY <2>1, <2>2, <2>6, Delivers DEF t, k
  <2> QED
    BY <2>7 DEF u, l
<1> QED
  BY <1>4, <1>5, <1>6, <1>7, <1>8 DEF t, k

\* Memory, or a register of coprocessor 2.
LEMMA OutsideRuns ==
  ASSUME NEW s, NEW j, NEW X \in SUBSET Reg, NEW Y \in SUBSET X, NEW n,
         Same(s, j, X), Ready(s, j, Y), NEW w \in Word, NEW mem \in Memories
  PROVE  LET t == DelayedLoad(s)
             k == CompileDelayedLoad(j, TRUE)
         IN /\ Ran(s, j, t, k, Y, n)
            /\ Ran(s, j, [t EXCEPT !.mem = mem], [k EXCEPT !.mem = mem], Y, n)
            /\ Ran(s, j, [t EXCEPT !.gd = w], [k EXCEPT !.gd = w], Y, n)
            /\ Ran(s, j, [t EXCEPT !.gc = w], [k EXCEPT !.gc = w], Y, n)
<1> DEFINE t == DelayedLoad(s)
           k == CompileDelayedLoad(j, TRUE)
<1>1. Same(t, k, Y) /\ Empty(t, k)
  BY Deliver
<1> HIDE DEF t, k
<1>2. IsRef(t) /\ IsJit(k)
  BY <1>1 DEF Same
<1>3. Ran(s, j, t, k, Y, n)
  <2>1. SteadyRef(t, t) /\ SteadyJit(k, k)
    BY DEF SteadyRef, SteadyJit
  <2> QED
    BY <1>1, <2>1, Delivers DEF t, k
<1>4. Ran(s, j, [t EXCEPT !.mem = mem], [k EXCEPT !.mem = mem], Y, n)
  <2> DEFINE u == [t EXCEPT !.mem = mem]
             l == [k EXCEPT !.mem = mem]
  <2>1. /\ IsJit(l) /\ SteadyJit(k, l) /\ l.regs = k.regs /\ l.m = k.m /\ l.v = k.v
        /\ l.mem = mem /\ l.gd = k.gd /\ l.gc = k.gc /\ l.delayed_load = k.delayed_load
    BY <1>2 DEF IsJit, SteadyJit
  <2>2. /\ IsRef(u) /\ u.mem = mem /\ u.r = t.r /\ u.load = t.load /\ SteadyRef(t, u)
        /\ u.hi = t.hi /\ u.lo = t.lo /\ u.sr = t.sr /\ u.cause = t.cause /\ u.epc = t.epc /\ u.baddr = t.baddr
        /\ u.gd = t.gd /\ u.gc = t.gc
    BY <1>2 DEF IsRef, SteadyRef
  <2> HIDE DEF u, l
  <2>3. /\ u.hi = l.v[REG_HI] /\ u.lo = l.v[REG_LO] /\ u.sr = l.v[REG_SR] /\ u.cause = l.v[REG_CAUSE] /\ u.epc = l.v[REG_EPC] /\ u.baddr = l.v[REG_BADDR]
        /\ u.mem = l.mem /\ u.gd = l.gd /\ u.gc = l.gc
    BY <1>1, <2>1, <2>2 DEF Same
  <2>4. Same(u, l, Y) /\ Empty(u, l)
    BY <1>1, <2>1, <2>2, <2>3, OtherSame
  <2>5. Ran(s, j, u, l, Y, n)
    BY <2>1, <2>2, <2>4, Delivers DEF t, k
  <2> QED
    BY <2>5 DEF u, l
<1>5. Ran(s, j, [t EXCEPT !.gd = w], [k EXCEPT !.gd = w], Y, n)
  <2> DEFINE u == [t EXCEPT !.gd = w]
             l == [k EXCEPT !.gd = w]
  <2>1. /\ IsJit(l) /\ SteadyJit(k, l) /\ l.regs = k.regs /\ l.m = k.m /\ l.v = k.v
        /\ l.gd = w /\ l.mem = k.mem /\ l.gc = k.gc /\ l.delayed_load = k.delayed_load
    BY <1>2 DEF IsJit, SteadyJit
  <2>2. /\ IsRef(u) /\ u.gd = w /\ u.r = t.r /\ u.load = t.load /\ SteadyRef(t, u)
        /\ u.hi = t.hi /\ u.lo = t.lo /\ u.sr = t.sr /\ u.cause = t.cause /\ u.epc = t.epc /\ u.baddr = t.baddr
        /\ u.mem = t.mem /\ u.gc = t.gc
    BY <1>2 DEF IsRef, SteadyRef
  <2> HIDE DEF u, l
  <2>3. /\ u.hi = l.v[REG_HI] /\ u.lo = l.v[REG_LO] /\ u.sr = l.v[REG_SR] /\ u.cause = l.v[REG_CAUSE] /\ u.epc = l.v[REG_EPC] /\ u.baddr = l.v[REG_BADDR]
        /\ u.mem = l.mem /\ u.gd = l.gd /\ u.gc = l.gc
    BY <1>1, <2>1, <2>2 DEF Same
  <2>4. Same(u, l, Y) /\ Empty(u, l)
    BY <1>1, <2>1, <2>2, <2>3, OtherSame
  <2>5. Ran(s, j, u, l, Y, n)
    BY <2>1, <2>2, <2>4, Delivers DEF t, k
  <2> QED
    BY <2>5 DEF u, l
<1>6. Ran(s, j, [t EXCEPT !.gc = w], [k EXCEPT !.gc = w], Y, n)
  <2> DEFINE u == [t EXCEPT !.gc = w]
             l == [k EXCEPT !.gc = w]
  <2>1. /\ IsJit(l) /\ SteadyJit(k, l) /\ l.regs = k.regs /\ l.m = k.m /\ l.v = k.v
        /\ l.gc = w /\ l.mem = k.mem /\ l.gd = k.gd /\ l.delayed_load = k.delayed_load
    BY <1>2 DEF IsJit, SteadyJit
  <2>2. /\ IsRef(u) /\ u.gc = w /\ u.r = t.r /\ u.load = t.load /\ SteadyRef(t, u)
        /\ u.hi = t.hi /\ u.lo = t.lo /\ u.sr = t.sr /\ u.cause = t.cause /\ u.epc = t.epc /\ u.baddr = t.baddr
        /\ u.mem = t.mem /\ u.gd = t.gd
    BY <1>2 DEF IsRef, SteadyRef
  <2> HIDE DEF u, l
  <2>3. /\ u.hi = l.v[REG_HI] /\ u.lo = l.v[REG_LO] /\ u.sr = l.v[REG_SR] /\ u.cause = l.v[REG_CAUSE] /\ u.epc = l.v[REG_EPC] /\ u.baddr = l.v[REG_BADDR]
        /\ u.mem = l.mem /\ u.gd = l.gd /\ u.gc = l.gc
    BY <1>1, <2>1, <2>2 DEF Same
  <2>4. Same(u, l, Y) /\ Empty(u, l)
    BY <1>1, <2>1, <2>2, <2>3, OtherSame
  <2>5. Ran(s, j, u, l, Y, n)
    BY <2>1, <2>2, <2>4, Delivers DEF t, k
  <2> QED
    BY <2>5 DEF u, l
<1> QED
  BY <1>3, <1>4, <1>5, <1>6 DEF t, k

\* A store, unless the cache is isolated.
LEMMA StoreRuns ==
  ASSUME NEW s, NEW j, NEW X \in SUBSET Reg, NEW Y \in SUBSET X, NEW n,
         Same(s, j, X), Ready(s, j, Y), NEW mem \in Memories, REG_SR \in j.regs
  PROVE  Ran(s, j, Put(DelayedLoad(s), mem),
             StoreUnlessIsolated(CompileDelayedLoad(j, TRUE), mem), Y, n)
<1> DEFINE t == DelayedLoad(s)
           k == CompileDelayedLoad(j, TRUE)
<1>1. Same(t, k, Y) /\ SteadyJit(j, k)
  BY Deliver
<1>2. Ran(s, j, t, k, Y, n) /\ Ran(s, j, [t EXCEPT !.mem = mem], [k EXCEPT !.mem = mem], Y, n)
  <2>1. 0 \in Word
    BY Sizes DEF Word
  <2> QED
    BY <2>1, OutsideRuns
<1> HIDE DEF t, k
<1>3. Use(k, REG_SR) = t.sr
  BY <1>1 DEF Use, Same, SteadyJit
<1>4. Ran(s, j, Put(t, mem), StoreUnlessIsolated(k, mem), Y, n)
  BY <1>2, <1>3 DEF Put, StoreUnlessIsolated
<1> QED
  BY <1>4 DEF t, k

\* A load, which reaches its register with the instruction after it.
LEMMA LoadRuns ==
  ASSUME NEW s, NEW j, NEW X \in SUBSET Reg, NEW Y \in SUBSET X, NEW n,
         Same(s, j, X), Ready(s, j, Y),
         n.rt \in Reg, n.rt \in j.regs, n.op \in LoadOps,
         ~(Fresh(s, j) /\ s.load[1] # 0 /\ s.load[1] = n.rt),
         NEW v \in Word, NEW w \in Word, n.rt # 0 => v = w
  PROVE  Ran(s, j, DelayedLoadChain(s, n.rt, v), CompileDelayedLoadChain(j, n.rt, w), Y, n)
<1> DEFINE rt == n.rt
           t == DelayedLoadChain(s, rt, v)
           c == CheckForLoadInRegs(j, rt)
           d == j.delayed_load
           e == IF d # None /\ d[1] = rt THEN c ELSE Commit(c, d)
           f == <<rt, w>>
           k == [e EXCEPT !.delayed_load = f]
           reg == j.m[REG_LOAD_REG]
           val == j.m[REG_LOAD_VAL]
<1>1. /\ IsRef(s) /\ IsJit(j) /\ s.r[0] = 0 /\ j.v[0] = 0 /\ reg \in Reg /\ val \in Word
      /\ \A x \in X : s.r[x] = j.v[x]
      /\ \A x \in Var : x \notin j.regs => j.v[x] = j.m[x]
      /\ d \in {None} \cup (Reg \X Word)
  <2>1. REG_LOAD_VAL \in Var
    BY VarFacts
  <2> QED
    BY <2>1 DEF Same, IsJit
<1>2. /\ d # None => j.i # 0 /\ d[1] \in j.regs
      /\ j.i # 0 => REG_LOAD_REG \in j.regs /\ j.v[REG_LOAD_REG] = 0
  BY DEF Ready, Fresh, Empty, Quiet, InFlight
<1>3. /\ rt \in Reg /\ rt \in Var /\ 0 \in Reg /\ 0 \in Var /\ REG_LOAD_REG \in Var
      /\ REG_LOAD_REG \notin Reg /\ Reg \subseteq Var /\ 32 .. 38 \subseteq Var
      /\ \A x \in 32 .. 38 : x \notin Reg
  BY VarFacts
<1>4. rt \in j.regs
  OBVIOUS
<1>5. rt # 0 => v = w
  OBVIOUS
<1>6. ~(Fresh(s, j) /\ s.load[1] # 0 /\ s.load[1] = rt)
  OBVIOUS
<1>7. n.rt = rt
  OBVIOUS
<1> HIDE DEF rt, reg, val
<1>8. /\ IsRef(t) /\ SteadyRef(s, t) /\ RestRef(s, t) /\ t.load = <<rt, v>>
      /\ t.r[0] = 0
      /\ s.load[1] # 0 /\ s.load[1] # rt => t.r[s.load[1]] = s.load[2]
      /\ s.load[1] = rt => t.r = s.r
      /\ \A y \in Reg : y # s.load[1] => t.r[y] = s.r[y]
      /\ s.load[1] \in Reg /\ s.load[2] \in Word
  <2>1. IsRef(s) /\ s.r[0] = 0 /\ rt \in Reg /\ v \in Word
    BY <1>1, <1>3
  <2> QED
    BY ONLY <2>1, DelayedLoadChainIs
<1>9. /\ IsJit(c) /\ SteadyJit(j, c)
      /\ c.mem = j.mem /\ c.gd = j.gd /\ c.gc = j.gc /\ c.delayed_load = d
      /\ j.i # 0 => c = j
      /\ j.i = 0 => REG_LOAD_REG \in c.regs
      /\ c.m[REG_LOAD_REG] = reg
      /\ \A x \in 32 .. 38 : c.v[x] = j.v[x]
      /\ j.i = 0 /\ (reg = 0 \/ reg = rt) =>
           c.v[REG_LOAD_REG] = reg /\ \A x \in Reg : c.v[x] = j.v[x]
      /\ j.i = 0 /\ ~(reg = 0 \/ reg = rt) =>
           /\ c.v[REG_LOAD_REG] = 0 /\ c.v[reg] = val
           /\ \A x \in Reg : x # reg => c.v[x] = j.v[x]
      /\ \A x \in Var : x \notin c.regs => c.v[x] = c.m[x]
  BY <1>1, CheckedEntry DEF reg, val
<1>10. c.v[0] = 0
  BY <1>1, <1>3, <1>9
<1> HIDE DEF c, t
<1>11. /\ IsJit(e) /\ SteadyJit(c, e) /\ e.regs = c.regs /\ e.m = c.m
       /\ e.mem = c.mem /\ e.gd = c.gd /\ e.gc = c.gc /\ e.v[0] = 0
       /\ d = None \/ (d # None /\ d[1] = rt) => e = c
       /\ d # None /\ d[1] # rt => /\ d[1] # 0 => e.v[d[1]] = d[2]
                                   /\ \A y \in Var : y # d[1] => e.v[y] = c.v[y]
       /\ d # None => d[1] \in Reg
  <2> DEFINE q == Commit(c, d)
  <2>1. /\ IsJit(q) /\ SteadyJit(c, q) /\ q.regs = c.regs /\ q.m = c.m
        /\ q.mem = c.mem /\ q.gd = c.gd /\ q.gc = c.gc /\ q.v[0] = 0
        /\ d = None => q = c
        /\ d # None => /\ d[1] \in Reg
                       /\ d[1] # 0 => q.v[d[1]] = d[2]
                       /\ \A y \in Var : y # d[1] => q.v[y] = c.v[y]
    BY <1>1, <1>9, <1>10, CommitIs
  <2> HIDE DEF q, d
  <2>2. SteadyJit(c, c)
    BY DEF SteadyJit
  <2>3. CASE d # None /\ d[1] = rt
    <3>1. e = c
      BY <2>3
    <3> HIDE DEF e
    <3> QED
      BY <1>9, <1>10, <2>1, <2>2, <2>3, <3>1
  <2>4. CASE ~(d # None /\ d[1] = rt)
    <3>1. e = q
      BY <2>4 DEF q
    <3> HIDE DEF e
    <3> QED
      BY <2>1, <2>4, <3>1
  <2> QED
    BY <2>3, <2>4
<1> HIDE DEF e, d
<1>12. f \in Reg \X Word /\ f # None /\ f[1] = rt /\ f[2] = w
  BY <1>3 DEF None
<1> HIDE DEF f
<1>13. /\ IsJit(k) /\ SteadyJit(e, k) /\ k.regs = e.regs /\ k.m = e.m /\ k.v = e.v
       /\ k.mem = e.mem /\ k.gd = e.gd /\ k.gc = e.gc /\ k.delayed_load = f
  BY <1>11, <1>12, LoadIs
<1>14. CompileDelayedLoadChain(j, n.rt, w) = k
  BY <1>9 DEF CompileDelayedLoadChain, k, e, f, c, rt, d
<1> HIDE DEF k
<1>15. SteadyJit(j, k)
  BY <1>9, <1>11, <1>13 DEF SteadyJit
<1>16. ASSUME NEW x \in Var, x \notin k.regs PROVE k.v[x] = k.m[x]
  <2>1. CASE d = None \/ d[1] = rt
    BY <1>9, <1>11, <1>13, <1>16, <2>1
  <2>2. CASE d # None /\ d[1] # rt
    BY <1>2, <1>9, <1>11, <1>13, <1>16, <2>2 DEF d
  <2> QED
    BY <2>1, <2>2
<1>17. ASSUME NEW x \in 32 .. 38 PROVE k.v[x] = j.v[x]
  <2>1. x \in Var /\ x \notin Reg
    BY <1>3
  <2> QED
    BY <1>9, <1>11, <1>13, <2>1
<1>18. k.v[REG_LOAD_REG] = 0 \/ (j.i = 0 /\ reg = rt /\ k.v[REG_LOAD_REG] = rt)
  <2>1. CASE j.i = 0
    <3>1. d = None
      BY <1>2, <2>1 DEF d
    <3> QED
      BY <1>9, <1>11, <1>13, <2>1, <3>1
  <2>2. CASE j.i # 0
    <3>1. c.v[REG_LOAD_REG] = 0
      BY <1>2, <1>9, <2>2
    <3> QED
      BY <1>3, <1>11, <1>13, <3>1
  <2> QED
    BY <2>1, <2>2
<1>19. InFlight(t, k) /\ k.v[REG_LOAD_REG] \in {0, k.delayed_load[1]}
  <2>1. REG_LOAD_REG \in k.regs /\ rt \in k.regs
    BY <1>2, <1>4, <1>9, <1>11, <1>13, <1>15 DEF SteadyJit
  <2> QED
    BY <1>5, <1>8, <1>12, <1>13, <1>18, <2>1 DEF InFlight
<1>20. ASSUME NEW x \in Y PROVE t.r[x] = k.v[x]
  <2>1. x \in Reg /\ x \in Var /\ s.r[x] = j.v[x]
    BY <1>1, <1>3
  <2>2. CASE x = 0
    BY <1>8, <1>11, <1>13, <2>2
  <2>3. CASE x # 0 /\ Fresh(s, j)
    <3>1. j.i = 0 /\ d = None /\ s.load[1] = reg /\ s.load[2] = val
      BY <2>3 DEF Fresh, reg, val, d
    <3>2. k.v = c.v
      BY <1>11, <1>13, <3>1
    <3>3. reg = rt => reg = 0
      BY <1>6, <2>3, <3>1
    <3> QED
      BY <1>8, <1>9, <2>1, <2>3, <3>1, <3>2, <3>3
  <2>4. CASE x # 0 /\ Empty(s, j) /\ Delivered(j, Y)
    <3>1. t.r[x] = s.r[x] /\ d = None
      BY <1>8, <2>1, <2>4 DEF Empty, Quiet, d
    <3>2. k.v = c.v
      BY <1>11, <1>13, <3>1
    <3>3. CASE j.i = 0
      <4>1. x = reg => j.v[x] = val
        BY <2>4, <3>3 DEF Delivered, reg, val
      <4> QED
        BY <1>9, <2>1, <2>4, <3>1, <3>2, <3>3, <4>1
    <3>4. CASE j.i # 0
      BY <1>9, <2>1, <3>1, <3>2, <3>4
    <3> QED
      BY <3>3, <3>4
  <2>5. CASE x # 0 /\ j.i # 0 /\ InFlight(s, j)
    <3>1. d # None /\ s.load[1] = d[1] /\ (s.load[1] # 0 => s.load[2] = d[2]) /\ c = j
      BY <1>9, <2>5 DEF InFlight, d
    <3> QED
      BY <1>8, <1>11, <1>13, <2>1, <2>5, <3>1
  <2> QED
    BY <2>2, <2>3, <2>4, <2>5 DEF Ready
<1>21. Same(t, k, Y)
  <2>1. /\ t.hi = k.v[REG_HI] /\ t.lo = k.v[REG_LO]
        /\ t.sr = k.v[REG_SR] /\ t.cause = k.v[REG_CAUSE]
        /\ t.epc = k.v[REG_EPC] /\ t.baddr = k.v[REG_BADDR]
        /\ t.mem = k.mem /\ t.gd = k.gd /\ t.gc = k.gc
        /\ t.delay_slot = k.delay_slot
    BY <1>8, <1>9, <1>11, <1>13, <1>15, <1>17 DEF Same, RestRef, SteadyRef, SteadyJit
  <2>2. k.v[0] = 0 /\ k.m[REG_LOAD_REG] \in Reg
    BY <1>1, <1>9, <1>11, <1>13
  <2> QED
    BY <1>8, <1>13, <1>16, <1>20, <2>1, <2>2 DEF Same
<1>22. \A y \in Reg : y \notin {n.rt, n.rd, s.load[1]} => t.r[y] = s.r[y]
  BY <1>8
<1>23. Ran(s, j, t, k, Y, n)
  BY <1>7, <1>8, <1>15, <1>18, <1>19, <1>21, <1>22 DEF Ran, Held, reg
<1> QED
  BY <1>14, <1>23 DEF t, rt

-----------------------------------------------------------------------------
(* What an instruction does when it raises an exception.                   *)

\* The guest sees the same in F.
Agree(s, j, F) == \A f \in F : View(s)[f] = View(Machine(j))[f]

LEMMA Agreement ==
  ASSUME NEW s, NEW k, NEW D, IsRef(s),
         "r" \in D \/ \A x \in Reg : s.r[x] = k.m[x],
         "hi" \in D \/ s.hi = k.m[REG_HI], "lo" \in D \/ s.lo = k.m[REG_LO],
         "pc" \in D \/ s.pc = k.m[REG_PC], "sr" \in D \/ s.sr = k.m[REG_SR],
         "cause" \in D \/ s.cause = k.m[REG_CAUSE], "epc" \in D \/ s.epc = k.m[REG_EPC],
         "baddr" \in D \/ s.baddr = k.m[REG_BADDR],
         \/ "load" \in D
         \/ /\ s.load[1] = k.m[REG_LOAD_REG]
            /\ s.load[1] # 0 => s.load[2] = k.m[REG_LOAD_VAL],
         "mem" \in D \/ s.mem = k.mem, "gd" \in D \/ s.gd = k.gd, "gc" \in D \/ s.gc = k.gc
  PROVE  Agree(s, k, Visible \ D)
<1> DEFINE c == Machine(k)
<1>1. /\ c.r = [x \in Reg |-> k.m[x]] /\ c.hi = k.m[REG_HI] /\ c.lo = k.m[REG_LO]
      /\ c.pc = k.m[REG_PC] /\ c.sr = k.m[REG_SR] /\ c.cause = k.m[REG_CAUSE]
      /\ c.epc = k.m[REG_EPC] /\ c.baddr = k.m[REG_BADDR]
      /\ c.load = <<k.m[REG_LOAD_REG], k.m[REG_LOAD_VAL]>>
      /\ c.mem = k.mem /\ c.gd = k.gd /\ c.gc = k.gc
  BY DEF Machine
<1>2. s.load = <<s.load[1], s.load[2]>>
  BY DEF IsRef
<1>3. s.r = [x \in Reg |-> s.r[x]]
  BY DEF IsRef
<1> HIDE DEF c
<1>4. ASSUME NEW f \in Visible \ {"load"}, f \notin D PROVE View(s)[f] = View(c)[f]
  <2>1. View(s)[f] = s[f] /\ View(c)[f] = c[f]
    BY DEF View
  <2>2. CASE f = "r"
    <3>1. [x \in Reg |-> s.r[x]] = [x \in Reg |-> k.m[x]]
      BY <1>4, <2>2
    <3> QED
      BY <1>1, <1>3, <2>1, <2>2, <3>1
  <2>3. CASE f # "r"
    BY <1>1, <1>4, <2>1, <2>3 DEF Visible
  <2> QED
    BY <2>2, <2>3
<1>5. "load" \notin D => View(s)["load"] = View(c)["load"]
  <2>1. "load" \in Visible
    BY DEF Visible
  <2>2. /\ View(s)["load"] = IF s.load[1] = 0 THEN <<0, 0>> ELSE s.load
        /\ View(c)["load"] = IF c.load[1] = 0 THEN <<0, 0>> ELSE c.load
    BY <2>1 DEF View
  <2> QED
    BY <1>1, <1>2, <2>2
<1> QED
  BY <1>4, <1>5 DEF Agree, c

LEMMA ReturnIs ==
  ASSUME NEW j, IsJit(j), NEW pc, NEW cycles
  PROVE  LET k == Return(j, pc, cycles)
         IN /\ k.done /\ k.cycles = cycles /\ k.mem = j.mem /\ k.gd = j.gd /\ k.gc = j.gc
            /\ k.m[REG_PC] = pc
            /\ \A x \in Var \ {REG_PC} : k.m[x] = IF x \in j.regs THEN j.v[x] ELSE j.m[x]
<1> DEFINE e == [x \in Var |-> IF x \in j.regs THEN j.v[x] ELSE j.m[x]]
           c == SaveContext(j)
           k == Return(j, pc, cycles)
<1>1. /\ c.m = e /\ c.mem = j.mem /\ c.gd = j.gd /\ c.gc = j.gc
      /\ c = [j EXCEPT !.m = e]
  BY DEF SaveContext, IsJit
<1>2. k = [c EXCEPT !.m[REG_PC] = pc, !.done = TRUE, !.cycles = cycles]
  BY DEF Return
<1>3. REG_PC \in Var
  BY VarFacts
<1> HIDE DEF c
<1> DEFINE g == [e EXCEPT ![REG_PC] = pc]
<1>4. /\ k.m = g /\ k.mem = c.mem /\ k.gd = c.gd /\ k.gc = c.gc
      /\ k.done = TRUE /\ k.cycles = cycles
  BY <1>1, <1>2 DEF IsJit
<1>5. g[REG_PC] = pc /\ \A x \in Var \ {REG_PC} : g[x] = IF x \in j.regs THEN j.v[x] ELSE j.m[x]
  BY <1>3
<1> HIDE DEF g, k
<1> QED
  BY <1>1, <1>4, <1>5 DEF k

\* The cause an exception leaves, in a delay slot or not.
LEMMA RaisedCause ==
  ASSUME NEW c \in Word, NEW code \in 0 .. 12, NEW delay \in {0, CauseDelay}
  PROVE  (c % CauseSoftware) + 4 * code + delay \in Word
<1>1. PICK q \in Nat \ {0} : Size = 256 * q
  BY Sizes
<1>2. c \in Nat /\ c <= 256 * q - 1
  BY <1>1 DEF Word
<1>3. c % 4 \in 0 .. 3 /\ delay \in 0 .. 128
  BY <1>2 DEF CauseDelay
<1>4. (c % 4) + 4 * code + delay \in Nat /\ (c % 4) + 4 * code + delay <= 179
  BY <1>3
<1> QED
  BY <1>1, <1>4 DEF CauseSoftware, Word

Causes == DOMAIN ExceptionCode

LEMMA CodeIs == \A c \in Causes : ExceptionCode[c] \in 0 .. 12
  BY DEF Causes, ExceptionCode

\* The interpreter raises c1 and the compiled code c2; D is where they may part.
LEMMA Thrown ==
  ASSUME NEW t, NEW k, NEW Y \in SUBSET Reg, Same(t, k, Y),
         NEW c1 \in Causes, NEW c2 \in Causes, NEW a \in Word, NEW D,
         IsAddressError(c1) = IsAddressError(c2),
         IsAddressError(c1) => ExceptionRegs \subseteq k.regs,
         "load" \in D \/ (t.load[1] = 0 /\ k.v[REG_LOAD_REG] = 0),
         "r" \in D \/ Y = Reg,
         {"sr", "cause", "epc", "pc"} \subseteq D \/ ExceptionRegs \subseteq k.regs,
         "cause" \in D \/ c1 = c2,
         "pc" \in D \/ ~IsBoot(t.sr),
         "epc" \in D \/ (~t.delay_slot /\ t.current_pc = CurrentPc(k))
  PROVE  LET u == Raise(t, c1, a)
             l == CompileException(k, c2, a)
         IN u.interrupt /\ l.done /\ l.cycles = k.i + 1 /\ Agree(u, l, Visible \ D)
<1> DEFINE u == Raise(t, c1, a)
           l == CompileException(k, c2, a)
           handler == IF IsBoot(t.sr) THEN HandlerBoot ELSE HandlerRam
           delay == IF t.delay_slot THEN CauseDelay ELSE 0
           cause1 == (t.cause % CauseSoftware) + 4 * ExceptionCode[c1] + delay
           epc1 == IF t.delay_slot THEN Wrap(t.current_pc - 4) ELSE t.current_pc
           baddr1 == IF IsAddressError(c1) THEN a ELSE t.baddr
           sr1 == Entered(t.sr)
           next == Wrap(handler + 4)
<1>1. /\ IsRef(t) /\ IsJit(k)
      /\ \A x \in Y : t.r[x] = k.v[x]
      /\ t.hi = k.v[REG_HI] /\ t.lo = k.v[REG_LO]
      /\ t.sr = k.v[REG_SR] /\ t.cause = k.v[REG_CAUSE]
      /\ t.epc = k.v[REG_EPC] /\ t.baddr = k.v[REG_BADDR]
      /\ t.mem = k.mem /\ t.gd = k.gd /\ t.gc = k.gc /\ t.delay_slot = k.delay_slot
      /\ \A x \in Var : x \notin k.regs => k.v[x] = k.m[x]
  BY DEF Same
<1>2. u = [t EXCEPT !.sr = sr1, !.cause = cause1, !.epc = epc1, !.baddr = baddr1,
                    !.pc = handler, !.next_pc = next, !.interrupt = TRUE]
  BY <1>1 DEF Raise, Entered, IsRef
<1>3. /\ handler \in Word /\ sr1 \in Word /\ cause1 \in Word /\ epc1 \in Word
      /\ baddr1 \in Word /\ next \in Word
  <2>1. /\ t.sr \in Word /\ t.cause \in Word /\ t.baddr \in Word /\ t.current_pc \in Word
        /\ t.delay_slot \in BOOLEAN
    BY <1>1 DEF IsRef
  <2>2. handler \in Word
    BY CpuAssumption
  <2>3. handler \in Int /\ t.current_pc \in Int
    BY <2>1, <2>2, Sizes DEF Word
  <2> HIDE DEF handler
  <2>4. next \in Word /\ epc1 \in Word
    BY <2>1, <2>3, WrapIsWord
  <2>5. cause1 \in Word
    <3>1. delay \in {0, CauseDelay} /\ ExceptionCode[c1] \in 0 .. 12
      BY CodeIs
    <3> HIDE DEF delay
    <3> QED
      BY <2>1, <3>1, RaisedCause
  <2> QED
    BY <2>1, <2>2, <2>4, <2>5, StatusWord
<1> HIDE DEF u, handler, sr1, cause1, epc1, baddr1, next
<1>4. /\ u.r = t.r /\ u.hi = t.hi /\ u.lo = t.lo /\ u.pc = handler /\ u.sr = sr1
      /\ u.cause = cause1 /\ u.epc = epc1 /\ u.baddr = baddr1 /\ u.load = t.load
      /\ u.mem = t.mem /\ u.gd = t.gd /\ u.gc = t.gc /\ u.interrupt = TRUE
  BY <1>1, <1>2 DEF IsRef
<1>5. IsRef(u)
  BY <1>1, <1>2, <1>3 DEF IsRef
<1> DEFINE sr0 == Use(k, REG_SR)
           sr2 == Entered(sr0)
           delay2 == IF k.delay_slot THEN CauseDelay ELSE 0
           cause2 == (Use(k, REG_CAUSE) % CauseSoftware) + 4 * ExceptionCode[c2] + delay2
           epc2 == IF k.delay_slot THEN Wrap(CurrentPc(k) - 4) ELSE CurrentPc(k)
           baddr2 == IF IsAddressError(c2) THEN a ELSE k.v[REG_BADDR]
           w == [k.v EXCEPT ![REG_SR] = sr2, ![REG_CAUSE] = cause2, ![REG_EPC] = epc2,
                            ![REG_BADDR] = baddr2]
           q == [k EXCEPT !.v = w]
           pc2 == IF IsBoot(sr2) THEN HandlerCompiled ELSE HandlerRam
<1>6. l = Return(q, pc2, GetCycles(k))
  <2>1. q = [k EXCEPT !.v[REG_SR] = sr2, !.v[REG_CAUSE] = cause2, !.v[REG_EPC] = epc2,
                      !.v[REG_BADDR] = baddr2]
    <3> HIDE DEF sr0, sr2, cause2, epc2, baddr2
    <3>1. k = [v |-> k.v, regs |-> k.regs, delayed_load |-> k.delayed_load, i |-> k.i,
               addr |-> k.addr, delay_slot |-> k.delay_slot, m |-> k.m, mem |-> k.mem,
               gd |-> k.gd, gc |-> k.gc, done |-> k.done, cycles |-> k.cycles]
      BY <1>1 DEF IsJit
    <3> QED
      BY <3>1
  <2> QED
    BY <2>1 DEF CompileException, Entered
<1>7. sr2 \in Word /\ cause2 \in Word /\ epc2 \in Word /\ baddr2 \in Word /\ k.i \in Nat
  <2>1. /\ k.v \in [Var -> Word] /\ k.delay_slot \in BOOLEAN /\ k.i \in Nat /\ k.addr \in Word
    BY <1>1 DEF IsJit
  <2>2. 0 \in Word /\ \A x \in Word : x \in Int
    BY Sizes DEF Word
  <2>3. sr0 \in Word /\ Use(k, REG_CAUSE) \in Word /\ k.v[REG_BADDR] \in Word
    BY <2>1, <2>2, VarFacts DEF Use
  <2>4. CurrentPc(k) \in Word
    <3>1. k.addr + 4 * k.i \in Int
      BY <2>1, <2>2
    <3> QED
      BY <3>1, WrapIsWord DEF CurrentPc
  <2>5. epc2 \in Word
    BY <2>2, <2>4, WrapIsWord
  <2>6. cause2 \in Word
    <3>1. delay2 \in {0, CauseDelay} /\ ExceptionCode[c2] \in 0 .. 12
      BY CodeIs
    <3> HIDE DEF delay2
    <3> QED
      BY <2>3, <3>1, RaisedCause
  <2> QED
    BY <2>1, <2>3, <2>5, <2>6, StatusWord
<1>8. /\ w \in [Var -> Word]
      /\ w[REG_SR] = sr2 /\ w[REG_CAUSE] = cause2 /\ w[REG_EPC] = epc2 /\ w[REG_BADDR] = baddr2
      /\ \A x \in Var \ ExceptionRegs : w[x] = k.v[x]
  <2>1. k.v \in [Var -> Word] /\ ExceptionRegs \subseteq Var
    BY <1>1, VarFacts DEF IsJit, ExceptionRegs
  <2> HIDE DEF sr2, cause2, epc2, baddr2
  <2> QED
    BY <1>7, <2>1, VarFacts DEF ExceptionRegs
<1> HIDE DEF l, sr0, sr2, cause2, epc2, baddr2, w, pc2
<1>9. IsJit(q)
  BY <1>1, <1>8 DEF IsJit
<1>10. /\ q.v = w /\ q.regs = k.regs /\ q.m = k.m /\ q.mem = k.mem /\ q.gd = k.gd /\ q.gc = k.gc
  BY <1>1 DEF IsJit
<1> HIDE DEF q
<1>11. /\ l.done /\ l.cycles = k.i + 1 /\ l.mem = k.mem /\ l.gd = k.gd /\ l.gc = k.gc
       /\ l.m[REG_PC] = pc2
       /\ \A x \in Var \ {REG_PC} : l.m[x] = IF x \in k.regs THEN w[x] ELSE k.m[x]
  BY <1>6, <1>9, <1>10, ReturnIs DEF GetCycles
<1>12. \A x \in Var \ (ExceptionRegs \cup {REG_PC}) : l.m[x] = k.v[x]
  BY <1>1, <1>8, <1>11
<1>13. "r" \in D \/ \A x \in Reg : u.r[x] = l.m[x]
  <2>1. Reg \subseteq Var \ (ExceptionRegs \cup {REG_PC})
    BY VarFacts DEF ExceptionRegs
  <2> QED
    BY <1>1, <1>4, <1>12, <2>1
<1>14. u.hi = l.m[REG_HI] /\ u.lo = l.m[REG_LO]
  <2>1. {REG_HI, REG_LO} \subseteq Var \ (ExceptionRegs \cup {REG_PC})
    BY VarFacts DEF ExceptionRegs
  <2> QED
    BY <1>1, <1>4, <1>12, <2>1
<1>15. \/ "load" \in D
       \/ u.load[1] = l.m[REG_LOAD_REG] /\ (u.load[1] # 0 => u.load[2] = l.m[REG_LOAD_VAL])
  <2>1. {REG_LOAD_REG} \subseteq Var \ (ExceptionRegs \cup {REG_PC})
    BY VarFacts DEF ExceptionRegs
  <2> QED
    BY <1>4, <1>12, <2>1
<1>16. u.mem = l.mem /\ u.gd = l.gd /\ u.gc = l.gc
  BY <1>1, <1>4, <1>11
<1>17. ExceptionRegs \subseteq Var /\ REG_PC \notin ExceptionRegs /\ ExceptionRegs = {REG_SR, REG_CAUSE, REG_EPC, REG_BADDR}
  BY VarFacts DEF ExceptionRegs
<1>18. "sr" \in D \/ u.sr = l.m[REG_SR]
  <2>1. CASE ExceptionRegs \subseteq k.regs
    <3>1. l.m[REG_SR] = sr2 /\ sr0 = t.sr
      BY <1>1, <1>8, <1>11, <1>17, <2>1 DEF Use, sr0
    <3> QED
      BY <1>4, <3>1 DEF sr1, sr2
  <2> QED
    BY <2>1
<1>19. "cause" \in D \/ u.cause = l.m[REG_CAUSE]
  <2>1. CASE ExceptionRegs \subseteq k.regs /\ c1 = c2
    <3>1. l.m[REG_CAUSE] = cause2 /\ Use(k, REG_CAUSE) = t.cause
      BY <1>1, <1>8, <1>11, <1>17, <2>1 DEF Use
    <3> QED
      BY <1>1, <1>4, <2>1, <3>1 DEF cause1, cause2
  <2> QED
    BY <2>1
<1>20. "epc" \in D \/ u.epc = l.m[REG_EPC]
  <2>1. CASE ExceptionRegs \subseteq k.regs /\ ~t.delay_slot /\ t.current_pc = CurrentPc(k)
    <3>1. l.m[REG_EPC] = epc2
      BY <1>8, <1>11, <1>17, <2>1
    <3> QED
      BY <1>1, <1>4, <2>1, <3>1 DEF epc1, epc2
  <2> QED
    BY <2>1
<1>21. u.baddr = l.m[REG_BADDR]
  <2>1. CASE REG_BADDR \in k.regs
    <3>1. l.m[REG_BADDR] = baddr2
      BY <1>8, <1>11, <1>17, <2>1
    <3> QED
      BY <1>1, <1>4, <3>1 DEF baddr1, baddr2
  <2>2. CASE REG_BADDR \notin k.regs
    <3>1. ~IsAddressError(c1) /\ l.m[REG_BADDR] = k.v[REG_BADDR]
      BY <1>1, <1>11, <1>17, <2>2
    <3> QED
      BY <1>1, <1>4, <3>1 DEF baddr1
  <2> QED
    BY <2>1, <2>2
<1>22. "pc" \in D \/ u.pc = l.m[REG_PC]
  <2>1. CASE ExceptionRegs \subseteq k.regs /\ ~IsBoot(t.sr)
    <3>1. sr0 = t.sr /\ t.sr \in Word
      BY <1>1, <1>17, <2>1 DEF Use, sr0, IsRef
    <3>2. ~IsBoot(sr2)
      BY <2>1, <3>1, StatusWord DEF sr2
    <3> QED
      BY <1>4, <1>11, <2>1, <3>2 DEF handler, pc2
  <2> QED
    BY <2>1
<1>23. Agree(u, l, Visible \ D)
  BY <1>5, <1>13, <1>14, <1>15, <1>16, <1>18, <1>19, <1>20, <1>21, <1>22, Agreement
<1> QED
  BY <1>4, <1>11, <1>23 DEF u, l

-----------------------------------------------------------------------------
(* The instructions, one kind after the other.                             *)

\* Where the two may part when n raises an exception.
Parting(s, n, Y) ==
    (IF IsBoot(s.sr) THEN {"pc"} ELSE {})
    \cup (IF s.delay_slot THEN {"epc"} ELSE {})
    \cup (IF n.op = "swc2" THEN {"cause"} ELSE {})
    \cup (IF n.op \in {"add", "addi", "cop3"} /\ s.load[1] # 0 THEN {"r", "load"} ELSE {})
    \cup (IF IsIllegal(n) \/ n.op \in Unlisted THEN {"sr", "cause", "epc", "pc"} ELSE {})
    \cup (IF Y # Reg THEN {"r"} ELSE {})

Stepped(s, j, t, k, Y, n) ==
    \/ Ran(s, j, t, k, Y, n)
    \/ /\ t.interrupt /\ k.done /\ k.cycles = j.i + 1
       /\ Agree(t, k, Visible \ Parting(s, n, Y))

\* s and j are the same machine about to execute n, which is no jump and is in
\* none of the cases where the two are known to part for good.
Together(s, j, X, Y, n) ==
    /\ X \in SUBSET Reg /\ Y \in SUBSET X /\ Same(s, j, X) /\ Ready(s, j, Y)
    /\ IsInstruction(n) /\ ~IsJump(n) /\ GetRegisters(n) \subseteq j.regs
    /\ {n.rs, n.rt, n.rd} \cap Reg \subseteq X
    /\ ~(Fresh(s, j) /\ n.op \in LoadOps /\ s.load[1] # 0 /\ s.load[1] = n.rt)
    /\ ~(n.op \in {"mthi", "mtlo"} /\ s.load[1] # 0 /\ s.load[1] = n.rs)
    /\ ~(n.op \in {"swl", "swr"} /\ IsIsolated(s.sr))
    /\ s.delay_slot \/ s.current_pc = CurrentPc(j)

LEMMA OperandIs ==
  ASSUME NEW s, NEW j, NEW X \in SUBSET Reg, Same(s, j, X), NEW x \in X, x \in j.regs
  PROVE  Use(j, x) = s.r[x] /\ s.r[x] \in Word /\ s.r[x] \in Int
  BY Sizes DEF Same, IsRef, Use, Word

LEMMA FieldsOf ==
  ASSUME NEW n, IsInstruction(n)
  PROVE  /\ n.rs \in Reg /\ n.imm \in Nat /\ n.op \in Ops
         /\ n.op # "bxx" => n.rt \in Reg
         /\ n.op \notin Cop0Ops => n.rd \in Reg
         /\ n.op \notin {"j", "jal"} => ImmSe(n) \in Word /\ n.imm \in Word
<1>1. /\ n.rs \in Reg /\ n.imm \in Nat /\ n.op \in Ops
      /\ n.op # "bxx" => n.rt \in Reg
      /\ n.op \notin Cop0Ops => n.rd \in Reg
      /\ n.op \notin {"j", "jal"} => n.imm < Half
  BY DEF IsInstruction
<1>2. n.imm < Half => n.imm \in Word
  BY <1>1, Halves, Sizes DEF Word
<1>3. n.imm \in Word => ImmSe(n) \in Word
  BY Halves, ExtendWord DEF ImmSe
<1> QED
  BY <1>1, <1>2, <1>3

LEMMA ExecuteLogic ==
  ASSUME NEW s, NEW j, NEW n, n.op \in LogicOps
  PROVE  /\ Execute(s, n) = Compute(s, n) /\ CompileInstr(j, n) = CompileLogic(j, n)
         /\ Value(s, n) = LogicValue(s, n)
<1>1. Execute(s, n) = Compute(s, n)
  BY DEF Execute, LogicOps, ShiftOps, AddOps, SetOps, Traps, Coprocessor
<1>2. CompileInstr(j, n) = CompileLogic(j, n)
  BY DEF CompileInstr, LogicOps, Cop2Ops
<1>3. Value(s, n) = LogicValue(s, n)
  BY DEF Value, LogicOps, ShiftOps, AddOps, SetOps
<1> QED
  BY <1>1, <1>2, <1>3

\* What every instruction here may rely on.
LEMMA Basics ==
  ASSUME NEW s, NEW j, NEW X, NEW Y, NEW n, Together(s, j, X, Y, n)
  PROVE  /\ X \in SUBSET Reg /\ Y \in SUBSET X /\ Same(s, j, X) /\ Ready(s, j, Y)
         /\ IsRef(s) /\ IsJit(j)
         /\ n.rs \in X /\ n.rt \in X /\ (n.op \notin Cop0Ops => n.rd \in X)
         /\ n.imm \in Word /\ n.imm \in Nat /\ ImmSe(n) \in Word /\ ImmSe(n) \in Int
         /\ \A x \in X : x \in j.regs => Use(j, x) = s.r[x]
         /\ \A x \in Reg : s.r[x] \in Word /\ s.r[x] \in Int
         /\ GetRegisters(n) \subseteq j.regs
<1>1. /\ X \in SUBSET Reg /\ Y \in SUBSET X /\ Same(s, j, X) /\ Ready(s, j, Y)
      /\ IsInstruction(n) /\ ~IsJump(n) /\ GetRegisters(n) \subseteq j.regs
      /\ {n.rs, n.rt, n.rd} \cap Reg \subseteq X
  BY DEF Together
<1>2. n.op \notin {"bxx", "j", "jal"}
  BY <1>1 DEF IsJump, IsConditionalJump, IsUnconditionalJump
<1>3. IsRef(s) /\ IsJit(j)
  BY <1>1 DEF Same
<1>4. \A x \in X : x \in j.regs => Use(j, x) = s.r[x]
  BY <1>1, OperandIs
<1>5. \A x \in Reg : s.r[x] \in Word /\ s.r[x] \in Int
  BY <1>3, Sizes DEF IsRef, Word
<1>6. /\ n.rs \in X /\ n.rt \in X /\ (n.op \notin Cop0Ops => n.rd \in X)
      /\ n.imm \in Word /\ n.imm \in Nat /\ ImmSe(n) \in Word
  BY <1>1, <1>2, FieldsOf
<1>7. ImmSe(n) \in Int
  BY <1>6, Sizes DEF Word
<1> QED
  BY <1>1, <1>3, <1>4, <1>5, <1>6, <1>7

\* The registers an instruction makes the block load.
LEMMA RegistersOf ==
  ASSUME NEW n
  PROVE
  /\ n.op \in {"lui"} => GetRegisters(n) = {n.rt}
  /\ n.op \in {"ori", "xori", "andi", "addiu", "slti", "sltiu"} => GetRegisters(n) = {n.rs, n.rt}
  /\ n.op \in {"or", "xor", "nor", "and", "addu", "subu", "slt", "sltu", "sllv", "srlv", "srav"} => GetRegisters(n) = {n.rt, n.rs, n.rd}
  /\ n.op \in {"sll", "srl", "sra"} => GetRegisters(n) = {n.rt, n.rd}
  /\ n.op \in {"add", "sub"} => GetRegisters(n) = ExceptionRegs \cup {n.rt, n.rs, n.rd}
  /\ n.op \in {"addi"} => GetRegisters(n) = ExceptionRegs \cup {n.rs, n.rt}
  /\ n.op \in {"mfhi"} => GetRegisters(n) = {REG_HI, n.rd}
  /\ n.op \in {"mthi"} => GetRegisters(n) = {REG_HI, n.rs}
  /\ n.op \in {"mflo"} => GetRegisters(n) = {REG_LO, n.rd}
  /\ n.op \in {"mtlo"} => GetRegisters(n) = {REG_LO, n.rs}
  /\ n.op \in {"mult", "multu", "div", "divu"} => GetRegisters(n) = {n.rt, n.rs, REG_LO, REG_HI}
  /\ n.op \in {"syscall", "break"} => GetRegisters(n) = ExceptionRegs
  /\ n.op \in {"lb", "lbu", "lwl", "lwr"} => GetRegisters(n) = {n.rs, n.rt}
  /\ n.op \in {"lh", "lhu", "lw", "sh", "sw"} => GetRegisters(n) = {n.rs, n.rt} \cup ExceptionRegs
  /\ n.op \in {"sb", "swl", "swr"} => GetRegisters(n) = {n.rs, n.rt, REG_SR}
  /\ n.op \in {"lwc2", "swc2"} => GetRegisters(n) = {n.rs} \cup ExceptionRegs
  /\ n.op \in {"mfc2", "cfc2", "mtc2", "ctc2"} => GetRegisters(n) = {n.rt}
  /\ n.op \in {"rfe"} => GetRegisters(n) = {REG_SR}
  /\ n.op \in {"j"} => GetRegisters(n) = {}
  /\ n.op \in {"jal"} => GetRegisters(n) = {31}
  /\ n.op \in {"jr"} => GetRegisters(n) = {n.rs}
  /\ n.op \in {"jalr"} => GetRegisters(n) = {n.rs, n.rd}
  /\ n.op \in {"beq", "bne"} => GetRegisters(n) = {n.rs, n.rt}
  /\ n.op \in {"blez", "bgtz"} => GetRegisters(n) = {n.rs}
  /\ n.op \in {"bxx"} => GetRegisters(n) = {n.rs, 31}
  /\ n.op \in {"mfc0", "mtc0"} =>
       /\ n.rt \in GetRegisters(n)
       /\ n.rd = 8 => REG_BADDR \in GetRegisters(n)
       /\ n.rd = 12 => REG_SR \in GetRegisters(n)
       /\ n.rd = 13 => REG_CAUSE \in GetRegisters(n)
       /\ n.rd = 14 => REG_EPC \in GetRegisters(n)
<1>1. ASSUME n.op \in {"lui"} PROVE GetRegisters(n) = {n.rt}
  <2>1. GetRegisters(n) = RegsOfImmediate(n)
    BY <1>1 DEF GetRegisters, Special, Immediate, MemoryOps, Cop0Ops, Cop2Ops
  <2> QED
    BY <1>1, <2>1 DEF RegsOfImmediate
<1>2. ASSUME n.op \in {"ori", "xori", "andi", "addiu", "slti", "sltiu"} PROVE GetRegisters(n) = {n.rs, n.rt}
  <2>1. GetRegisters(n) = RegsOfImmediate(n)
    BY <1>2 DEF GetRegisters, Special, Immediate, MemoryOps, Cop0Ops, Cop2Ops
  <2> QED
    BY <1>2, <2>1 DEF RegsOfImmediate
<1>3. ASSUME n.op \in {"or", "xor", "nor", "and", "addu", "subu", "slt", "sltu", "sllv", "srlv", "srav"} PROVE GetRegisters(n) = {n.rt, n.rs, n.rd}
  <2>1. GetRegisters(n) = RegsOfSpecial(n)
    BY <1>3 DEF GetRegisters, Special, Immediate, MemoryOps, Cop0Ops, Cop2Ops
  <2> QED
    BY <1>3, <2>1 DEF RegsOfSpecial
<1>4. ASSUME n.op \in {"sll", "srl", "sra"} PROVE GetRegisters(n) = {n.rt, n.rd}
  <2>1. GetRegisters(n) = RegsOfSpecial(n)
    BY <1>4 DEF GetRegisters, Special, Immediate, MemoryOps, Cop0Ops, Cop2Ops
  <2> QED
    BY <1>4, <2>1 DEF RegsOfSpecial
<1>5. ASSUME n.op \in {"add", "sub"} PROVE GetRegisters(n) = ExceptionRegs \cup {n.rt, n.rs, n.rd}
  <2>1. GetRegisters(n) = RegsOfSpecial(n)
    BY <1>5 DEF GetRegisters, Special, Immediate, MemoryOps, Cop0Ops, Cop2Ops
  <2> QED
    BY <1>5, <2>1 DEF RegsOfSpecial
<1>6. ASSUME n.op \in {"addi"} PROVE GetRegisters(n) = ExceptionRegs \cup {n.rs, n.rt}
  <2>1. GetRegisters(n) = RegsOfImmediate(n)
    BY <1>6 DEF GetRegisters, Special, Immediate, MemoryOps, Cop0Ops, Cop2Ops
  <2> QED
    BY <1>6, <2>1 DEF RegsOfImmediate
<1>7. ASSUME n.op \in {"mfhi"} PROVE GetRegisters(n) = {REG_HI, n.rd}
  <2>1. GetRegisters(n) = RegsOfSpecial(n)
    BY <1>7 DEF GetRegisters, Special, Immediate, MemoryOps, Cop0Ops, Cop2Ops
  <2> QED
    BY <1>7, <2>1 DEF RegsOfSpecial
<1>8. ASSUME n.op \in {"mthi"} PROVE GetRegisters(n) = {REG_HI, n.rs}
  <2>1. GetRegisters(n) = RegsOfSpecial(n)
    BY <1>8 DEF GetRegisters, Special, Immediate, MemoryOps, Cop0Ops, Cop2Ops
  <2> QED
    BY <1>8, <2>1 DEF RegsOfSpecial
<1>9. ASSUME n.op \in {"mflo"} PROVE GetRegisters(n) = {REG_LO, n.rd}
  <2>1. GetRegisters(n) = RegsOfSpecial(n)
    BY <1>9 DEF GetRegisters, Special, Immediate, MemoryOps, Cop0Ops, Cop2Ops
  <2> QED
    BY <1>9, <2>1 DEF RegsOfSpecial
<1>10. ASSUME n.op \in {"mtlo"} PROVE GetRegisters(n) = {REG_LO, n.rs}
  <2>1. GetRegisters(n) = RegsOfSpecial(n)
    BY <1>10 DEF GetRegisters, Special, Immediate, MemoryOps, Cop0Ops, Cop2Ops
  <2> QED
    BY <1>10, <2>1 DEF RegsOfSpecial
<1>11. ASSUME n.op \in {"mult", "multu", "div", "divu"} PROVE GetRegisters(n) = {n.rt, n.rs, REG_LO, REG_HI}
  <2>1. GetRegisters(n) = RegsOfSpecial(n)
    BY <1>11 DEF GetRegisters, Special, Immediate, MemoryOps, Cop0Ops, Cop2Ops
  <2> QED
    BY <1>11, <2>1 DEF RegsOfSpecial
<1>12. ASSUME n.op \in {"syscall", "break"} PROVE GetRegisters(n) = ExceptionRegs
  <2>1. GetRegisters(n) = RegsOfSpecial(n)
    BY <1>12 DEF GetRegisters, Special, Immediate, MemoryOps, Cop0Ops, Cop2Ops
  <2> QED
    BY <1>12, <2>1 DEF RegsOfSpecial
<1>13. ASSUME n.op \in {"lb", "lbu", "lwl", "lwr"} PROVE GetRegisters(n) = {n.rs, n.rt}
  <2>1. GetRegisters(n) = RegsOfMemory(n)
    BY <1>13 DEF GetRegisters, Special, Immediate, MemoryOps, Cop0Ops, Cop2Ops
  <2> QED
    BY <1>13, <2>1 DEF RegsOfMemory
<1>14. ASSUME n.op \in {"lh", "lhu", "lw", "sh", "sw"} PROVE GetRegisters(n) = {n.rs, n.rt} \cup ExceptionRegs
  <2>1. GetRegisters(n) = RegsOfMemory(n)
    BY <1>14 DEF GetRegisters, Special, Immediate, MemoryOps, Cop0Ops, Cop2Ops
  <2> QED
    BY <1>14, <2>1 DEF RegsOfMemory
<1>15. ASSUME n.op \in {"sb", "swl", "swr"} PROVE GetRegisters(n) = {n.rs, n.rt, REG_SR}
  <2>1. GetRegisters(n) = RegsOfMemory(n)
    BY <1>15 DEF GetRegisters, Special, Immediate, MemoryOps, Cop0Ops, Cop2Ops
  <2> QED
    BY <1>15, <2>1 DEF RegsOfMemory
<1>16. ASSUME n.op \in {"lwc2", "swc2"} PROVE GetRegisters(n) = {n.rs} \cup ExceptionRegs
  <2>1. GetRegisters(n) = RegsOfMemory(n)
    BY <1>16 DEF GetRegisters, Special, Immediate, MemoryOps, Cop0Ops, Cop2Ops
  <2> QED
    BY <1>16, <2>1 DEF RegsOfMemory
<1>17. ASSUME n.op \in {"mfc2", "cfc2", "mtc2", "ctc2"} PROVE GetRegisters(n) = {n.rt}
  <2>1. GetRegisters(n) = RegsOfCop2(n)
    BY <1>17 DEF GetRegisters, Special, Immediate, MemoryOps, Cop0Ops, Cop2Ops
  <2> QED
    BY <1>17, <2>1 DEF RegsOfCop2
<1>18. ASSUME n.op \in {"rfe"} PROVE GetRegisters(n) = {REG_SR}
  <2>1. GetRegisters(n) = RegsOfCop0(n)
    BY <1>18 DEF GetRegisters, Special, Immediate, MemoryOps, Cop0Ops, Cop2Ops
  <2> QED
    BY <1>18, <2>1 DEF RegsOfCop0
<1>19. ASSUME n.op \in {"j"} PROVE GetRegisters(n) = {}
  <2>1. GetRegisters(n) = RegsOfImmediate(n)
    BY <1>19 DEF GetRegisters, Special, Immediate, MemoryOps, Cop0Ops, Cop2Ops
  <2> QED
    BY <1>19, <2>1 DEF RegsOfImmediate
<1>20. ASSUME n.op \in {"jal"} PROVE GetRegisters(n) = {31}
  <2>1. GetRegisters(n) = RegsOfImmediate(n)
    BY <1>20 DEF GetRegisters, Special, Immediate, MemoryOps, Cop0Ops, Cop2Ops
  <2> QED
    BY <1>20, <2>1 DEF RegsOfImmediate
<1>21. ASSUME n.op \in {"jr"} PROVE GetRegisters(n) = {n.rs}
  <2>1. GetRegisters(n) = RegsOfSpecial(n)
    BY <1>21 DEF GetRegisters, Special, Immediate, MemoryOps, Cop0Ops, Cop2Ops
  <2> QED
    BY <1>21, <2>1 DEF RegsOfSpecial
<1>22. ASSUME n.op \in {"jalr"} PROVE GetRegisters(n) = {n.rs, n.rd}
  <2>1. GetRegisters(n) = RegsOfSpecial(n)
    BY <1>22 DEF GetRegisters, Special, Immediate, MemoryOps, Cop0Ops, Cop2Ops
  <2> QED
    BY <1>22, <2>1 DEF RegsOfSpecial
<1>23. ASSUME n.op \in {"beq", "bne"} PROVE GetRegisters(n) = {n.rs, n.rt}
  <2>1. GetRegisters(n) = RegsOfImmediate(n)
    BY <1>23 DEF GetRegisters, Special, Immediate, MemoryOps, Cop0Ops, Cop2Ops
  <2> QED
    BY <1>23, <2>1 DEF RegsOfImmediate
<1>24. ASSUME n.op \in {"blez", "bgtz"} PROVE GetRegisters(n) = {n.rs}
  <2>1. GetRegisters(n) = RegsOfImmediate(n)
    BY <1>24 DEF GetRegisters, Special, Immediate, MemoryOps, Cop0Ops, Cop2Ops
  <2> QED
    BY <1>24, <2>1 DEF RegsOfImmediate
<1>25. ASSUME n.op \in {"bxx"} PROVE GetRegisters(n) = {n.rs, 31}
  <2>1. GetRegisters(n) = RegsOfImmediate(n)
    BY <1>25 DEF GetRegisters, Special, Immediate, MemoryOps, Cop0Ops, Cop2Ops
  <2> QED
    BY <1>25, <2>1 DEF RegsOfImmediate
<1>26. ASSUME n.op \in {"mfc0", "mtc0"}
      PROVE  /\ n.rt \in GetRegisters(n)
             /\ n.rd = 8 => REG_BADDR \in GetRegisters(n)
             /\ n.rd = 12 => REG_SR \in GetRegisters(n)
             /\ n.rd = 13 => REG_CAUSE \in GetRegisters(n)
             /\ n.rd = 14 => REG_EPC \in GetRegisters(n)
  <2>1. GetRegisters(n) = RegsOfCop0(n)
    BY <1>26 DEF GetRegisters, Special, Immediate, MemoryOps, Cop0Ops, Cop2Ops
  <2> QED
    BY <1>26, <2>1 DEF RegsOfCop0
<1> QED
  BY <1>1, <1>2, <1>3, <1>4, <1>5, <1>6, <1>7, <1>8, <1>9,
     <1>10, <1>11, <1>12, <1>13, <1>14, <1>15, <1>16, <1>17, <1>18,
     <1>19, <1>20, <1>21, <1>22, <1>23, <1>24, <1>25, <1>26

LEMMA LogicSteps ==
  ASSUME NEW s, NEW j, NEW X, NEW Y, NEW n, Together(s, j, X, Y, n), n.op \in LogicOps
  PROVE  Ran(s, j, Execute(s, n), CompileInstr(j, n), Y, n)
<1> DEFINE w == LogicValue(s, n)
           x == Dest(n)
<1>1. /\ X \in SUBSET Reg /\ Y \in SUBSET X /\ Same(s, j, X) /\ Ready(s, j, Y)
      /\ n.rs \in X /\ n.rt \in X /\ (n.op \notin Cop0Ops => n.rd \in X)
      /\ n.imm \in Word /\ n.imm \in Nat /\ GetRegisters(n) \subseteq j.regs
      /\ \A r \in X : r \in j.regs => Use(j, r) = s.r[r]
      /\ \A r \in Reg : s.r[r] \in Word /\ s.r[r] \in Int
  BY Basics
<1>2. /\ x \in Reg /\ x \in {n.rt, n.rd} /\ x \in j.regs
      /\ n.op # "lui" => n.rs \in j.regs
      /\ n.op \in {"or", "xor", "nor", "and"} => n.rt \in j.regs
  <2>1. CASE n.op \in {"lui", "ori", "xori", "andi"}
    BY <1>1, <2>1, RegistersOf DEF Dest, ToRt
  <2>2. CASE n.op \in {"or", "xor", "nor", "and"}
    BY <1>1, <2>2, RegistersOf DEF Dest, ToRt, Cop0Ops
  <2> QED
    BY <2>1, <2>2 DEF LogicOps
<1>3. w \in Word
  <2>1. CASE n.op = "lui"
    <3>1. n.imm * Half \in Word
      <4>1. n.imm < Half
        BY <2>1 DEF Together, IsInstruction
      <4>2. n.imm * Half \in Nat /\ n.imm * Half <= (Half - 1) * Half
            /\ (Half - 1) * Half = Half * Half - Half
        BY <1>1, <4>1, Halves
      <4> QED
        BY <4>2, Halves, Sizes DEF Word
    <3> QED
      BY <2>1, <3>1 DEF LogicValue
  <2>2. CASE n.op # "lui"
    BY <1>1, <2>2, LogicWord DEF LogicValue, LogicOps
  <2> QED
    BY <2>1, <2>2
<1>4. CompileLogic(j, n) = DefReg(CompileDelayedLoad(j, TRUE), x, w)
  <2> DEFINE a == Use(j, n.rs)
             b == Use(j, n.rt)
  <2>1. CASE n.op = "lui"
    BY <2>1 DEF CompileLogic, LogicValue, Dest, ToRt
  <2>2. CASE n.op \in {"ori", "xori", "andi"}
    <3>1. a = s.r[n.rs]
      BY <1>1, <1>2, <2>2
    <3>2. Or(a, n.imm) = Or(n.imm, a)
      BY DEF Or
    <3> HIDE DEF a
    <3> QED
      BY <2>2, <3>1, <3>2 DEF CompileLogic, LogicValue, Dest, ToRt, a
  <2>3. CASE n.op \in {"or", "xor", "nor", "and"}
    <3>1. a = s.r[n.rs] /\ b = s.r[n.rt]
      BY <1>1, <1>2, <2>3
    <3> QED
      BY <2>3, <3>1 DEF CompileLogic, LogicValue, Dest, ToRt
  <2> QED
    BY <2>1, <2>2, <2>3 DEF LogicOps
<1> HIDE DEF w, x
<1>5. Ran(s, j, SetReg(DelayedLoad(s), x, w), DefReg(CompileDelayedLoad(j, TRUE), x, w), Y, n)
  BY <1>1, <1>2, <1>3, ResultRuns
<1>6. Execute(s, n) = SetReg(DelayedLoad(s), x, w)
  BY ExecuteLogic DEF Compute, x, w
<1> QED
  BY <1>4, <1>5, <1>6, ExecuteLogic

LEMMA ExecuteShift ==
  ASSUME NEW s, NEW j, NEW n, n.op \in ShiftOps
  PROVE  /\ Execute(s, n) = Compute(s, n) /\ CompileInstr(j, n) = CompileShift(j, n)
         /\ Value(s, n) = ShiftValue(s, n)
<1>1. Execute(s, n) = Compute(s, n)
  BY DEF Execute, LogicOps, ShiftOps, AddOps, SetOps, Traps, Coprocessor
<1>2. CompileInstr(j, n) = CompileShift(j, n)
  BY DEF CompileInstr, ShiftOps, Cop2Ops
<1>3. Value(s, n) = ShiftValue(s, n)
  BY DEF Value, LogicOps, ShiftOps, AddOps, SetOps
<1> QED
  BY <1>1, <1>2, <1>3

LEMMA ShiftSteps ==
  ASSUME NEW s, NEW j, NEW X, NEW Y, NEW n, Together(s, j, X, Y, n), n.op \in ShiftOps
  PROVE  Ran(s, j, Execute(s, n), CompileInstr(j, n), Y, n)
<1> DEFINE w == ShiftValue(s, n)
           x == Dest(n)
<1>1. /\ X \in SUBSET Reg /\ Y \in SUBSET X /\ Same(s, j, X) /\ Ready(s, j, Y)
      /\ n.rs \in X /\ n.rt \in X /\ (n.op \notin Cop0Ops => n.rd \in X)
      /\ n.imm \in Word /\ n.imm \in Nat /\ ImmSe(n) \in Word /\ ImmSe(n) \in Int
      /\ \A r \in X : r \in j.regs => Use(j, r) = s.r[r]
      /\ \A r \in Reg : s.r[r] \in Word /\ s.r[r] \in Int
      /\ GetRegisters(n) \subseteq j.regs
  BY Basics
<1>2. /\ x = n.rd /\ x \in Reg /\ x \in {n.rt, n.rd} /\ x \in j.regs /\ n.rt \in j.regs
      /\ n.op \in {"sllv", "srlv", "srav"} => n.rs \in j.regs
  <2>1. CASE n.op \in {"sll", "srl", "sra"}
    BY <1>1, <2>1, RegistersOf DEF Dest, ToRt, Cop0Ops
  <2>2. CASE n.op \in {"sllv", "srlv", "srav"}
    BY <1>1, <2>2, RegistersOf DEF Dest, ToRt, Cop0Ops
  <2> QED
    BY <2>1, <2>2 DEF ShiftOps
<1> DEFINE places == 4 * ByteBits
           i == IF n.op \in {"sllv", "srav", "srlv"} THEN s.r[n.rs] ELSE n.imm
           by == IF n.op \in {"sllv", "srlv", "srav"} THEN Use(j, n.rs) % places ELSE n.imm
           v == s.r[n.rt]
<1>7. /\ i % places = by /\ by \in Places /\ Pow2[by] \in Nat \ {0}
      /\ v \in Word /\ v \in Int /\ Use(j, n.rt) = v
  <2>1. places \in Nat \ {0}
    BY Widths
  <2>2. v \in Word /\ v \in Int /\ Use(j, n.rt) = v
    BY <1>1, <1>2
  <2>3. i % places = by /\ by \in 0 .. places
    <3>1. CASE n.op \in {"sllv", "srlv", "srav"}
      <4>1. i = s.r[n.rs] /\ Use(j, n.rs) = s.r[n.rs] /\ s.r[n.rs] \in Int
        BY <1>1, <1>2, <3>1
      <4> HIDE DEF i, places
      <4>2. s.r[n.rs] % places \in 0 .. places - 1
        BY <2>1, <4>1, Division
      <4> QED
        BY <2>1, <3>1, <4>1, <4>2
    <3>2. CASE n.op \notin {"sllv", "srlv", "srav"}
      <4>1. n.imm < places /\ i = n.imm /\ by = n.imm
        BY <3>2 DEF Together, IsInstruction, ShiftOps
      <4> HIDE DEF i, by, places
      <4>2. n.imm % places = n.imm
        BY <1>1, <2>1, <4>1
      <4> QED
        BY <1>1, <2>1, <4>1, <4>2
    <3> QED
      BY <3>1, <3>2
  <2>4. Pow2[by] \in Nat \ {0}
    BY <2>3, PowerIsPositive DEF Places
  <2> QED
    BY <2>2, <2>3, <2>4 DEF Places
<1> HIDE DEF v
<1> DEFINE p == Pow2[by]
<1>8. w = CASE n.op \in {"sll", "sllv"} -> Wrap(v * p)
            [] n.op \in {"sra", "srav"} -> Wrap(Signed(v) \div p)
            [] n.op \in {"srl", "srlv"} -> v \div p
  BY <1>7 DEF ShiftValue, v
<1>3. w \in Word
  <2>1. p \in Nat \ {0}
    BY <1>7
  <2> HIDE DEF p, w
  <2>2. Wrap(v * p) \in Word
    BY <1>7, <2>1, WrapIsWord
  <2>3. Wrap(Signed(v) \div p) \in Word
    <3>1. Signed(v) \in Int
      BY <1>7, SignedWord
    <3>2. Signed(v) \div p \in Int
      BY <2>1, <3>1, Division
    <3> QED
      BY <3>2, WrapIsWord
  <2>4. v \div p \in Word
    <3>1. v \in Nat
      BY <1>7 DEF Word
    <3>2. v \div p \in 0 .. v
      BY <2>1, <3>1, QuotientSmaller
    <3> QED
      BY <1>7, <3>2, Sizes DEF Word
  <2> QED
    BY <1>8, <2>2, <2>3, <2>4 DEF ShiftOps
<1>4. CompileShift(j, n) = DefReg(CompileDelayedLoad(j, TRUE), x, w)
  <2> HIDE DEF w
  <2>1. CompileShift(j, n) = DefReg(CompileDelayedLoad(j, TRUE), n.rd,
            CASE n.op \in {"sll", "sllv"} -> Wrap(v * p)
              [] n.op \in {"srl", "srlv"} -> v \div p
              [] n.op \in {"sra", "srav"} -> Wrap(Signed(v) \div p))
    BY <1>7 DEF CompileShift
  <2> HIDE DEF p, by, i, x
  <2>2. w = CASE n.op \in {"sll", "sllv"} -> Wrap(v * p)
              [] n.op \in {"srl", "srlv"} -> v \div p
              [] n.op \in {"sra", "srav"} -> Wrap(Signed(v) \div p)
    BY <1>8 DEF ShiftOps
  <2> QED
    BY <1>2, <2>1, <2>2
<1> HIDE DEF w, x
<1>5. Ran(s, j, SetReg(DelayedLoad(s), x, w), DefReg(CompileDelayedLoad(j, TRUE), x, w), Y, n)
  BY <1>1, <1>2, <1>3, ResultRuns
<1>6. Execute(s, n) = SetReg(DelayedLoad(s), x, w)
  BY ExecuteShift DEF Compute, x, w
<1> QED
  BY <1>4, <1>5, <1>6, ExecuteShift

LEMMA ExecuteAdd ==
  ASSUME NEW s, NEW j, NEW n, n.op \in AddOps
  PROVE  /\ Execute(s, n) = Compute(s, n) /\ CompileInstr(j, n) = CompileAddu(j, n)
         /\ Value(s, n) = AddValue(s, n)
<1>1. Execute(s, n) = Compute(s, n)
  BY DEF Execute, LogicOps, ShiftOps, AddOps, SetOps, Traps, Coprocessor
<1>2. CompileInstr(j, n) = CompileAddu(j, n)
  BY DEF CompileInstr, AddOps, Cop2Ops
<1>3. Value(s, n) = AddValue(s, n)
  BY DEF Value, LogicOps, ShiftOps, AddOps, SetOps
<1> QED
  BY <1>1, <1>2, <1>3

LEMMA AddSteps ==
  ASSUME NEW s, NEW j, NEW X, NEW Y, NEW n, Together(s, j, X, Y, n), n.op \in AddOps
  PROVE  Ran(s, j, Execute(s, n), CompileInstr(j, n), Y, n)
<1> DEFINE w == AddValue(s, n)
           x == Dest(n)
<1>1. /\ X \in SUBSET Reg /\ Y \in SUBSET X /\ Same(s, j, X) /\ Ready(s, j, Y)
      /\ n.rs \in X /\ n.rt \in X /\ (n.op \notin Cop0Ops => n.rd \in X)
      /\ n.imm \in Word /\ n.imm \in Nat /\ ImmSe(n) \in Word /\ ImmSe(n) \in Int
      /\ \A r \in X : r \in j.regs => Use(j, r) = s.r[r]
      /\ \A r \in Reg : s.r[r] \in Word /\ s.r[r] \in Int
      /\ GetRegisters(n) \subseteq j.regs
  BY Basics
<1>2. /\ x \in Reg /\ x \in {n.rt, n.rd} /\ x \in j.regs /\ n.rs \in j.regs
      /\ n.op \notin {"addiu"} => n.rt \in j.regs
      /\ n.op \in {"addiu"} => x = n.rt
      /\ n.op \notin {"addiu"} => x = n.rd
  <2>1. CASE n.op \in {"addiu"}
    BY <1>1, <2>1, RegistersOf DEF Dest, ToRt
  <2>2. CASE n.op \notin {"addiu"}
    BY <1>1, <2>2, RegistersOf DEF Dest, ToRt, Cop0Ops, AddOps
  <2> QED
    BY <2>1, <2>2
<1>7. Use(j, n.rs) = s.r[n.rs] /\ (n.op \notin {"addiu"} => Use(j, n.rt) = s.r[n.rt])
      /\ s.r[n.rs] \in Int /\ s.r[n.rt] \in Int
  BY <1>1, <1>2
<1>3. w \in Word
  <2>1. \A p, q \in Int : p + q \in Int /\ p - q \in Int
    OBVIOUS
  <2> QED
    BY <1>1, <1>7, <2>1, WrapIsWord DEF AddValue, AddOps
<1>4. CompileAddu(j, n) = DefReg(CompileDelayedLoad(j, TRUE), x, w)
  <2>1. CASE n.op = "addiu"
    BY <1>2, <1>7, <2>1 DEF CompileAddu, AddValue
  <2>2. CASE n.op = "addu"
    BY <1>2, <1>7, <2>2 DEF CompileAddu, AddValue
  <2>3. CASE n.op = "subu"
    BY <1>2, <1>7, <2>3 DEF CompileAddu, AddValue
  <2> QED
    BY <2>1, <2>2, <2>3 DEF AddOps
<1> HIDE DEF w, x
<1>5. Ran(s, j, SetReg(DelayedLoad(s), x, w), DefReg(CompileDelayedLoad(j, TRUE), x, w), Y, n)
  BY <1>1, <1>2, <1>3, ResultRuns
<1>6. Execute(s, n) = SetReg(DelayedLoad(s), x, w)
  BY ExecuteAdd DEF Compute, x, w
<1> QED
  BY <1>4, <1>5, <1>6, ExecuteAdd

LEMMA ExecuteSet ==
  ASSUME NEW s, NEW j, NEW n, n.op \in SetOps
  PROVE  /\ Execute(s, n) = Compute(s, n) /\ CompileInstr(j, n) = CompileSet(j, n)
         /\ Value(s, n) = SetValue(s, n)
<1>1. Execute(s, n) = Compute(s, n)
  BY DEF Execute, LogicOps, ShiftOps, AddOps, SetOps, Traps, Coprocessor
<1>2. CompileInstr(j, n) = CompileSet(j, n)
  BY DEF CompileInstr, SetOps, Cop2Ops
<1>3. Value(s, n) = SetValue(s, n)
  BY DEF Value, LogicOps, ShiftOps, AddOps, SetOps
<1> QED
  BY <1>1, <1>2, <1>3

LEMMA SetSteps ==
  ASSUME NEW s, NEW j, NEW X, NEW Y, NEW n, Together(s, j, X, Y, n), n.op \in SetOps
  PROVE  Ran(s, j, Execute(s, n), CompileInstr(j, n), Y, n)
<1> DEFINE w == SetValue(s, n)
           x == Dest(n)
<1>1. /\ X \in SUBSET Reg /\ Y \in SUBSET X /\ Same(s, j, X) /\ Ready(s, j, Y)
      /\ n.rs \in X /\ n.rt \in X /\ (n.op \notin Cop0Ops => n.rd \in X)
      /\ n.imm \in Word /\ n.imm \in Nat /\ ImmSe(n) \in Word /\ ImmSe(n) \in Int
      /\ \A r \in X : r \in j.regs => Use(j, r) = s.r[r]
      /\ \A r \in Reg : s.r[r] \in Word /\ s.r[r] \in Int
      /\ GetRegisters(n) \subseteq j.regs
  BY Basics
<1>2. /\ x \in Reg /\ x \in {n.rt, n.rd} /\ x \in j.regs /\ n.rs \in j.regs
      /\ n.op \notin {"slti", "sltiu"} => n.rt \in j.regs
      /\ n.op \in {"slti", "sltiu"} => x = n.rt
      /\ n.op \notin {"slti", "sltiu"} => x = n.rd
  <2>1. CASE n.op \in {"slti", "sltiu"}
    BY <1>1, <2>1, RegistersOf DEF Dest, ToRt
  <2>2. CASE n.op \notin {"slti", "sltiu"}
    BY <1>1, <2>2, RegistersOf DEF Dest, ToRt, Cop0Ops, SetOps
  <2> QED
    BY <2>1, <2>2
<1>7. Use(j, n.rs) = s.r[n.rs] /\ (n.op \notin {"slti", "sltiu"} => Use(j, n.rt) = s.r[n.rt])
      /\ s.r[n.rs] \in Int /\ s.r[n.rt] \in Int
  BY <1>1, <1>2
<1>3. w \in Word
  BY Sizes DEF SetValue, Word
<1>4. CompileSet(j, n) = DefReg(CompileDelayedLoad(j, TRUE), x, w)
  <2>1. CASE n.op = "slt"
    BY <1>2, <1>7, <2>1 DEF CompileSet, SetValue
  <2>2. CASE n.op = "sltu"
    BY <1>2, <1>7, <2>2 DEF CompileSet, SetValue
  <2>3. CASE n.op = "slti"
    BY <1>2, <1>7, <2>3 DEF CompileSet, SetValue
  <2>4. CASE n.op = "sltiu"
    BY <1>2, <1>7, <2>4 DEF CompileSet, SetValue
  <2> QED
    BY <2>1, <2>2, <2>3, <2>4 DEF SetOps
<1> HIDE DEF w, x
<1>5. Ran(s, j, SetReg(DelayedLoad(s), x, w), DefReg(CompileDelayedLoad(j, TRUE), x, w), Y, n)
  BY <1>1, <1>2, <1>3, ResultRuns
<1>6. Execute(s, n) = SetReg(DelayedLoad(s), x, w)
  BY ExecuteSet DEF Compute, x, w
<1> QED
  BY <1>4, <1>5, <1>6, ExecuteSet

\* An exception, raised once the pending load is delivered or, by add and what
\* the interpreter knows no coprocessor for, before.
LEMMA Throws ==
  ASSUME NEW s, NEW j, NEW X, NEW Y, NEW n, Together(s, j, X, Y, n),
         NEW c1 \in Causes, NEW c2 \in Causes, NEW a \in Word, NEW clear \in BOOLEAN, NEW t,
         \/ t = DelayedLoad(s)
         \/ t = s /\ n.op \in {"add", "addi", "cop3"},
         IsAddressError(c1) = IsAddressError(c2),
         IsAddressError(c1) => ExceptionRegs \subseteq j.regs,
         "cause" \in Parting(s, n, Y) \/ c1 = c2,
         \/ {"sr", "cause", "epc", "pc"} \subseteq Parting(s, n, Y)
         \/ ExceptionRegs \subseteq j.regs
  PROVE  Stepped(s, j, Raise(t, c1, a), CompileException(CompileDelayedLoad(j, clear), c2, a), Y, n)
<1> DEFINE e == DelayedLoad(s)
           k == CompileDelayedLoad(j, clear)
           D == Parting(s, n, Y)
<1>1. X \in SUBSET Reg /\ Y \in SUBSET X /\ Same(s, j, X) /\ Ready(s, j, Y)
  BY Basics
<1>2. /\ Same(e, k, Y) /\ Quiet(e, k)
      /\ SteadyRef(s, e) /\ SteadyJit(j, k) /\ RestRef(s, e)
      /\ \A y \in Reg : y # s.load[1] => e.r[y] = s.r[y]
  BY <1>1, Deliver
<1>3. s.delay_slot \/ s.current_pc = CurrentPc(k)
  BY <1>2 DEF Together, SteadyJit, CurrentPc
<1>4. k.i = j.i /\ j.regs \subseteq k.regs
  BY <1>2 DEF SteadyJit
<1>5. /\ "pc" \in D \/ ~IsBoot(s.sr)
      /\ "epc" \in D \/ ~s.delay_slot
      /\ "r" \in D \/ Y = Reg
      /\ n.op \in {"add", "addi", "cop3"} /\ s.load[1] # 0 => "r" \in D /\ "load" \in D
  BY DEF Parting
<1>6. /\ "cause" \in D \/ c1 = c2
      /\ {"sr", "cause", "epc", "pc"} \subseteq D \/ ExceptionRegs \subseteq k.regs
      /\ IsAddressError(c1) => ExceptionRegs \subseteq k.regs
  BY <1>4
<1>7. t = e \/ (t = s /\ n.op \in {"add", "addi", "cop3"})
  OBVIOUS
<1>8. s.delay_slot \in BOOLEAN /\ IsRef(s) /\ s.load[1] \in Reg
  BY <1>1 DEF Same, IsRef
<1> HIDE DEF e, k, D
<1>9. PICK Z \in SUBSET Reg : Same(t, k, Z) /\ ("r" \in D \/ Z = Reg)
  <2>1. CASE t = e
    BY <1>1, <1>2, <1>5, <2>1
  <2>2. CASE t = s /\ s.load[1] = 0
    <3>1. \A y \in Y : s.r[y] = k.v[y]
      BY <1>1, <1>2, <2>2 DEF Same
    <3>2. Same(s, k, Y)
      BY <1>1, <1>2, <3>1 DEF Same, RestRef, SteadyRef
    <3> QED
      BY <1>1, <1>5, <2>2, <3>2
  <2>3. CASE t = s /\ s.load[1] # 0 /\ n.op \in {"add", "addi", "cop3"}
    <3>1. Same(s, k, {})
      BY <1>1, <1>2 DEF Same, RestRef, SteadyRef
    <3> QED
      BY <1>5, <2>3, <3>1
  <2> QED
    BY <1>7, <2>1, <2>2, <2>3
<1>10. "load" \in D \/ (t.load[1] = 0 /\ k.v[REG_LOAD_REG] = 0)
  BY <1>2, <1>5, <1>7 DEF Quiet
<1>11. /\ "pc" \in D \/ ~IsBoot(t.sr)
       /\ "epc" \in D \/ (~t.delay_slot /\ t.current_pc = CurrentPc(k))
  BY <1>2, <1>3, <1>5, <1>7 DEF RestRef, SteadyRef
<1> DEFINE u == Raise(t, c1, a)
           l == CompileException(k, c2, a)
<1>12. u.interrupt /\ l.done /\ l.cycles = k.i + 1 /\ Agree(u, l, Visible \ D)
  BY <1>6, <1>9, <1>10, <1>11, Thrown
<1> HIDE DEF u, l
<1>13. Stepped(s, j, u, l, Y, n)
  BY <1>4, <1>12 DEF Stepped, D
<1> QED
  BY <1>13 DEF u, l, k

LEMMA ExecuteChecked ==
  ASSUME NEW s, NEW j, NEW n, n.op \in {"add", "addi", "sub"}
  PROVE  Execute(s, n) = Checked(s, n) /\ CompileInstr(j, n) = CompileAdd(j, n)
<1>1. Execute(s, n) = Checked(s, n)
  BY DEF Execute, LogicOps, ShiftOps, AddOps, SetOps, Traps, Coprocessor
<1>2. CompileInstr(j, n) = CompileAdd(j, n)
  BY DEF CompileInstr, Cop2Ops
<1> QED
  BY <1>1, <1>2

LEMMA CheckedSteps ==
  ASSUME NEW s, NEW j, NEW X, NEW Y, NEW n, Together(s, j, X, Y, n), n.op \in {"add", "addi", "sub"}
  PROVE  Stepped(s, j, Execute(s, n), CompileInstr(j, n), Y, n)
<1> DEFINE x == IF n.op = "addi" THEN n.rt ELSE n.rd
           a == Signed(s.r[n.rs])
           b == Signed(IF n.op = "addi" THEN ImmSe(n) ELSE s.r[n.rt])
           v == IF n.op = "sub" THEN a - b ELSE a + b
           fits == -Sign <= v /\ v < Sign
<1>1. /\ X \in SUBSET Reg /\ Y \in SUBSET X /\ Same(s, j, X) /\ Ready(s, j, Y)
      /\ n.rs \in X /\ n.rt \in X /\ (n.op \notin Cop0Ops => n.rd \in X)
      /\ n.imm \in Word /\ n.imm \in Nat /\ ImmSe(n) \in Word /\ ImmSe(n) \in Int
      /\ \A r \in X : r \in j.regs => Use(j, r) = s.r[r]
      /\ \A r \in Reg : s.r[r] \in Word /\ s.r[r] \in Int
      /\ GetRegisters(n) \subseteq j.regs
  BY Basics
<1>2. /\ x \in Reg /\ x \in {n.rt, n.rd} /\ x \in j.regs /\ n.rs \in j.regs
      /\ n.op # "addi" => n.rt \in j.regs
      /\ ExceptionRegs \subseteq j.regs
  <2>1. CASE n.op = "addi"
    BY <1>1, <2>1, RegistersOf
  <2>2. CASE n.op \in {"add", "sub"}
    BY <1>1, <2>2, RegistersOf DEF Cop0Ops
  <2> QED
    BY <2>1, <2>2
<1>3. Use(j, n.rs) = s.r[n.rs] /\ (n.op # "addi" => Use(j, n.rt) = s.r[n.rt])
  BY <1>1, <1>2
<1>4. v \in Int
  <2>1. s.r[n.rs] \in Word /\ (IF n.op = "addi" THEN ImmSe(n) ELSE s.r[n.rt]) \in Word
    BY <1>1
  <2>2. a \in Int /\ b \in Int
    BY <2>1, SignedWord, Sizes
  <2> HIDE DEF a, b
  <2> QED
    BY <2>2
<1>5. CompileInstr(j, n) =
        IF v >= Sign \/ v < -Sign
        THEN CompileException(CompileDelayedLoad(j, TRUE), "Overflow", 0)
        ELSE DefReg(CompileDelayedLoad(j, TRUE), x, Wrap(v))
  <2>1. /\ Signed(Use(j, n.rs)) = a
        /\ Signed(IF n.op = "addi" THEN ImmSe(n) ELSE Use(j, n.rt)) = b
    BY <1>3
  <2>2. CompileInstr(j, n) = CompileAdd(j, n)
    BY ExecuteChecked
  <2> HIDE DEF a, b
  <2> QED
    BY <2>1, <2>2 DEF CompileAdd
<1>6. CASE fits
  <2>1. ~(v >= Sign \/ v < -Sign)
    <3> HIDE DEF v
    <3> QED
      BY <1>4, <1>6, Sizes
  <2>2. Execute(s, n) = SetReg(DelayedLoad(s), x, Wrap(v))
    BY <1>6, ExecuteChecked DEF Checked
  <2> HIDE DEF v, x
  <2>3. Wrap(v) \in Word
    BY <1>4, WrapIsWord
  <2>4. Ran(s, j, SetReg(DelayedLoad(s), x, Wrap(v)),
            DefReg(CompileDelayedLoad(j, TRUE), x, Wrap(v)), Y, n)
    BY <1>1, <1>2, <2>3, ResultRuns
  <2> QED
    BY <1>5, <2>1, <2>2, <2>4 DEF Stepped
<1>7. CASE ~fits
  <2>1. v >= Sign \/ v < -Sign
    <3> HIDE DEF v
    <3> QED
      BY <1>4, <1>7, Sizes
  <2>2. CompileInstr(j, n) = CompileException(CompileDelayedLoad(j, TRUE), "Overflow", 0)
    BY <1>5, <2>1
  <2> DEFINE t == IF n.op = "sub" THEN DelayedLoad(s) ELSE s
  <2>3. Execute(s, n) = Raise(t, "Overflow", 0)
    <3>1. Execute(s, n) = Checked(s, n)
      BY ExecuteChecked
    <3>2. CASE n.op = "sub"
      BY <1>7, <3>1, <3>2 DEF Checked, Trap
    <3>3. CASE n.op # "sub"
      BY <1>7, <3>1, <3>3 DEF Checked, Trap
    <3> QED
      BY <3>2, <3>3
  <2>4. "Overflow" \in Causes /\ ~IsAddressError("Overflow") /\ 0 \in Word
    BY Sizes DEF Causes, ExceptionCode, IsAddressError, Word
  <2>5. t = DelayedLoad(s) \/ (t = s /\ n.op \in {"add", "addi", "cop3"})
    OBVIOUS
  <2> HIDE DEF t
  <2>6. Stepped(s, j, Raise(t, "Overflow", 0),
                CompileException(CompileDelayedLoad(j, TRUE), "Overflow", 0), Y, n)
    BY <1>2, <2>4, <2>5, Throws
  <2> QED
    BY <2>2, <2>3, <2>6
<1> QED
  BY <1>6, <1>7

LEMMA ExecuteMove ==
  ASSUME NEW s, NEW j, NEW n, n.op \in {"mfhi", "mthi", "mflo", "mtlo"}
  PROVE  Execute(s, n) = MoveHiLo(s, n) /\ CompileInstr(j, n) = CompileMove(j, n)
<1>1. Execute(s, n) = MoveHiLo(s, n)
  BY DEF Execute, LogicOps, ShiftOps, AddOps, SetOps, Traps, Coprocessor
<1>2. CompileInstr(j, n) = CompileMove(j, n)
  BY DEF CompileInstr, Cop2Ops
<1> QED
  BY <1>1, <1>2

LEMMA MoveSteps ==
  ASSUME NEW s, NEW j, NEW X, NEW Y, NEW n, Together(s, j, X, Y, n), n.op \in {"mfhi", "mthi", "mflo", "mtlo"}
  PROVE  Ran(s, j, Execute(s, n), CompileInstr(j, n), Y, n)
<1> DEFINE t == DelayedLoad(s)
           k == CompileDelayedLoad(j, TRUE)
<1>1. /\ X \in SUBSET Reg /\ Y \in SUBSET X /\ Same(s, j, X) /\ Ready(s, j, Y)
      /\ n.rs \in X /\ n.rt \in X /\ (n.op \notin Cop0Ops => n.rd \in X)
      /\ n.imm \in Word /\ n.imm \in Nat /\ ImmSe(n) \in Word /\ ImmSe(n) \in Int
      /\ \A r \in X : r \in j.regs => Use(j, r) = s.r[r]
      /\ \A r \in Reg : s.r[r] \in Word /\ s.r[r] \in Int
      /\ GetRegisters(n) \subseteq j.regs
  BY Basics
<1>2. /\ Same(t, k, Y) /\ SteadyJit(j, k)
      /\ \A y \in Reg : y # s.load[1] => t.r[y] = s.r[y]
  BY <1>1, Deliver
<1>3. /\ Execute(s, n) = MoveHiLo(s, n) /\ CompileInstr(j, n) = CompileMove(j, n)
      /\ n.rd \in Reg /\ n.rs \in Reg
  BY <1>1, ExecuteMove DEF Cop0Ops
<1>4. /\ n.op = "mfhi" => REG_HI \in j.regs /\ n.rd \in j.regs
      /\ n.op = "mflo" => REG_LO \in j.regs /\ n.rd \in j.regs
      /\ n.op = "mthi" => REG_HI \in j.regs /\ n.rs \in j.regs
      /\ n.op = "mtlo" => REG_LO \in j.regs /\ n.rs \in j.regs
  BY <1>1, RegistersOf
<1> HIDE DEF t, k
<1>5. t.hi \in Word /\ t.lo \in Word /\ t.hi = k.v[REG_HI] /\ t.lo = k.v[REG_LO] /\ t.r[0] = 0
  BY <1>2 DEF Same, IsRef
<1>6. /\ REG_HI \in j.regs => Use(k, REG_HI) = t.hi
      /\ REG_LO \in j.regs => Use(k, REG_LO) = t.lo
  BY <1>2, <1>5 DEF SteadyJit, Use
<1>7. n.op \in {"mthi", "mtlo"} => t.r[n.rs] = Use(j, n.rs) /\ t.r[n.rs] \in Word
  <2>1. ASSUME n.op \in {"mthi", "mtlo"} PROVE t.r[n.rs] = s.r[n.rs]
    <3>1. ~(s.load[1] # 0 /\ s.load[1] = n.rs)
      BY <2>1 DEF Together
    <3>2. s.r[0] = 0
      BY <1>1 DEF Same
    <3> QED
      BY <1>2, <1>3, <1>5, <3>1, <3>2
  <2>2. n.op \in {"mthi", "mtlo"} => Use(j, n.rs) = s.r[n.rs]
    BY <1>1, <1>4
  <2> QED
    BY <1>1, <1>3, <2>1, <2>2
<1>8. CASE n.op = "mfhi"
  <2>1. Ran(s, j, SetReg(t, n.rd, t.hi), DefReg(k, n.rd, t.hi), Y, n)
    BY <1>1, <1>3, <1>4, <1>5, <1>8, ResultRuns DEF t, k
  <2>2. Execute(s, n) = SetReg(t, n.rd, t.hi)
    BY <1>3, <1>8 DEF MoveHiLo, t
  <2>3. CompileInstr(j, n) = DefReg(k, n.rd, t.hi)
    BY <1>3, <1>4, <1>6, <1>8 DEF CompileMove, k
  <2> QED
    BY <2>1, <2>2, <2>3
<1>9. CASE n.op = "mflo"
  <2>1. Ran(s, j, SetReg(t, n.rd, t.lo), DefReg(k, n.rd, t.lo), Y, n)
    BY <1>1, <1>3, <1>4, <1>5, <1>9, ResultRuns DEF t, k
  <2>2. Execute(s, n) = SetReg(t, n.rd, t.lo)
    BY <1>3, <1>9 DEF MoveHiLo, t
  <2>3. CompileInstr(j, n) = DefReg(k, n.rd, t.lo)
    BY <1>3, <1>4, <1>6, <1>9 DEF CompileMove, k
  <2> QED
    BY <2>1, <2>2, <2>3
<1> DEFINE w == t.r[n.rs]
<1>10. CASE n.op = "mthi"
  <2>1. w \in Word /\ REG_HI \in j.regs
    BY <1>4, <1>7, <1>10
  <2>2. Execute(s, n) = [t EXCEPT !.hi = w]
    BY <1>3, <1>10 DEF MoveHiLo, t
  <2>3. CompileInstr(j, n) = Def(k, REG_HI, w)
    BY <1>3, <1>7, <1>10 DEF CompileMove, k
  <2> HIDE DEF w
  <2>4. Ran(s, j, [t EXCEPT !.hi = w], Def(k, REG_HI, w), Y, n)
    BY <1>1, <2>1, SpecialRuns DEF t, k
  <2> QED
    BY <2>2, <2>3, <2>4
<1>11. CASE n.op = "mtlo"
  <2>1. w \in Word /\ REG_LO \in j.regs
    BY <1>4, <1>7, <1>11
  <2>2. Execute(s, n) = [t EXCEPT !.lo = w]
    BY <1>3, <1>11 DEF MoveHiLo, t
  <2>3. CompileInstr(j, n) = Def(k, REG_LO, w)
    BY <1>3, <1>7, <1>11 DEF CompileMove, k
  <2> HIDE DEF w
  <2>4. Ran(s, j, [t EXCEPT !.lo = w], Def(k, REG_LO, w), Y, n)
    BY <1>1, <2>1, SpecialRuns DEF t, k
  <2> QED
    BY <2>2, <2>3, <2>4
<1> QED
  BY <1>8, <1>9, <1>10, <1>11

LEMMA ExecuteMultiply ==
  ASSUME NEW s, NEW j, NEW n, n.op \in {"mult", "multu"}
  PROVE  Execute(s, n) = Multiply(s, n) /\ CompileInstr(j, n) = CompileMult(j, n)
<1>1. Execute(s, n) = Multiply(s, n)
  BY DEF Execute, LogicOps, ShiftOps, AddOps, SetOps, Traps, Coprocessor
<1>2. CompileInstr(j, n) = CompileMult(j, n)
  BY DEF CompileInstr, Cop2Ops
<1> QED
  BY <1>1, <1>2

LEMMA MultiplySteps ==
  ASSUME NEW s, NEW j, NEW X, NEW Y, NEW n, Together(s, j, X, Y, n), n.op \in {"mult", "multu"}
  PROVE  Ran(s, j, Execute(s, n), CompileInstr(j, n), Y, n)
<1> DEFINE a == Wide(n, s.r[n.rs])
           b == Wide(n, s.r[n.rt])
           p == a * b
           hi == Wrap(p \div Size)
           lo == Wrap(p)
<1>1. /\ X \in SUBSET Reg /\ Y \in SUBSET X /\ Same(s, j, X) /\ Ready(s, j, Y)
      /\ n.rs \in X /\ n.rt \in X /\ (n.op \notin Cop0Ops => n.rd \in X)
      /\ n.imm \in Word /\ n.imm \in Nat /\ ImmSe(n) \in Word /\ ImmSe(n) \in Int
      /\ \A r \in X : r \in j.regs => Use(j, r) = s.r[r]
      /\ \A r \in Reg : s.r[r] \in Word /\ s.r[r] \in Int
      /\ GetRegisters(n) \subseteq j.regs
  BY Basics
<1>2. /\ REG_HI \in j.regs /\ REG_LO \in j.regs
      /\ Use(j, n.rs) = s.r[n.rs] /\ Use(j, n.rt) = s.r[n.rt]
      /\ s.r[n.rs] \in Word /\ s.r[n.rt] \in Word
  <2>1. {n.rt, n.rs, REG_LO, REG_HI} \subseteq j.regs
    BY <1>1, RegistersOf
  <2> QED
    BY <1>1, <2>1
<1>3. p \in Int
  <2>1. a \in Int /\ b \in Int
    BY <1>1, <1>2, SignedWord, Sizes DEF Word, Wide
  <2> HIDE DEF a, b
  <2> QED
    BY <2>1
<1>4. Execute(s, n) = WithHiLo(DelayedLoad(s), hi, lo)
  <2>1. Multiply(s, n) = WithHiLo(DelayedLoad(s), hi, lo)
    BY DEF Multiply, WithHiLo
  <2> QED
    BY <2>1, ExecuteMultiply
<1>5. CompileInstr(j, n) = HiLo(j, hi, lo)
  <2>1. CompileInstr(j, n) = HiLo(j, (p % (Size * Size)) \div Size, (p % (Size * Size)) % Size)
    BY <1>2, ExecuteMultiply DEF CompileMult
  <2> HIDE DEF p
  <2> QED
    BY <1>3, <2>1, ProductHalves
<1>6. hi \in Word /\ lo \in Word
  <2> HIDE DEF p
  <2> QED
    BY <1>3, ProductHalves
<1> HIDE DEF hi, lo
<1> QED
  BY <1>1, <1>2, <1>4, <1>5, <1>6, HiLoRuns

LEMMA ExecuteDivide ==
  ASSUME NEW s, NEW j, NEW n, n.op \in {"div", "divu"}
  PROVE  /\ Execute(s, n) = Divide(s, n)
         /\ n.op = "div" => CompileInstr(j, n) = CompileDiv(j, n)
         /\ n.op = "divu" => CompileInstr(j, n) = CompileDivu(j, n)
<1>1. Execute(s, n) = Divide(s, n)
  BY DEF Execute, LogicOps, ShiftOps, AddOps, SetOps, Traps, Coprocessor
<1>2. n.op = "div" => CompileInstr(j, n) = CompileDiv(j, n)
  BY DEF CompileInstr, Cop2Ops
<1>3. n.op = "divu" => CompileInstr(j, n) = CompileDivu(j, n)
  BY DEF CompileInstr, Cop2Ops
<1> QED
  BY <1>1, <1>2, <1>3

LEMMA DivideSteps ==
  ASSUME NEW s, NEW j, NEW X, NEW Y, NEW n, Together(s, j, X, Y, n), n.op \in {"div", "divu"}
  PROVE  Ran(s, j, Execute(s, n), CompileInstr(j, n), Y, n)
<1> DEFINE x == s.r[n.rs]
           y == s.r[n.rt]
           t == DelayedLoad(s)
<1>1. /\ X \in SUBSET Reg /\ Y \in SUBSET X /\ Same(s, j, X) /\ Ready(s, j, Y)
      /\ n.rs \in X /\ n.rt \in X /\ (n.op \notin Cop0Ops => n.rd \in X)
      /\ n.imm \in Word /\ n.imm \in Nat /\ ImmSe(n) \in Word /\ ImmSe(n) \in Int
      /\ \A r \in X : r \in j.regs => Use(j, r) = s.r[r]
      /\ \A r \in Reg : s.r[r] \in Word /\ s.r[r] \in Int
      /\ GetRegisters(n) \subseteq j.regs
  BY Basics
<1>2. /\ REG_HI \in j.regs /\ REG_LO \in j.regs
      /\ Use(j, n.rs) = s.r[n.rs] /\ Use(j, n.rt) = s.r[n.rt]
      /\ s.r[n.rs] \in Word /\ s.r[n.rt] \in Word
  <2>1. {n.rt, n.rs, REG_LO, REG_HI} \subseteq j.regs
    BY <1>1, RegistersOf
  <2> QED
    BY <1>1, <2>1
<1>3. x \in Word /\ y \in Word /\ Use(j, n.rs) = x /\ Use(j, n.rt) = y
  BY <1>2
<1>4. \A hi, lo \in Word :
          Execute(s, n) = WithHiLo(t, hi, lo) /\ CompileInstr(j, n) = HiLo(j, hi, lo)
          => Ran(s, j, Execute(s, n), CompileInstr(j, n), Y, n)
  BY <1>1, <1>2, HiLoRuns
<1>5. /\ Size \in Int /\ Size - 1 \in Word /\ 0 \in Word /\ 1 \in Word /\ Sign \in Word
      /\ \A w \in Word : w \in Int /\ w >= 0
  BY Sizes DEF Word
<1>6. CASE n.op = "divu"
  <2> DEFINE result == Divided(x, y)
  <2>1. Execute(s, n) = WithHiLo(t, result[1], result[2])
    <3>1. Wide(n, x) = x /\ Wide(n, y) = y
      BY <1>6 DEF Wide
    <3> QED
      <4>1. Divide(s, n) = WithHiLo(t, result[1], result[2])
        BY <3>1 DEF Divide, WithHiLo
      <4> QED
        BY <4>1, ExecuteDivide
  <2>2. CompileInstr(j, n) = IF y = 0 THEN HiLo(j, x, Size - 1) ELSE HiLo(j, x % y, x \div y)
    BY <1>3, <1>6, ExecuteDivide DEF CompileDivu
  <2>3. ~(y = -1)
    BY <1>3, <1>5
  <2>4. CASE y = 0
    <3>1. result = <<Wrap(x), IF x < 0 THEN 1 ELSE Size - 1>>
      BY <2>3, <2>4 DEF Divided
    <3>2. Wrap(x) = x /\ ~(x < 0)
      BY <1>3, <1>5, WrapOfWord
    <3> HIDE DEF result, t
    <3>3. result[1] = x /\ result[2] = Size - 1
      BY <3>1, <3>2
    <3> QED
      BY <1>3, <1>4, <1>5, <2>1, <2>2, <2>4, <3>3
  <2>5. CASE y # 0
    <3>1. result = <<Wrap(Rem(x, y)), Wrap(Quot(x, y))>>
      BY <2>3, <2>5 DEF Divided
    <3>2. Wrap(Quot(x, y)) = x \div y /\ Wrap(Rem(x, y)) = x % y
      BY <1>3, <2>5, QuotientOfNats
    <3>3. Wrap(Quot(x, y)) \in Word /\ Wrap(Rem(x, y)) \in Word
      BY <1>3, <1>5, <2>5, QuotientOfInts, WrapIsWord
    <3> HIDE DEF result, t
    <3>4. result[1] = x % y /\ result[2] = x \div y
      BY <3>1, <3>2
    <3> QED
      BY <1>4, <2>1, <2>2, <2>5, <3>2, <3>3, <3>4
  <2> QED
    BY <2>4, <2>5
<1>7. CASE n.op = "div"
  <2> DEFINE a == Signed(x)
             d == Signed(y)
             result == Divided(a, d)
             not_neg == IF a >= 0 THEN 1 ELSE 0
  <2>1. Execute(s, n) = WithHiLo(t, result[1], result[2])
    <3>1. Wide(n, x) = a /\ Wide(n, y) = d
      BY <1>7 DEF Wide
    <3> HIDE DEF a, d
    <3> QED
      <4>1. Divide(s, n) = WithHiLo(t, result[1], result[2])
        BY <3>1 DEF Divide, WithHiLo
      <4> QED
        BY <4>1, ExecuteDivide
  <2>2. CompileInstr(j, n) =
          CASE d = 0 -> HiLo(j, Wrap(a), Wrap(not_neg * (Size - 1) + (1 - not_neg)))
            [] d # 0 /\ Wrap(a) = Sign /\ d = -1 -> HiLo(j, 0, Sign)
            [] OTHER -> HiLo(j, Wrap(Rem(a, d)), Wrap(Quot(a, d)))
    BY <1>3, <1>7, ExecuteDivide DEF CompileDiv
  <2>3. a \in Int /\ d \in Int /\ Wrap(a) \in Word /\ Wrap(a) = x
    BY <1>3, SignedWord, Sizes
  <2>4. a = -Sign <=> Wrap(a) = Sign
    BY <1>3, <2>3, Sizes DEF Signed, Word
  <2> HIDE DEF a, d
  <2>5. CASE d = 0
    <3>1. result = <<Wrap(a), IF a < 0 THEN 1 ELSE Size - 1>>
      BY <2>5 DEF Divided
    <3>2. CompileInstr(j, n) = HiLo(j, Wrap(a), Wrap(not_neg * (Size - 1) + (1 - not_neg)))
      BY <2>2, <2>5
    <3>3. Wrap(not_neg * (Size - 1) + (1 - not_neg)) = IF a < 0 THEN 1 ELSE Size - 1
      <4>1. not_neg * (Size - 1) + (1 - not_neg) = IF a < 0 THEN 1 ELSE Size - 1
        BY <1>5, <2>3
      <4> QED
        BY <1>5, <4>1, WrapOfWord
    <3> HIDE DEF result, not_neg, t
    <3>4. result[1] = Wrap(a) /\ result[2] = IF a < 0 THEN 1 ELSE Size - 1
      BY <3>1
    <3> QED
      BY <1>4, <1>5, <2>1, <2>3, <3>2, <3>3, <3>4
  <2>6. CASE d = -1 /\ a = -Sign
    <3>1. result = <<0, Sign>>
      BY <2>6 DEF Divided
    <3>2. CompileInstr(j, n) = HiLo(j, 0, Sign)
      BY <2>2, <2>4, <2>6
    <3> HIDE DEF result, t
    <3> QED
      BY <1>4, <1>5, <2>1, <3>1, <3>2
  <2>7. CASE d # 0 /\ ~(d = -1 /\ a = -Sign)
    <3>1. result = <<Wrap(Rem(a, d)), Wrap(Quot(a, d))>>
      BY <2>7 DEF Divided
    <3>2. CompileInstr(j, n) = HiLo(j, Wrap(Rem(a, d)), Wrap(Quot(a, d)))
      BY <2>2, <2>4, <2>7
    <3>3. Wrap(Quot(a, d)) \in Word /\ Wrap(Rem(a, d)) \in Word
      BY <2>3, <2>7, QuotientOfInts, WrapIsWord
    <3> HIDE DEF result, t
    <3> QED
      BY <1>4, <2>1, <3>1, <3>2, <3>3
  <2> QED
    BY <2>5, <2>6, <2>7
<1> QED
  BY <1>6, <1>7
-----------------------------------------------------------------------------
(* Loads and stores.                                                       *)

LEMMA AddressIs ==
  ASSUME NEW s, NEW j, NEW X, NEW Y, NEW n, Together(s, j, X, Y, n), n.rs \in j.regs
  PROVE  /\ Address(s, n) \in Word /\ Effective(j, n) = Address(s, n)
         /\ Address(s, n) % 1 = 0
<1>1. /\ n.rs \in X /\ X \in SUBSET Reg /\ ImmSe(n) \in Int
      /\ \A r \in X : r \in j.regs => Use(j, r) = s.r[r]
      /\ \A r \in Reg : s.r[r] \in Word /\ s.r[r] \in Int
  BY Basics
<1> DEFINE x == s.r[n.rs]
           y == ImmSe(n)
<1>2. x \in Int /\ y \in Int /\ Use(j, n.rs) = x
  BY <1>1
<1> HIDE DEF x, y
<1>3. x + y = y + x /\ x + y \in Int
  BY <1>2
<1>4. Address(s, n) = Wrap(x + y) /\ Effective(j, n) = Wrap(y + x)
  BY <1>2 DEF Address, Effective, x, y
<1>5. Wrap(x + y) \in Word
  BY <1>3, WrapIsWord
<1>6. \A a \in Word : a % 1 = 0
  BY Sizes DEF Word
<1> QED
  BY <1>3, <1>4, <1>5, <1>6

LEMMA ExecuteStore ==
  ASSUME NEW s, NEW j, NEW n, n.op \in {"sw", "sh", "sb"}
  PROVE  /\ Execute(s, n) = StoreOp(s, n)
         /\ n.op = "sw" => CompileInstr(j, n) = CompileSw(j, n) /\ Width(n) = 4
         /\ n.op = "sh" => CompileInstr(j, n) = CompileSh(j, n) /\ Width(n) = 2
         /\ n.op = "sb" => CompileInstr(j, n) = CompileSb(j, n) /\ Width(n) = 1
<1>1. Execute(s, n) = StoreOp(s, n)
  BY DEF Execute, LogicOps, ShiftOps, AddOps, SetOps, Traps, Coprocessor
<1>2. /\ n.op = "sw" => CompileInstr(j, n) = CompileSw(j, n)
      /\ n.op = "sh" => CompileInstr(j, n) = CompileSh(j, n)
      /\ n.op = "sb" => CompileInstr(j, n) = CompileSb(j, n)
  BY DEF CompileInstr, Cop2Ops
<1>3. /\ n.op = "sw" => Width(n) = 4
      /\ n.op = "sh" => Width(n) = 2
      /\ n.op = "sb" => Width(n) = 1
  BY DEF Width
<1> QED
  BY <1>1, <1>2, <1>3

LEMMA StoreSteps ==
  ASSUME NEW s, NEW j, NEW X, NEW Y, NEW n, Together(s, j, X, Y, n), n.op \in {"sw", "sh", "sb"}
  PROVE  Stepped(s, j, Execute(s, n), CompileInstr(j, n), Y, n)
<1> DEFINE t == DelayedLoad(s)
           k == CompileDelayedLoad(j, TRUE)
           a == Address(s, n)
           w == Width(n)
           v == s.r[n.rt]
           mem == Store(s.mem, a, v, Lane(w))
<1>1. /\ X \in SUBSET Reg /\ Y \in SUBSET X /\ Same(s, j, X) /\ Ready(s, j, Y)
      /\ n.rs \in X /\ n.rt \in X
      /\ \A r \in X : r \in j.regs => Use(j, r) = s.r[r]
      /\ \A r \in Reg : s.r[r] \in Word /\ s.r[r] \in Int
      /\ GetRegisters(n) \subseteq j.regs
  BY Basics
<1>2. /\ n.rs \in j.regs /\ n.rt \in j.regs /\ REG_SR \in j.regs
      /\ n.op # "sb" => ExceptionRegs \subseteq j.regs
  <2>1. /\ n.op \in {"sh", "sw"} => {n.rs, n.rt} \cup ExceptionRegs \subseteq j.regs
        /\ n.op = "sb" => {n.rs, n.rt, REG_SR} \subseteq j.regs
    BY <1>1, RegistersOf
  <2> QED
    BY <2>1 DEF ExceptionRegs
<1>3. a \in Word /\ Effective(j, n) = a /\ a % 1 = 0
  BY <1>2, AddressIs
<1>4. v \in Word /\ Use(j, n.rt) = v /\ s.mem \in Memories /\ s.mem = j.mem
  BY <1>1, <1>2 DEF Same, IsRef
<1>5. t.mem = s.mem /\ k.mem = s.mem
  BY <1>1, <1>4, Deliver DEF RestRef, RestJit
<1>6. w \in {1, 2, 4}
  BY ExecuteStore
<1> HIDE DEF t, k, a, v
<1>7. Execute(s, n) = IF a % w # 0 THEN Raise(t, "StoreAddressError", a) ELSE Put(t, mem)
  <2>1. Execute(s, n) = StoreOp(s, n)
    BY ExecuteStore
  <2>2. StoreOp(s, n) = IF a % w # 0 THEN Raise(t, "StoreAddressError", a) ELSE Put(t, mem)
    BY <1>5 DEF StoreOp, Misaligned, t, a, v
  <2> QED
    BY <2>1, <2>2
<1>10. /\ CompileSw(j, n) = (IF a % 4 # 0 THEN CompileException(k, "StoreAddressError", a)
                             ELSE StoreUnlessIsolated(k, StoreWord(s.mem, a, v)))
       /\ CompileSh(j, n) = (IF a % 2 # 0 THEN CompileException(k, "StoreAddressError", a)
                             ELSE StoreUnlessIsolated(k, Store(s.mem, a, v, Lane(2))))
       /\ CompileSb(j, n) = StoreUnlessIsolated(k, Store(s.mem, a, v, Lane(1)))
  BY <1>3, <1>4, <1>5 DEF CompileSw, CompileSh, CompileSb, Half, B, k
<1>11. /\ n.op = "sw" => CompileInstr(j, n) = CompileSw(j, n) /\ w = 4
       /\ n.op = "sh" => CompileInstr(j, n) = CompileSh(j, n) /\ w = 2
       /\ n.op = "sb" => CompileInstr(j, n) = CompileSb(j, n) /\ w = 1
       /\ n.op \in {"sw", "sh", "sb"}
  BY ExecuteStore
<1> HIDE DEF w
<1>8. CASE a % w # 0
  <2>1. CompileInstr(j, n) = CompileException(k, "StoreAddressError", a)
    BY <1>3, <1>8, <1>10, <1>11
  <2>2. n.op # "sb"
    BY <1>3, <1>8, <1>11
  <2>3. "StoreAddressError" \in Causes
    BY DEF Causes, ExceptionCode
  <2>4. Stepped(s, j, Raise(t, "StoreAddressError", a), CompileException(k, "StoreAddressError", a), Y, n)
    BY <1>2, <1>3, <2>2, <2>3, Throws DEF t, k
  <2> QED
    BY <1>7, <1>8, <2>1, <2>4
<1>9. CASE a % w = 0
  <2>1. mem \in Memories
    BY <1>3, <1>4, <1>6, <1>9, StoreIsMemory
  <2>2. CompileInstr(j, n) = StoreUnlessIsolated(k, mem)
    <3>1. CASE n.op = "sw"
      <4>1. StoreWord(s.mem, a, v) = mem
        BY <1>3, <1>4, <1>9, <1>11, <3>1, StoreOfWord
      <4> HIDE DEF mem
      <4> QED
        BY <1>9, <1>10, <1>11, <3>1, <4>1
    <3>2. CASE n.op = "sh"
      BY <1>9, <1>10, <1>11, <3>2
    <3>3. CASE n.op = "sb"
      BY <1>9, <1>10, <1>11, <3>3
    <3> QED
      BY <1>11, <3>1, <3>2, <3>3
  <2> HIDE DEF mem
  <2>3. Ran(s, j, Put(t, mem), StoreUnlessIsolated(k, mem), Y, n)
    BY <1>1, <1>2, <2>1, StoreRuns DEF t, k
  <2> QED
    BY <1>7, <1>9, <2>2, <2>3 DEF Stepped
<1> QED
  BY <1>8, <1>9

LEMMA ExecuteLoad ==
  ASSUME NEW s, NEW j, NEW n, n.op \in {"lw", "lh", "lhu"}
  PROVE  /\ Execute(s, n) = LoadOp(s, n)
         /\ n.op = "lw" => CompileInstr(j, n) = CompileLw(j, n) /\ Width(n) = 4
         /\ n.op # "lw" => CompileInstr(j, n) = CompileLh(j, n) /\ Width(n) = 2
<1>1. Execute(s, n) = LoadOp(s, n)
  BY DEF Execute, LogicOps, ShiftOps, AddOps, SetOps, Traps, Coprocessor
<1>2. /\ n.op = "lw" => CompileInstr(j, n) = CompileLw(j, n)
      /\ n.op # "lw" => CompileInstr(j, n) = CompileLh(j, n)
  BY DEF CompileInstr, Cop2Ops
<1>3. /\ n.op = "lw" => Width(n) = 4
      /\ n.op # "lw" => Width(n) = 2
  BY DEF Width
<1> QED
  BY <1>1, <1>2, <1>3

LEMMA LoadSteps ==
  ASSUME NEW s, NEW j, NEW X, NEW Y, NEW n, Together(s, j, X, Y, n), n.op \in {"lw", "lh", "lhu"}
  PROVE  Stepped(s, j, Execute(s, n), CompileInstr(j, n), Y, n)
<1> DEFINE t == DelayedLoad(s)
           k == CompileDelayedLoad(j, FALSE)
           a == Address(s, n)
           w == Width(n)
           v == Load(s.mem, a, Lane(w))
           x == IF n.op = "lh" THEN Extend(v, Half) ELSE v
<1>1. /\ X \in SUBSET Reg /\ Y \in SUBSET X /\ Same(s, j, X) /\ Ready(s, j, Y)
      /\ n.rs \in X /\ n.rt \in X /\ GetRegisters(n) \subseteq j.regs
  BY Basics
<1>2. n.rs \in j.regs /\ n.rt \in j.regs /\ ExceptionRegs \subseteq j.regs
  <2>1. {n.rs, n.rt} \cup ExceptionRegs \subseteq j.regs
    BY <1>1, RegistersOf
  <2> QED
    BY <2>1
<1>3. a \in Word /\ Effective(j, n) = a
  BY <1>2, AddressIs
<1>4. s.mem \in Memories /\ j.mem = s.mem
  BY <1>1 DEF Same, IsRef
<1>5. /\ n.op = "lw" => CompileInstr(j, n) = CompileLw(j, n) /\ w = 4
      /\ n.op # "lw" => CompileInstr(j, n) = CompileLh(j, n) /\ w = 2
      /\ Execute(s, n) = LoadOp(s, n)
  BY ExecuteLoad
<1> HIDE DEF t, k, a
<1>6. Execute(s, n) = IF a % w # 0 THEN Raise(t, "LoadAddressError", a)
                      ELSE DelayedLoadChain(s, n.rt, x)
  BY <1>5 DEF LoadOp, Misaligned, t, a
<1>7. /\ CompileLw(j, n) = (IF a % 4 # 0 THEN CompileException(k, "LoadAddressError", a)
                            ELSE CompileDelayedLoadChain(j, n.rt, LoadWord(s.mem, a)))
      /\ w = 2 => CompileLh(j, n) = (IF a % 2 # 0 THEN CompileException(k, "LoadAddressError", a)
                            ELSE CompileDelayedLoadChain(j, n.rt, x))
  BY <1>3, <1>4 DEF CompileLw, CompileLh, Half, k
<1> HIDE DEF w
<1>8. CASE a % w # 0
  <2>1. CompileInstr(j, n) = CompileException(k, "LoadAddressError", a)
    BY <1>5, <1>7, <1>8
  <2>2. "LoadAddressError" \in Causes
    BY DEF Causes, ExceptionCode
  <2>3. Stepped(s, j, Raise(t, "LoadAddressError", a), CompileException(k, "LoadAddressError", a), Y, n)
    BY <1>2, <1>3, <2>2, Throws DEF t, k
  <2> QED
    BY <1>6, <1>8, <2>1, <2>3
<1>9. CASE a % w = 0
  <2>1. v \in Word
    BY <1>3, <1>4, <1>5, LoadIsBelow
  <2>2. n.op = "lw" => v = LoadWord(s.mem, a)
    BY <1>3, <1>4, <1>5, <1>9, LoadOfWord
  <2> HIDE DEF v
  <2>3. x \in Word
    BY <2>1, Halves, ExtendWord
  <2>4. CompileInstr(j, n) = CompileDelayedLoadChain(j, n.rt, x)
    BY <1>5, <1>7, <1>9, <2>2
  <2> HIDE DEF x
  <2>5. /\ n.op \in LoadOps /\ n.rt \in Reg
        /\ ~(Fresh(s, j) /\ s.load[1] # 0 /\ s.load[1] = n.rt)
    BY <1>1 DEF LoadOps, Together
  <2>6. Ran(s, j, DelayedLoadChain(s, n.rt, x), CompileDelayedLoadChain(j, n.rt, x), Y, n)
    BY <1>1, <1>2, <2>3, <2>5, LoadRuns
  <2> QED
    BY <1>6, <1>9, <2>4, <2>6 DEF Stepped
<1> QED
  BY <1>8, <1>9

LEMMA ExecuteLoadByte ==
  ASSUME NEW s, NEW j, NEW n, n.op \in {"lb", "lbu"}
  PROVE  Execute(s, n) = LoadByteOp(s, n) /\ CompileInstr(j, n) = CompileLb(j, n)
<1>1. Execute(s, n) = LoadByteOp(s, n)
  BY DEF Execute, LogicOps, ShiftOps, AddOps, SetOps, Traps, Coprocessor
<1>2. CompileInstr(j, n) = CompileLb(j, n)
  BY DEF CompileInstr, Cop2Ops
<1> QED
  BY <1>1, <1>2

LEMMA LoadByteSteps ==
  ASSUME NEW s, NEW j, NEW X, NEW Y, NEW n, Together(s, j, X, Y, n), n.op \in {"lb", "lbu"}
  PROVE  Ran(s, j, Execute(s, n), CompileInstr(j, n), Y, n)
<1> DEFINE a == Address(s, n)
           v == Load(s.mem, a, B)
           x == IF n.op = "lb" THEN Extend(v, B) ELSE v
<1>1. /\ X \in SUBSET Reg /\ Y \in SUBSET X /\ Same(s, j, X) /\ Ready(s, j, Y)
      /\ n.rs \in X /\ n.rt \in X /\ GetRegisters(n) \subseteq j.regs
  BY Basics
<1>2. n.rs \in j.regs /\ n.rt \in j.regs
  <2>1. {n.rs, n.rt} \subseteq j.regs
    BY <1>1, RegistersOf
  <2> QED
    BY <2>1
<1>3. a \in Word /\ Effective(j, n) = a
  BY <1>2, AddressIs
<1>4. s.mem \in Memories /\ j.mem = s.mem
  BY <1>1 DEF Same, IsRef
<1>5. x \in Word
  <2>1. v \in Word
    BY <1>3, <1>4, LoadIsBelow DEF B
  <2> HIDE DEF v
  <2> QED
    BY <2>1, Halves, ExtendWord
<1>6. Execute(s, n) = DelayedLoadChain(s, n.rt, x)
  BY ExecuteLoadByte DEF LoadByteOp
<1>7. CompileInstr(j, n) = CompileDelayedLoadChain(j, n.rt, x)
  <2> HIDE DEF a
  <2>1. CompileLb(j, n) = CompileDelayedLoadChain(j, n.rt, x)
    BY <1>3, <1>4 DEF CompileLb
  <2> QED
    BY <2>1, ExecuteLoadByte
<1> HIDE DEF x
<1>8. /\ n.op \in LoadOps /\ n.rt \in Reg
      /\ ~(Fresh(s, j) /\ s.load[1] # 0 /\ s.load[1] = n.rt)
  BY <1>1 DEF LoadOps, Together
<1> QED
  BY <1>1, <1>2, <1>5, <1>6, <1>7, <1>8, LoadRuns

\* The parts of a word that an unaligned access joins.
LEMMA JoinedParts ==
  ASSUME NEW low \in 0 .. 3, NEW x \in Word, NEW w \in Word
  PROVE  /\ (x % Lane(3 - low)) + Wrap(w * Lane(3 - low)) \in Word
         /\ (x - (x % Lane(4 - low))) + (w \div Lane(low)) \in Word
         /\ (x - (x % Lane(low + 1))) + (w \div Lane(3 - low)) \in Word
         /\ (x % Lane(low)) + Wrap(w * Lane(low)) \in Word
<1>1. ASSUME NEW k \in 0 .. 4
      PROVE  /\ (x % Lane(k)) + Wrap(w * Lane(k)) \in Word
             /\ (x - (x % Lane(k))) + (w \div Lane(4 - k)) \in Word
  <2> DEFINE P == Lane(k)
             Q == Lane(4 - k)
  <2>1. P \in Nat \ {0} /\ Q \in Nat \ {0} /\ Size = P * Q
    BY Split
  <2>2. x \in Nat /\ w \in Nat /\ x \in 0 .. Size - 1 /\ w \in 0 .. Size - 1
    BY Sizes DEF Word
  <2> HIDE DEF P, Q
  <2>3. x \in 0 .. P * Q - 1 /\ w \in 0 .. P * Q - 1
    BY <2>1, <2>2
  <2>4. (x % P) + ((w * P) % (P * Q)) \in 0 .. P * Q - 1
    BY <2>1, <2>2, JoinLow
  <2>5. (x - (x % P)) + (w \div Q) \in 0 .. P * Q - 1
    BY <2>1, <2>3, JoinHigh
  <2> QED
    BY <2>1, <2>4, <2>5 DEF P, Q, Word, Wrap
<1>2. /\ 3 - low \in 0 .. 4 /\ 4 - low \in 0 .. 4 /\ low + 1 \in 0 .. 4 /\ low \in 0 .. 4
      /\ 4 - (4 - low) = low /\ 4 - (low + 1) = 3 - low
  OBVIOUS
<1>3. (x % Lane(3 - low)) + Wrap(w * Lane(3 - low)) \in Word
  BY <1>1, <1>2
<1>4. (x - (x % Lane(4 - low))) + (w \div Lane(low)) \in Word
  <2>1. (x - (x % Lane(4 - low))) + (w \div Lane(4 - (4 - low))) \in Word
    BY <1>1, <1>2
  <2> QED
    BY <1>2, <2>1
<1>5. (x - (x % Lane(low + 1))) + (w \div Lane(3 - low)) \in Word
  <2>1. (x - (x % Lane(low + 1))) + (w \div Lane(4 - (low + 1))) \in Word
    BY <1>1, <1>2
  <2> QED
    BY <1>2, <2>1
<1>6. (x % Lane(low)) + Wrap(w * Lane(low)) \in Word
  BY <1>1, <1>2
<1> QED
  BY <1>3, <1>4, <1>5, <1>6

LEMMA ExecutePart ==
  ASSUME NEW s, NEW j, NEW n
  PROVE  /\ n.op \in {"lwl", "lwr"} => Execute(s, n) = LoadPart(s, n)
         /\ n.op \in {"swl", "swr"} => Execute(s, n) = StorePart(s, n)
         /\ n.op = "lwl" => CompileInstr(j, n) = CompileLwl(j, n)
         /\ n.op = "lwr" => CompileInstr(j, n) = CompileLwr(j, n)
         /\ n.op = "swl" => CompileInstr(j, n) = CompileSwl(j, n)
         /\ n.op = "swr" => CompileInstr(j, n) = CompileSwr(j, n)
<1>1. n.op \in {"lwl", "lwr"} => Execute(s, n) = LoadPart(s, n)
  BY DEF Execute, LogicOps, ShiftOps, AddOps, SetOps, Traps, Coprocessor
<1>2. n.op \in {"swl", "swr"} => Execute(s, n) = StorePart(s, n)
  BY DEF Execute, LogicOps, ShiftOps, AddOps, SetOps, Traps, Coprocessor
<1>3. /\ n.op = "lwl" => CompileInstr(j, n) = CompileLwl(j, n)
      /\ n.op = "lwr" => CompileInstr(j, n) = CompileLwr(j, n)
      /\ n.op = "swl" => CompileInstr(j, n) = CompileSwl(j, n)
      /\ n.op = "swr" => CompileInstr(j, n) = CompileSwr(j, n)
  BY DEF CompileInstr, Cop2Ops
<1> QED
  BY <1>1, <1>2, <1>3

LEMMA LoadPartSteps ==
  ASSUME NEW s, NEW j, NEW X, NEW Y, NEW n, Together(s, j, X, Y, n), n.op \in {"lwl", "lwr"}
  PROVE  Ran(s, j, Execute(s, n), CompileInstr(j, n), Y, n)
<1> DEFINE a == Address(s, n)
           low == a % 4
           w == LoadWord(s.mem, a)
           c == IF s.load[1] = n.rt THEN s.load[2] ELSE s.r[n.rt]
           d == GetRegFromDelayLoad(j, n.rt)
           joined(x) == IF n.op = "lwl" THEN (x % Lane(3 - low)) + Wrap(w * Lane(3 - low))
                        ELSE (x - (x % Lane(4 - low))) + (w \div Lane(low))
<1>1. /\ X \in SUBSET Reg /\ Y \in SUBSET X /\ Same(s, j, X) /\ Ready(s, j, Y)
      /\ n.rs \in X /\ n.rt \in X /\ GetRegisters(n) \subseteq j.regs
      /\ \A r \in X : r \in j.regs => Use(j, r) = s.r[r]
      /\ \A r \in Reg : s.r[r] \in Word
  BY Basics
<1>2. n.rs \in j.regs /\ n.rt \in j.regs
  <2>1. {n.rs, n.rt} \subseteq j.regs
    BY <1>1, RegistersOf
  <2> QED
    BY <2>1
<1>3. a \in Word /\ Effective(j, n) = a
  BY <1>2, AddressIs
<1>4. s.mem \in Memories /\ j.mem = s.mem
  BY <1>1 DEF Same, IsRef
<1>5. w \in Word /\ low \in 0 .. 3
  BY <1>3, <1>4, LoadWordIsWord, CellOf
<1>6. c \in Word
  BY <1>1 DEF Same, IsRef
<1>7. d \in Word /\ (n.rt # 0 => c = d)
  <2> DEFINE p == j.delayed_load
  <2>1. p \in {None} \cup (Reg \X Word) /\ Use(j, n.rt) = s.r[n.rt] /\ n.rt \in Reg
    BY <1>1, <1>2 DEF Same, IsJit
  <2>2. d = IF p # None /\ p[1] = n.rt THEN p[2] ELSE s.r[n.rt]
    BY <2>1 DEF GetRegFromDelayLoad
  <2>3. n.rt # 0 => \/ p = None /\ s.load[1] # n.rt
                    \/ /\ p # None /\ s.load[1] = p[1]
                       /\ s.load[1] # 0 => s.load[2] = p[2]
    <3>1. ~(Fresh(s, j) /\ s.load[1] # 0 /\ s.load[1] = n.rt)
      BY DEF Together, LoadOps
    <3>2. CASE Fresh(s, j)
      BY <3>1, <3>2 DEF Fresh
    <3>3. CASE Empty(s, j)
      BY <3>3 DEF Empty, Quiet
    <3>4. CASE InFlight(s, j)
      BY <3>4 DEF InFlight
    <3> QED
      BY <1>1, <3>2, <3>3, <3>4 DEF Ready
  <2> HIDE DEF p, d
  <2>4. d \in Word
    BY <1>1, <2>1, <2>2
  <2> QED
    BY <2>2, <2>3, <2>4
<1> HIDE DEF a, w, c, d
<1>8. Execute(s, n) = DelayedLoadChain(s, n.rt, joined(c))
  <2>1. Execute(s, n) = LoadPart(s, n)
    BY ExecutePart
  <2> QED
    BY <2>1 DEF LoadPart, a, w, c
<1>9. CompileInstr(j, n) = CompileDelayedLoadChain(j, n.rt, joined(d))
  <2>1. 1 + (3 - low) = 4 - low
    BY <1>5
  <2>2. CASE n.op = "lwl"
    <3>1. CompileInstr(j, n) = CompileLwl(j, n)
      BY <2>2, ExecutePart
    <3> QED
      BY <1>3, <1>4, <2>2, <3>1 DEF CompileLwl, LowLanes, w, d
  <2>3. CASE n.op = "lwr"
    <3>1. CompileInstr(j, n) = CompileLwr(j, n)
      BY <2>3, ExecutePart
    <3> QED
      BY <1>3, <1>4, <2>1, <2>3, <3>1 DEF CompileLwr, HighLanes, w, d
  <2> QED
    BY <2>2, <2>3
<1>10. joined(c) \in Word /\ joined(d) \in Word /\ (n.rt # 0 => joined(c) = joined(d))
  <2> HIDE DEF low
  <2> QED
    BY <1>5, <1>6, <1>7, JoinedParts
<1> HIDE DEF joined
<1>11. /\ n.op \in LoadOps /\ n.rt \in Reg
       /\ ~(Fresh(s, j) /\ s.load[1] # 0 /\ s.load[1] = n.rt)
  BY <1>1 DEF LoadOps, Together
<1> QED
  BY <1>1, <1>2, <1>8, <1>9, <1>10, <1>11, LoadRuns

LEMMA StorePartSteps ==
  ASSUME NEW s, NEW j, NEW X, NEW Y, NEW n, Together(s, j, X, Y, n), n.op \in {"swl", "swr"}
  PROVE  Ran(s, j, Execute(s, n), CompileInstr(j, n), Y, n)
<1> DEFINE t == DelayedLoad(s)
           k == CompileDelayedLoad(j, TRUE)
           a == Address(s, n)
           low == a % 4
           v == s.r[n.rt]
           c == LoadWord(s.mem, a)
           w == IF n.op = "swl" THEN (c - (c % Lane(low + 1))) + (v \div Lane(3 - low))
                ELSE (c % Lane(low)) + Wrap(v * Lane(low))
           mem == StoreWord(s.mem, a, w)
<1>1. /\ X \in SUBSET Reg /\ Y \in SUBSET X /\ Same(s, j, X) /\ Ready(s, j, Y)
      /\ n.rs \in X /\ n.rt \in X /\ GetRegisters(n) \subseteq j.regs
      /\ \A r \in X : r \in j.regs => Use(j, r) = s.r[r]
      /\ \A r \in Reg : s.r[r] \in Word
  BY Basics
<1>2. n.rs \in j.regs /\ n.rt \in j.regs
  <2>1. {n.rs, n.rt, REG_SR} \subseteq j.regs
    BY <1>1, RegistersOf
  <2> QED
    BY <2>1
<1>3. a \in Word /\ Effective(j, n) = a
  BY <1>2, AddressIs
<1>4. s.mem \in Memories /\ j.mem = s.mem
  BY <1>1 DEF Same, IsRef
<1>5. c \in Word /\ low \in 0 .. 3
  BY <1>3, <1>4, LoadWordIsWord, CellOf
<1>6. v \in Word /\ Use(j, n.rt) = v
  BY <1>1, <1>2
<1>7. t.mem = s.mem /\ k.mem = s.mem /\ ~IsIsolated(t.sr)
  <2>1. ~IsIsolated(s.sr)
    BY DEF Together
  <2> QED
    BY <1>1, <1>4, <2>1, Deliver DEF RestRef, RestJit
<1> HIDE DEF t, k, a, v, c
<1>8. Execute(s, n) = [t EXCEPT !.mem = mem]
  <2>1. Execute(s, n) = StorePart(s, n)
    BY ExecutePart
  <2>2. StorePart(s, n) = Put(t, StoreWord(t.mem, a, w))
    BY DEF StorePart, t, a, v, c
  <2> HIDE DEF w
  <2> QED
    BY <1>7, <2>1, <2>2 DEF Put
<1>9. CompileInstr(j, n) = [k EXCEPT !.mem = mem]
  <2>1. 1 + low = low + 1 /\ 3 - (3 - low) = low
    BY <1>5
  <2>2. CASE n.op = "swl"
    <3>1. CompileInstr(j, n) = CompileSwl(j, n)
      BY <2>2, ExecutePart
    <3>2. CompileSwl(j, n) = [k EXCEPT !.mem = StoreWord(k.mem, a, w)]
      BY <1>3, <1>4, <1>6, <2>1, <2>2 DEF CompileSwl, HighLanes, c, k
    <3> QED
      BY <1>7, <3>1, <3>2
  <2>3. CASE n.op = "swr"
    <3>1. CompileInstr(j, n) = CompileSwr(j, n)
      BY <2>3, ExecutePart
    <3>2. CompileSwr(j, n) = [k EXCEPT !.mem = StoreWord(k.mem, a, w)]
      BY <1>3, <1>4, <1>6, <2>1, <2>3 DEF CompileSwr, LowLanes, c, k
    <3> QED
      BY <1>7, <3>1, <3>2
  <2> QED
    BY <2>2, <2>3
<1>10. w \in Word
  <2> HIDE DEF low
  <2> QED
    BY <1>5, <1>6, JoinedParts
<1> HIDE DEF w
<1>11. mem \in Memories
  BY <1>3, <1>4, <1>10, StoreWordIsMemory
<1> HIDE DEF mem
<1>12. Ran(s, j, [t EXCEPT !.mem = mem], [k EXCEPT !.mem = mem], Y, n)
  <2>1. 0 \in Word
    BY Sizes DEF Word
  <2> QED
    BY <1>1, <1>11, <2>1, OutsideRuns DEF t, k
<1> QED
  BY <1>8, <1>9, <1>12

-----------------------------------------------------------------------------
(* Coprocessors.                                                           *)

LEMMA ExecuteCop2 ==
  ASSUME NEW s, NEW j, NEW n, n.op \in Cop2Ops
  PROVE  Execute(s, n) = Cop2(s, n) /\ CompileInstr(j, n) = CompileCop2(j, n)
<1>1. Execute(s, n) = Cop2(s, n)
  BY DEF Execute, LogicOps, ShiftOps, AddOps, SetOps, Traps, Coprocessor, Cop2Ops
<1>2. CompileInstr(j, n) = CompileCop2(j, n)
  BY DEF CompileInstr, Cop2Ops
<1> QED
  BY <1>1, <1>2

LEMMA Cop2Steps ==
  ASSUME NEW s, NEW j, NEW X, NEW Y, NEW n, Together(s, j, X, Y, n), n.op \in Cop2Ops
  PROVE  Ran(s, j, Execute(s, n), CompileInstr(j, n), Y, n)
<1> DEFINE t == DelayedLoad(s)
           k == CompileDelayedLoad(j, TRUE)
           v == s.r[n.rt]
           g == GteCommand(s.gd, s.gc)
<1>1. /\ X \in SUBSET Reg /\ Y \in SUBSET X /\ Same(s, j, X) /\ Ready(s, j, Y)
      /\ n.rs \in X /\ n.rt \in X /\ GetRegisters(n) \subseteq j.regs
      /\ \A r \in X : r \in j.regs => Use(j, r) = s.r[r]
      /\ \A r \in Reg : s.r[r] \in Word
  BY Basics
<1>2. n.op # "gte" => n.rt \in j.regs /\ Use(j, n.rt) = v
  <2>1. n.op # "gte" => GetRegisters(n) = {n.rt}
    BY RegistersOf DEF Cop2Ops
  <2> QED
    BY <1>1, <2>1
<1>3. s.gd = j.gd /\ s.gc = j.gc /\ s.gd \in Word /\ s.gc \in Word /\ v \in Word
  BY <1>1 DEF Same, IsRef
<1>4. g \in Word
  BY <1>3, CpuAssumption
<1>5. Execute(s, n) = Cop2(s, n) /\ CompileInstr(j, n) = CompileCop2(j, n)
  BY ExecuteCop2
<1> HIDE DEF t, k, v, g
<1>6. ASSUME NEW w \in Word
      PROVE  /\ Ran(s, j, [t EXCEPT !.gd = w], [k EXCEPT !.gd = w], Y, n)
             /\ Ran(s, j, [t EXCEPT !.gc = w], [k EXCEPT !.gc = w], Y, n)
  <2>1. s.mem \in Memories
    BY <1>1 DEF Same, IsRef
  <2> QED
    BY <1>1, <2>1, OutsideRuns DEF t, k
<1>7. CASE n.op = "gte"
  <2>1. Execute(s, n) = [t EXCEPT !.gd = g]
    BY <1>5, <1>7 DEF Cop2, t, g
  <2>2. CompileInstr(j, n) = [k EXCEPT !.gd = g]
    BY <1>3, <1>5, <1>7 DEF CompileCop2, k, g
  <2> QED
    BY <1>4, <1>6, <2>1, <2>2
<1>8. CASE n.op = "mtc2"
  <2>1. Execute(s, n) = [t EXCEPT !.gd = v]
    BY <1>5, <1>8 DEF Cop2, t, v
  <2>2. CompileInstr(j, n) = [k EXCEPT !.gd = v]
    BY <1>2, <1>5, <1>8 DEF CompileCop2, k
  <2> QED
    BY <1>3, <1>6, <2>1, <2>2
<1>9. CASE n.op = "ctc2"
  <2>1. Execute(s, n) = [t EXCEPT !.gc = v]
    BY <1>5, <1>9 DEF Cop2, t, v
  <2>2. CompileInstr(j, n) = [k EXCEPT !.gc = v]
    BY <1>2, <1>5, <1>9 DEF CompileCop2, k
  <2> QED
    BY <1>3, <1>6, <2>1, <2>2
<1>10. CASE n.op \in {"mfc2", "cfc2"}
  <2> DEFINE w == IF n.op = "mfc2" THEN s.gd ELSE s.gc
  <2>1. Execute(s, n) = DelayedLoadChain(s, n.rt, w)
    BY <1>5, <1>10 DEF Cop2
  <2>2. CompileInstr(j, n) = CompileDelayedLoadChain(j, n.rt, w)
    BY <1>3, <1>5, <1>10 DEF CompileCop2
  <2>3. w \in Word
    BY <1>3
  <2> HIDE DEF w
  <2>4. /\ n.op \in LoadOps /\ n.rt \in Reg
        /\ ~(Fresh(s, j) /\ s.load[1] # 0 /\ s.load[1] = n.rt)
    BY <1>1, <1>10 DEF LoadOps, Together
  <2> QED
    BY <1>1, <1>2, <1>10, <2>1, <2>2, <2>3, <2>4, LoadRuns
<1> QED
  BY <1>7, <1>8, <1>9, <1>10 DEF Cop2Ops

LEMMA ExecuteCop0 ==
  ASSUME NEW s, NEW j, NEW n
  PROVE  /\ n.op \in {"mfc0", "mtc0", "rfe"} => Execute(s, n) = Cop0(s, n)
         /\ n.op \in {"mfc0", "mtc0"} => CompileInstr(j, n) = CompileCop0(j, n)
         /\ n.op = "rfe" => CompileInstr(j, n) = CompileRfe(j)
<1>1. n.op \in {"mfc0", "mtc0", "rfe"} => Execute(s, n) = Cop0(s, n)
  BY DEF Execute, LogicOps, ShiftOps, AddOps, SetOps, Traps, Coprocessor
<1>2. n.op \in {"mfc0", "mtc0"} => CompileInstr(j, n) = CompileCop0(j, n)
  BY DEF CompileInstr, Cop2Ops
<1>3. n.op = "rfe" => CompileInstr(j, n) = CompileRfe(j)
  BY DEF CompileInstr, Cop2Ops
<1> QED
  BY <1>1, <1>2, <1>3

LEMMA ReadCop0Steps ==
  ASSUME NEW s, NEW j, NEW X, NEW Y, NEW n, Together(s, j, X, Y, n), n.op = "mfc0"
  PROVE  Ran(s, j, Execute(s, n), CompileInstr(j, n), Y, n)
<1> DEFINE v == CASE n.rd = 8 -> s.baddr [] n.rd = 12 -> s.sr
                  [] n.rd = 13 -> s.cause [] n.rd = 14 -> s.epc
                  [] n.rd \in {6, 7} -> 0 [] n.rd = 15 -> 2
           w == CASE n.rd = 8 -> Use(j, REG_BADDR) [] n.rd = 12 -> Use(j, REG_SR)
                  [] n.rd = 13 -> Use(j, REG_CAUSE) [] n.rd = 14 -> Use(j, REG_EPC)
                  [] n.rd \in {6, 7} -> 0 [] n.rd = 15 -> 2
<1>1. /\ X \in SUBSET Reg /\ Y \in SUBSET X /\ Same(s, j, X) /\ Ready(s, j, Y)
      /\ n.rs \in X /\ n.rt \in X /\ GetRegisters(n) \subseteq j.regs
  BY Basics
<1>2. /\ n.rt \in j.regs
      /\ n.rd = 8 => REG_BADDR \in j.regs
      /\ n.rd = 12 => REG_SR \in j.regs
      /\ n.rd = 13 => REG_CAUSE \in j.regs
      /\ n.rd = 14 => REG_EPC \in j.regs
  BY <1>1, RegistersOf
<1>3. n.rd \in {6, 7, 8, 12, 13, 14, 15}
  BY DEF Together, IsInstruction
<1>4. /\ s.baddr = j.v[REG_BADDR] /\ s.sr = j.v[REG_SR] /\ s.cause = j.v[REG_CAUSE]
      /\ s.epc = j.v[REG_EPC]
      /\ s.baddr \in Word /\ s.sr \in Word /\ s.cause \in Word /\ s.epc \in Word
      /\ 0 \in Word /\ 2 \in Word
  BY <1>1, Sizes DEF Same, IsRef, Word
<1>5. v \in Word /\ w = v
  BY <1>2, <1>3, <1>4 DEF Use
<1>6. Execute(s, n) = DelayedLoadChain(s, n.rt, v)
  <2>1. Execute(s, n) = Cop0(s, n)
    BY ExecuteCop0
  <2> QED
    BY <2>1 DEF Cop0
<1>7. CompileInstr(j, n) = CompileDelayedLoadChain(j, n.rt, w)
  <2>1. CompileInstr(j, n) = CompileCop0(j, n)
    BY ExecuteCop0
  <2> QED
    BY <2>1 DEF CompileCop0
<1> HIDE DEF v, w
<1>8. /\ n.op \in LoadOps /\ n.rt \in Reg
      /\ ~(Fresh(s, j) /\ s.load[1] # 0 /\ s.load[1] = n.rt)
  BY <1>1 DEF LoadOps, Together
<1> QED
  BY <1>1, <1>2, <1>5, <1>6, <1>7, <1>8, LoadRuns

LEMMA WriteCop0Steps ==
  ASSUME NEW s, NEW j, NEW X, NEW Y, NEW n, Together(s, j, X, Y, n), n.op = "mtc0"
  PROVE  Ran(s, j, Execute(s, n), CompileInstr(j, n), Y, n)
<1> DEFINE t == DelayedLoad(s)
           k == CompileDelayedLoad(j, TRUE)
           v == s.r[n.rt]
<1>1. /\ X \in SUBSET Reg /\ Y \in SUBSET X /\ Same(s, j, X) /\ Ready(s, j, Y)
      /\ n.rs \in X /\ n.rt \in X /\ GetRegisters(n) \subseteq j.regs
      /\ \A r \in X : r \in j.regs => Use(j, r) = s.r[r]
      /\ \A r \in Reg : s.r[r] \in Word
  BY Basics
<1>2. /\ n.rt \in j.regs
      /\ n.rd = 8 => REG_BADDR \in j.regs
      /\ n.rd = 12 => REG_SR \in j.regs
      /\ n.rd = 13 => REG_CAUSE \in j.regs
  BY <1>1, RegistersOf
<1>3. n.rd \in {8, 12, 13}
  BY DEF Together, IsInstruction
<1>4. v \in Word /\ Use(j, n.rt) = v
  BY <1>1, <1>2
<1>5. /\ t.cause = k.v[REG_CAUSE] /\ t.cause \in Word
      /\ REG_CAUSE \in j.regs => Use(k, REG_CAUSE) = t.cause
  <2>1. Same(t, k, Y) /\ SteadyJit(j, k)
    BY <1>1, Deliver
  <2> HIDE DEF t, k
  <2> QED
    BY <2>1 DEF Same, IsRef, SteadyJit, Use
<1>6. Execute(s, n) = Cop0(s, n) /\ CompileInstr(j, n) = CompileCop0(j, n)
  BY ExecuteCop0
<1> DEFINE u == (t.cause - (t.cause % CauseSoftware)) + (v % CauseSoftware)
<1> HIDE DEF t, k, v
<1>7. u \in Word
  BY <1>4, <1>5, CauseWord
<1>8. CASE n.rd = 8
  <2>1. Execute(s, n) = [t EXCEPT !.baddr = v]
    BY <1>6, <1>8 DEF Cop0, t, v
  <2>2. CompileInstr(j, n) = Def(k, REG_BADDR, v)
    BY <1>4, <1>6, <1>8 DEF CompileCop0, k
  <2>3. Ran(s, j, [t EXCEPT !.baddr = v], Def(k, REG_BADDR, v), Y, n)
    BY <1>1, <1>2, <1>4, <1>8, SpecialRuns DEF t, k
  <2> QED
    BY <2>1, <2>2, <2>3
<1>9. CASE n.rd = 12
  <2>1. Execute(s, n) = [t EXCEPT !.sr = v]
    BY <1>6, <1>9 DEF Cop0, t, v
  <2>2. CompileInstr(j, n) = Def(k, REG_SR, v)
    BY <1>4, <1>6, <1>9 DEF CompileCop0, k
  <2>3. Ran(s, j, [t EXCEPT !.sr = v], Def(k, REG_SR, v), Y, n)
    BY <1>1, <1>2, <1>4, <1>9, SpecialRuns DEF t, k
  <2> QED
    BY <2>1, <2>2, <2>3
<1>10. CASE n.rd = 13
  <2>1. Execute(s, n) = [t EXCEPT !.cause = u]
    BY <1>6, <1>10 DEF Cop0, t, v
  <2>2. CompileInstr(j, n) = Def(k, REG_CAUSE, u)
    <3> DEFINE c == Use(k, REG_CAUSE)
               x == Use(j, n.rt)
    <3>1. CompileCop0(j, n) = Def(k, REG_CAUSE, (c - (c % CauseSoftware)) + (x % CauseSoftware))
      BY <1>10 DEF CompileCop0, k
    <3>2. c = t.cause /\ x = v
      BY <1>2, <1>4, <1>5, <1>10
    <3> QED
      BY <1>6, <3>1, <3>2
  <2> HIDE DEF u
  <2>3. Ran(s, j, [t EXCEPT !.cause = u], Def(k, REG_CAUSE, u), Y, n)
    BY <1>1, <1>2, <1>7, <1>10, SpecialRuns DEF t, k
  <2> QED
    BY <2>1, <2>2, <2>3
<1> QED
  BY <1>3, <1>8, <1>9, <1>10

LEMMA RfeSteps ==
  ASSUME NEW s, NEW j, NEW X, NEW Y, NEW n, Together(s, j, X, Y, n), n.op = "rfe"
  PROVE  Ran(s, j, Execute(s, n), CompileInstr(j, n), Y, n)
<1> DEFINE t == DelayedLoad(s)
           k == CompileDelayedLoad(j, TRUE)
           u == Returned(t.sr)
<1>1. /\ X \in SUBSET Reg /\ Y \in SUBSET X /\ Same(s, j, X) /\ Ready(s, j, Y)
      /\ GetRegisters(n) \subseteq j.regs
  BY Basics
<1>2. REG_SR \in j.regs
  <2>1. {REG_SR} \subseteq j.regs
    BY <1>1, RegistersOf
  <2> QED
    BY <2>1
<1>3. t.sr \in Word /\ Use(k, REG_SR) = t.sr
  <2>1. Same(t, k, Y) /\ SteadyJit(j, k)
    BY <1>1, Deliver
  <2> HIDE DEF t, k
  <2> QED
    BY <1>2, <2>1 DEF Same, IsRef, SteadyJit, Use
<1> HIDE DEF t, k
<1>4. Execute(s, n) = [t EXCEPT !.sr = u]
  <2>1. Execute(s, n) = Cop0(s, n)
    BY ExecuteCop0
  <2>2. Cop0(s, n) = [t EXCEPT !.sr = Returned(@)]
    BY DEF Cop0, Returned, t
  <2> QED
    BY <2>1, <2>2
<1>5. CompileInstr(j, n) = Def(k, REG_SR, u)
  <2>1. CompileInstr(j, n) = CompileRfe(j)
    BY ExecuteCop0
  <2> QED
    BY <1>3, <2>1 DEF CompileRfe, Returned, k
<1>6. u \in Word
  BY <1>3, StatusWord
<1> HIDE DEF u
<1>7. Ran(s, j, [t EXCEPT !.sr = u], Def(k, REG_SR, u), Y, n)
  BY <1>1, <1>2, <1>6, SpecialRuns DEF t, k
<1> QED
  BY <1>4, <1>5, <1>7

LEMMA ExecuteCop2Memory ==
  ASSUME NEW s, NEW j, NEW n, n.op \in {"lwc2", "swc2"}
  PROVE  /\ Width(n) = 4
         /\ n.op = "lwc2" => Execute(s, n) = Lwc2(s, n) /\ CompileInstr(j, n) = CompileLwc2(j, n)
         /\ n.op = "swc2" => Execute(s, n) = Swc2(s, n) /\ CompileInstr(j, n) = CompileSwc2(j, n)
<1>1. /\ n.op = "lwc2" => Execute(s, n) = Lwc2(s, n)
      /\ n.op = "swc2" => Execute(s, n) = Swc2(s, n)
  BY DEF Execute, LogicOps, ShiftOps, AddOps, SetOps, Traps, Coprocessor
<1>2. /\ n.op = "lwc2" => CompileInstr(j, n) = CompileLwc2(j, n)
      /\ n.op = "swc2" => CompileInstr(j, n) = CompileSwc2(j, n)
  BY DEF CompileInstr, Cop2Ops
<1>3. Width(n) = 4
  BY DEF Width
<1> QED
  BY <1>1, <1>2, <1>3

LEMMA Cop2MemorySteps ==
  ASSUME NEW s, NEW j, NEW X, NEW Y, NEW n, Together(s, j, X, Y, n), n.op \in {"lwc2", "swc2"}
  PROVE  Stepped(s, j, Execute(s, n), CompileInstr(j, n), Y, n)
<1> DEFINE t == DelayedLoad(s)
           k == CompileDelayedLoad(j, TRUE)
           a == Address(s, n)
           w == LoadWord(s.mem, a)
           mem == StoreWord(s.mem, a, s.gd)
<1>1. /\ X \in SUBSET Reg /\ Y \in SUBSET X /\ Same(s, j, X) /\ Ready(s, j, Y)
      /\ n.rs \in X /\ GetRegisters(n) \subseteq j.regs
  BY Basics
<1>2. n.rs \in j.regs /\ ExceptionRegs \subseteq j.regs /\ REG_SR \in j.regs
  <2>1. {n.rs} \cup ExceptionRegs \subseteq j.regs
    BY <1>1, RegistersOf
  <2> QED
    BY <2>1 DEF ExceptionRegs
<1>3. a \in Word /\ Effective(j, n) = a
  BY <1>2, AddressIs
<1>4. s.mem \in Memories /\ s.mem = j.mem /\ s.gd = j.gd /\ s.gd \in Word
  BY <1>1 DEF Same, IsRef
<1>5. t.mem = s.mem /\ k.mem = s.mem /\ k.gd = s.gd
  BY <1>1, <1>4, Deliver DEF RestRef, RestJit
<1>6. w \in Word /\ mem \in Memories
  BY <1>3, <1>4, LoadWordIsWord, StoreWordIsMemory
<1>7. /\ Width(n) = 4
      /\ n.op = "lwc2" => Execute(s, n) = Lwc2(s, n) /\ CompileInstr(j, n) = CompileLwc2(j, n)
      /\ n.op = "swc2" => Execute(s, n) = Swc2(s, n) /\ CompileInstr(j, n) = CompileSwc2(j, n)
  BY ExecuteCop2Memory
<1> HIDE DEF t, k, a
<1>8. /\ Lwc2(s, n) = (IF a % 4 # 0 THEN Raise(t, "LoadAddressError", a) ELSE [t EXCEPT !.gd = w])
      /\ Swc2(s, n) = (IF a % 4 # 0 THEN Raise(t, "LoadAddressError", a) ELSE Put(t, mem))
  BY <1>5, <1>7 DEF Lwc2, Swc2, Misaligned, t, a
<1>9. /\ CompileLwc2(j, n) = (IF a % 4 # 0 THEN CompileException(k, "LoadAddressError", a)
                              ELSE [k EXCEPT !.gd = w])
      /\ CompileSwc2(j, n) = (IF a % 4 # 0 THEN CompileException(k, "StoreAddressError", a)
                              ELSE StoreUnlessIsolated(k, mem))
  BY <1>3, <1>5 DEF CompileLwc2, CompileSwc2, k
<1> HIDE DEF w, mem
<1>10. {"LoadAddressError", "StoreAddressError"} \subseteq Causes
       /\ IsAddressError("LoadAddressError") /\ IsAddressError("StoreAddressError")
  BY DEF Causes, ExceptionCode, IsAddressError
<1>11. CASE n.op = "lwc2" /\ a % 4 # 0
  <2>1. Stepped(s, j, Raise(t, "LoadAddressError", a), CompileException(k, "LoadAddressError", a), Y, n)
    BY <1>2, <1>3, <1>10, Throws DEF t, k
  <2> QED
    BY <1>7, <1>8, <1>9, <1>11, <2>1
<1>12. CASE n.op = "swc2" /\ a % 4 # 0
  <2>1. "cause" \in Parting(s, n, Y)
    BY <1>12 DEF Parting
  <2>2. Stepped(s, j, Raise(t, "LoadAddressError", a), CompileException(k, "StoreAddressError", a), Y, n)
    BY <1>2, <1>3, <1>10, <2>1, Throws DEF t, k
  <2> QED
    BY <1>7, <1>8, <1>9, <1>12, <2>2
<1>13. CASE n.op = "lwc2" /\ a % 4 = 0
  <2>1. Ran(s, j, [t EXCEPT !.gd = w], [k EXCEPT !.gd = w], Y, n)
    BY <1>1, <1>4, <1>6, OutsideRuns DEF t, k
  <2> QED
    BY <1>7, <1>8, <1>9, <1>13, <2>1 DEF Stepped
<1>14. CASE n.op = "swc2" /\ a % 4 = 0
  <2>1. Ran(s, j, Put(t, mem), StoreUnlessIsolated(k, mem), Y, n)
    BY <1>1, <1>2, <1>6, StoreRuns DEF t, k
  <2> QED
    BY <1>7, <1>8, <1>9, <1>14, <2>1 DEF Stepped
<1> QED
  BY <1>11, <1>12, <1>13, <1>14

LEMMA UnlistedSteps ==
  ASSUME NEW s, NEW j, NEW X, NEW Y, NEW n, Together(s, j, X, Y, n), n.op \in Unlisted
  PROVE  Stepped(s, j, Execute(s, n), CompileInstr(j, n), Y, n)
<1> DEFINE t == IF n.op = "cop1" THEN DelayedLoad(s) ELSE s
           k == CompileDelayedLoad(j, TRUE)
<1>1. n.op \in {"cop1", "cop3"}
  BY DEF Unlisted
<1>2. Execute(s, n) = Raise(t, "CoprocessorError", 0)
  <2>1. CASE n.op = "cop1"
    <3>1. Execute(s, n) = TrapOp(s, n)
      BY <2>1 DEF Execute, LogicOps, ShiftOps, AddOps, SetOps, Traps, Coprocessor
    <3> QED
      BY <2>1, <3>1 DEF TrapOp, Trap, Coprocessor
  <2>2. CASE n.op = "cop3"
    <3>1. Execute(s, n) = Trap(s, "CoprocessorError")
      BY <2>2 DEF Execute, LogicOps, ShiftOps, AddOps, SetOps, Traps, Coprocessor
    <3> QED
      BY <2>2, <3>1 DEF Trap
  <2> QED
    BY <1>1, <2>1, <2>2
<1>3. CompileInstr(j, n) = CompileException(k, "IllegalInstruction", 0)
  <2>1. CompileInstr(j, n) = CompileTrap(j, n)
    BY <1>1 DEF CompileInstr, Cop2Ops
  <2> QED
    BY <1>1, <2>1 DEF CompileTrap
<1>4. {"sr", "cause", "epc", "pc"} \subseteq Parting(s, n, Y) /\ "cause" \in Parting(s, n, Y)
  BY DEF Parting
<1>5. /\ {"CoprocessorError", "IllegalInstruction"} \subseteq Causes /\ 0 \in Word
      /\ ~IsAddressError("CoprocessorError") /\ ~IsAddressError("IllegalInstruction")
      /\ IsAddressError("CoprocessorError") = IsAddressError("IllegalInstruction")
  BY Sizes DEF Causes, ExceptionCode, IsAddressError, Word
<1>6. t = DelayedLoad(s) \/ (t = s /\ n.op \in {"add", "addi", "cop3"})
  BY <1>1
<1> HIDE DEF t
<1>7. Stepped(s, j, Raise(t, "CoprocessorError", 0), CompileException(k, "IllegalInstruction", 0), Y, n)
  BY <1>4, <1>5, <1>6, Throws DEF k
<1> QED
  BY <1>2, <1>3, <1>7

\* One instruction that is no jump: both engines go on together, or both raise
\* an exception and part no further than Parting says.
LEMMA Instruction ==
  ASSUME NEW s, NEW j, NEW X, NEW Y, NEW n, Together(s, j, X, Y, n)
  PROVE  Stepped(s, j, Execute(s, n), CompileInstr(j, n), Y, n)
<1>1. n.op \in Ops /\ ~IsJump(n)
  BY DEF Together, IsInstruction
<1>2. n.op \notin {"j", "jal", "jr", "jalr", "break", "syscall", "illegal", "bxx", "beq", "bne",
                  "blez", "bgtz"} \cup Coprocessor
  BY <1>1 DEF IsJump, IsConditionalJump, IsUnconditionalJump, IsIllegal
<1>3. CASE n.op \in LogicOps \cup ShiftOps \cup AddOps \cup SetOps \cup
                   {"mfhi", "mthi", "mflo", "mtlo", "mult", "multu", "div", "divu"}
  <2>1. Ran(s, j, Execute(s, n), CompileInstr(j, n), Y, n)
    BY <1>3, LogicSteps, ShiftSteps, AddSteps, SetSteps, MoveSteps, MultiplySteps, DivideSteps
  <2> QED
    BY <2>1 DEF Stepped
<1>4. CASE n.op \in {"lb", "lbu", "lwl", "lwr", "swl", "swr", "mfc0", "mtc0", "rfe"} \cup Cop2Ops
  <2>1. Ran(s, j, Execute(s, n), CompileInstr(j, n), Y, n)
    BY <1>4, LoadByteSteps, LoadPartSteps, StorePartSteps, Cop2Steps, ReadCop0Steps,
       WriteCop0Steps, RfeSteps
  <2> QED
    BY <2>1 DEF Stepped
<1>5. CASE n.op \in {"add", "addi", "sub", "sw", "sh", "sb", "lw", "lh", "lhu", "lwc2", "swc2"}
                   \cup Unlisted
  BY <1>5, CheckedSteps, StoreSteps, LoadSteps, Cop2MemorySteps, UnlistedSteps
<1> QED
  BY <1>1, <1>2, <1>3, <1>4, <1>5 DEF Ops, Traps, MemoryOps, Cop0Ops, Unlisted

-----------------------------------------------------------------------------
(* From one instruction to the next.                                       *)

LEMMA RegistersAreVars ==
  ASSUME NEW n, IsInstruction(n)
  PROVE  GetRegisters(n) \subseteq Var
<1>1. /\ n.rs \in Reg /\ n.op \in Ops
      /\ n.op # "bxx" => n.rt \in Reg
      /\ n.op \notin Cop0Ops => n.rd \in Reg
  BY FieldsOf
<1>2. /\ Reg \subseteq Var /\ 31 \in Var /\ ExceptionRegs \subseteq Var
      /\ {REG_HI, REG_LO, REG_SR, REG_BADDR, REG_CAUSE, REG_EPC} \subseteq Var
  BY VarFacts DEF ExceptionRegs
<1>3. CASE n.op \in Cop0Ops
  <2>1. n.rt \in Reg
    BY <1>1, <1>3 DEF Cop0Ops
  <2>2. GetRegisters(n) = RegsOfCop0(n)
    BY <1>3 DEF GetRegisters, Special, Immediate, MemoryOps, Cop0Ops, Cop2Ops
  <2> QED
    BY <1>2, <2>1, <2>2 DEF RegsOfCop0
<1>4. CASE n.op = "bxx"
  <2>1. GetRegisters(n) = {n.rs, 31}
    BY <1>4, RegistersOf
  <2> QED
    BY <1>1, <1>2, <2>1
<1>5. CASE n.op \notin Cop0Ops /\ n.op # "bxx"
  <2> DEFINE G == GetRegisters(n)
             fields == {n.rs, n.rt, n.rd}
  <2>1. fields \subseteq Var
    BY <1>1, <1>2, <1>5
  <2>2. G \subseteq fields \cup ExceptionRegs \cup {31, REG_HI, REG_LO, REG_SR}
    <3>1. CASE n.op \in Special
      <4>1. G = RegsOfSpecial(n)
        BY <3>1 DEF GetRegisters, Special, Immediate, MemoryOps, Cop0Ops, Cop2Ops
      <4> QED
        BY <3>1, <4>1 DEF RegsOfSpecial, Special
    <3>2. CASE n.op \in Immediate
      <4>1. G = RegsOfImmediate(n)
        BY <3>2 DEF GetRegisters, Special, Immediate, MemoryOps, Cop0Ops, Cop2Ops
      <4> QED
        BY <1>5, <3>2, <4>1 DEF RegsOfImmediate, Immediate
    <3>3. CASE n.op \in MemoryOps
      <4>1. G = RegsOfMemory(n)
        BY <3>3 DEF GetRegisters, Special, Immediate, MemoryOps, Cop0Ops, Cop2Ops
      <4> QED
        BY <3>3, <4>1 DEF RegsOfMemory, MemoryOps
    <3>4. CASE n.op \in Cop2Ops
      <4>1. G = RegsOfCop2(n)
        BY <3>4 DEF GetRegisters, Special, Immediate, MemoryOps, Cop0Ops, Cop2Ops
      <4> QED
        BY <4>1 DEF RegsOfCop2
    <3>5. CASE n.op \notin Special \cup Immediate \cup MemoryOps \cup Cop2Ops
      BY <1>5, <3>5 DEF GetRegisters
    <3> QED
      BY <3>1, <3>2, <3>3, <3>4, <3>5
  <2> HIDE DEF G, fields
  <2>3. {31, REG_HI, REG_LO, REG_SR} \subseteq Var
    BY <1>2
  <2>4. G \subseteq Var
    BY <1>2, <2>1, <2>2, <2>3
  <2> QED
    BY <2>4 DEF G
<1> QED
  BY <1>3, <1>4, <1>5

\* What comes before the instruction is executed.
Fetched(s) ==
    [s EXCEPT !.current_pc = s.pc, !.pc = s.next_pc, !.next_pc = Wrap(@ + 4),
              !.delay_slot = s.branch, !.branch = FALSE]

LEMMA FetchedIs ==
  ASSUME NEW s, IsRef(s)
  PROVE  LET u == Fetched(s)
         IN /\ IsRef(u) /\ RestRef(s, u) /\ u.r = s.r /\ u.load = s.load
            /\ u.current_pc = s.pc /\ u.pc = s.next_pc /\ u.next_pc = Wrap(s.next_pc + 4)
            /\ u.delay_slot = s.branch /\ u.branch = FALSE /\ u.interrupt = s.interrupt
            /\ \A n : RunNext(s, n) = Execute(u, n)
<1> DEFINE p == Wrap(s.next_pc + 4)
           u == [s EXCEPT !.current_pc = s.pc, !.pc = s.next_pc, !.next_pc = p,
                          !.delay_slot = s.branch, !.branch = FALSE]
<1>1. s.next_pc \in Word
  BY DEF IsRef
<1>2. s.next_pc + 4 \in Int
  BY <1>1, Sizes DEF Word
<1>3. p \in Word
  BY <1>2, WrapIsWord
<1>4. Fetched(s) = u
  BY DEF Fetched, IsRef
<1>5. \A n : RunNext(s, n) = Execute(Fetched(s), n)
  BY DEF RunNext, Fetched
<1> HIDE DEF p
<1>6. /\ IsRef(u) /\ u.r = s.r /\ u.load = s.load
      /\ u.current_pc = s.pc /\ u.pc = s.next_pc /\ u.next_pc = p
      /\ u.delay_slot = s.branch /\ u.branch = FALSE /\ u.interrupt = s.interrupt
  BY <1>3 DEF IsRef
<1>7. RestRef(s, u)
  BY DEF IsRef, RestRef
<1> HIDE DEF u
<1> QED
  BY <1>4, <1>5, <1>6, <1>7 DEF p

\* More registers known to the block.
With(j, G) == [j EXCEPT !.regs = @ \cup G]

LEMMA WithIs ==
  ASSUME NEW j, IsJit(j), NEW G \in SUBSET Var
  PROVE  LET k == With(j, G)
         IN /\ IsJit(k) /\ SteadyJit(j, k) /\ k.v = j.v /\ k.m = j.m /\ k.regs = j.regs \cup G
            /\ k.mem = j.mem /\ k.gd = j.gd /\ k.gc = j.gc /\ k.delayed_load = j.delayed_load
BY DEF With, IsJit, SteadyJit

\* The two before an instruction of a block.
InStep(s, j) ==
    /\ Same(s, j, Reg) /\ Ready(s, j, Reg)
    /\ j.i = 0 => Fresh(s, j)
    /\ s.pc = CurrentPc(j) /\ s.next_pc = Wrap(s.pc + 4)
    /\ ~s.branch /\ ~s.delay_slot /\ ~s.interrupt /\ ~j.done

LEMMA NextPcs ==
  ASSUME NEW j, IsJit(j)
  PROVE  /\ CurrentPc(j) \in Word /\ CurrentPc(j) \in Int
         /\ Wrap(Wrap(CurrentPc(j) + 4) + 4) = Wrap(CurrentPc(j) + 8)
         /\ Wrap(CurrentPc(j) + 4) = Wrap(j.addr + 4 * (j.i + 1))
         /\ \A x \in Int : Wrap(Wrap(CurrentPc(j) + 4) + 4 * x)
                           = Wrap(Wrap(CurrentPc(j) + 4 * x) + 4)
<1>1. j.addr \in Int /\ j.i \in Int
  BY Sizes DEF IsJit, Word
<1> DEFINE a == j.addr + 4 * j.i
           p == CurrentPc(j)
<1>2. a \in Int
  BY <1>1
<1>3. p \in Word /\ p \in Int /\ p = Wrap(a)
  BY <1>2, WrapIsWord, Sizes DEF CurrentPc, Word
<1>4. Wrap(p + 4) = Wrap(a + 4)
  BY <1>2, <1>3, WrapTwice
<1>5. a + 4 = j.addr + 4 * (j.i + 1)
  BY <1>1
<1> HIDE DEF a, p
<1>6. Wrap(Wrap(p + 4) + 4) = Wrap(p + 8)
  <2>1. p + 4 \in Int /\ (p + 4) + 4 = p + 8
    BY <1>3
  <2> QED
    BY <2>1, WrapTwice
<1>7. ASSUME NEW x \in Int PROVE Wrap(Wrap(p + 4) + 4 * x) = Wrap(Wrap(p + 4 * x) + 4)
  <2>1. p + 4 \in Int /\ 4 * x \in Int /\ p + 4 * x \in Int /\ 4 \in Int
        /\ (p + 4) + 4 * x = (p + 4 * x) + 4
    BY <1>3
  <2>2. Wrap(Wrap(p + 4) + 4 * x) = Wrap((p + 4) + 4 * x)
    BY <2>1, WrapTwice
  <2>3. Wrap(Wrap(p + 4 * x) + 4) = Wrap((p + 4 * x) + 4)
    BY <2>1, WrapTwice
  <2> QED
    BY <2>1, <2>2, <2>3
<1> QED
  BY <1>3, <1>4, <1>5, <1>6, <1>7 DEF p

LEMMA Fetching ==
  ASSUME NEW s, NEW j, InStep(s, j), NEW G \in SUBSET Var
  PROVE  LET u == Fetched(s)
             l == With(j, G)
         IN /\ Same(u, l, Reg) /\ Ready(u, l, Reg) /\ (l.i = 0 => Fresh(u, l))
            /\ u.current_pc = CurrentPc(l) /\ u.pc = Wrap(CurrentPc(l) + 4)
            /\ u.next_pc = Wrap(CurrentPc(l) + 8)
            /\ ~u.branch /\ ~u.delay_slot /\ ~u.interrupt
            /\ u.sr = s.sr /\ u.load = s.load
            /\ ~l.done /\ l.i = j.i /\ l.addr = j.addr /\ G \subseteq l.regs
            /\ CurrentPc(l) = CurrentPc(j)
            /\ l.m = j.m
<1> DEFINE u == Fetched(s)
           l == With(j, G)
<1>1. /\ Same(s, j, Reg) /\ Ready(s, j, Reg)
      /\ j.i = 0 => Fresh(s, j)
      /\ s.pc = CurrentPc(j) /\ s.next_pc = Wrap(s.pc + 4)
      /\ ~s.branch /\ ~s.delay_slot /\ ~s.interrupt /\ ~j.done
      /\ IsRef(s) /\ IsJit(j)
  BY DEF InStep, Same
<1>2. /\ IsRef(u) /\ RestRef(s, u) /\ u.r = s.r /\ u.load = s.load
      /\ u.current_pc = s.pc /\ u.pc = s.next_pc /\ u.next_pc = Wrap(s.next_pc + 4)
      /\ u.delay_slot = s.branch /\ u.branch = FALSE /\ u.interrupt = s.interrupt
  BY <1>1, FetchedIs
<1>3. /\ IsJit(l) /\ SteadyJit(j, l) /\ l.v = j.v /\ l.m = j.m /\ l.regs = j.regs \cup G
      /\ l.mem = j.mem /\ l.gd = j.gd /\ l.gc = j.gc /\ l.delayed_load = j.delayed_load
  BY <1>1, WithIs
<1> HIDE DEF u, l
<1>4. CurrentPc(l) = CurrentPc(j) /\ l.i = j.i /\ l.addr = j.addr /\ l.done = j.done
      /\ l.delay_slot = j.delay_slot
  BY <1>3 DEF SteadyJit, CurrentPc
<1>5. u.next_pc = Wrap(CurrentPc(l) + 8)
  BY <1>1, <1>2, <1>4, NextPcs
<1>6. u.delay_slot = FALSE /\ s.delay_slot = FALSE /\ j.delay_slot = FALSE
  BY <1>1, <1>2 DEF Same, IsRef, IsJit
<1>7. Same(u, l, Reg)
  <2>1. /\ u.hi = l.v[REG_HI] /\ u.lo = l.v[REG_LO]
        /\ u.sr = l.v[REG_SR] /\ u.cause = l.v[REG_CAUSE]
        /\ u.epc = l.v[REG_EPC] /\ u.baddr = l.v[REG_BADDR]
        /\ u.mem = l.mem /\ u.gd = l.gd /\ u.gc = l.gc
        /\ u.delay_slot = l.delay_slot
    BY <1>1, <1>2, <1>3, <1>4, <1>6 DEF Same, RestRef
  <2>2. /\ \A x \in Var : x \notin l.regs => l.v[x] = l.m[x]
        /\ u.r[0] = 0 /\ l.v[0] = 0 /\ \A x \in Reg : u.r[x] = l.v[x]
        /\ l.m[REG_LOAD_REG] \in Reg
    BY <1>1, <1>2, <1>3 DEF Same
  <2> QED
    BY <1>2, <1>3, <2>1, <2>2 DEF Same
<1>8. Ready(u, l, Reg) /\ (l.i = 0 => Fresh(u, l))
  <2>1. Fresh(s, j) => Fresh(u, l)
    BY <1>2, <1>3, <1>4 DEF Fresh
  <2>2. Empty(s, j) /\ Delivered(j, Reg) => Empty(u, l) /\ Delivered(l, Reg)
    BY <1>2, <1>3, <1>4 DEF Empty, Quiet, Delivered
  <2>3. InFlight(s, j) => InFlight(u, l)
    BY <1>2, <1>3 DEF InFlight
  <2> QED
    BY <1>1, <1>3, <1>4, <2>1, <2>2, <2>3 DEF Ready
<1>9. u.sr = s.sr
  BY <1>2 DEF RestRef
<1> QED
  BY <1>1, <1>2, <1>3, <1>4, <1>5, <1>6, <1>7, <1>8, <1>9 DEF u, l

\* The block goes on with the next index.
Onward(k) == [k EXCEPT !.i = @ + 1]

LEMMA GoingOn ==
  ASSUME NEW t, NEW k, Same(t, k, Reg), Held(t, k), k.v[REG_LOAD_REG] = 0,
         t.pc = Wrap(CurrentPc(k) + 4), t.next_pc = Wrap(CurrentPc(k) + 8),
         ~t.branch, ~t.delay_slot, ~t.interrupt, ~k.done
  PROVE  InStep(t, Onward(k)) /\ Onward(k).i = k.i + 1
<1> DEFINE e == k.i + 1
           l == [k EXCEPT !.i = e]
<1>1. IsRef(t) /\ IsJit(k)
  BY DEF Same
<1>2. Onward(k) = l
  BY <1>1 DEF Onward, IsJit
<1>3. e \in Nat /\ e # 0
  BY <1>1 DEF IsJit
<1> HIDE DEF e
<1>4. /\ IsJit(l) /\ l.v = k.v /\ l.m = k.m /\ l.regs = k.regs /\ l.mem = k.mem
      /\ l.gd = k.gd /\ l.gc = k.gc /\ l.delayed_load = k.delayed_load /\ l.i = e
      /\ l.addr = k.addr /\ l.delay_slot = k.delay_slot /\ l.done = k.done
  BY <1>1, <1>3 DEF IsJit
<1> HIDE DEF l
<1>5. Same(t, l, Reg)
  BY <1>4 DEF Same
<1>6. Ready(t, l, Reg)
  <2>1. Empty(t, k) => Empty(t, l)
    BY <1>4 DEF Empty, Quiet
  <2>2. InFlight(t, k) => InFlight(t, l)
    BY <1>4 DEF InFlight
  <2>3. Delivered(l, Reg)
    BY <1>3, <1>4 DEF Delivered
  <2> QED
    BY <1>3, <1>4, <2>1, <2>2, <2>3 DEF Ready, Held
<1>7. t.pc = CurrentPc(l) /\ t.next_pc = Wrap(t.pc + 4)
  BY <1>1, <1>4, NextPcs DEF CurrentPc, e
<1> QED
  BY <1>2, <1>3, <1>4, <1>5, <1>6, <1>7 DEF InStep, e
-----------------------------------------------------------------------------
(* The end of a block.                                                     *)

\* What the block would leave if it returned now: the registers X of t, the
\* others, memory and the load still pending.
Settled(t, k, X) ==
    /\ IsRef(t) /\ IsJit(k)
    /\ \A x \in X : t.r[x] = k.v[x]
    /\ t.hi = k.v[REG_HI] /\ t.lo = k.v[REG_LO]
    /\ t.sr = k.v[REG_SR] /\ t.cause = k.v[REG_CAUSE]
    /\ t.epc = k.v[REG_EPC] /\ t.baddr = k.v[REG_BADDR]
    /\ t.mem = k.mem /\ t.gd = k.gd /\ t.gc = k.gc
    /\ \A x \in Var : x \notin k.regs => k.v[x] = k.m[x]
    /\ t.load[1] = k.v[REG_LOAD_REG]
    /\ t.load[1] # 0 => t.load[2] = k.v[REG_LOAD_VAL]

LEMMA Pushed ==
  ASSUME NEW t, NEW k, NEW X, Same(t, k, X), X \subseteq Reg, Held(t, k)
  PROVE  LET l == PushDelayLoadToRegs(k)
         IN Settled(t, l, X) /\ SteadyJit(k, l)
<1> DEFINE d == k.delayed_load
           l == PushDelayLoadToRegs(k)
<1>1. IsRef(t) /\ IsJit(k)
  BY DEF Same
<1>2. CASE d = None
  <2> DEFINE e == [k EXCEPT !.delayed_load = None]
  <2>1. l = e
    BY <1>2 DEF PushDelayLoadToRegs
  <2>2. IsJit(e) /\ SteadyJit(k, e) /\ e.v = k.v /\ e.m = k.m /\ e.regs = k.regs
        /\ e.mem = k.mem /\ e.gd = k.gd /\ e.gc = k.gc
    BY <1>1, LoadIs
  <2> HIDE DEF e
  <2>3. t.load[1] = 0 /\ e.v[REG_LOAD_REG] = 0
    BY <1>2, <2>2 DEF Held, Empty, Quiet, InFlight
  <2>4. Settled(t, e, X)
    BY <1>1, <2>2, <2>3 DEF Settled, Same
  <2> QED
    BY <2>1, <2>2, <2>4
<1>3. CASE d # None /\ d[1] = 0
  <2> DEFINE e == [k EXCEPT !.delayed_load = None]
  <2>1. l = e
    BY <1>3 DEF PushDelayLoadToRegs
  <2>2. IsJit(e) /\ SteadyJit(k, e) /\ e.v = k.v /\ e.m = k.m /\ e.regs = k.regs
        /\ e.mem = k.mem /\ e.gd = k.gd /\ e.gc = k.gc
    BY <1>1, LoadIs
  <2> HIDE DEF e
  <2>3. t.load[1] = 0 /\ e.v[REG_LOAD_REG] = 0
    BY <1>3, <2>2 DEF Held, Empty, Quiet, InFlight
  <2>4. Settled(t, e, X)
    BY <1>1, <2>2, <2>3 DEF Settled, Same
  <2> QED
    BY <2>1, <2>2, <2>4
<1>4. CASE d # None /\ d[1] # 0
  <2> DEFINE v1 == [k.v EXCEPT ![REG_LOAD_REG] = d[1], ![REG_LOAD_VAL] = d[2]]
             g1 == k.regs \cup {REG_LOAD_REG, REG_LOAD_VAL}
             e == [k EXCEPT !.v = v1, !.regs = g1, !.delayed_load = None]
  <2>1. l = e
    BY <1>1, <1>4 DEF PushDelayLoadToRegs, IsJit
  <2>2. d[1] \in Reg /\ d[2] \in Word
    BY <1>1, <1>4 DEF IsJit
  <2>3. /\ v1 \in [Var -> Word] /\ v1[REG_LOAD_REG] = d[1] /\ v1[REG_LOAD_VAL] = d[2]
        /\ \A x \in Var : x \notin {REG_LOAD_REG, REG_LOAD_VAL} => v1[x] = k.v[x]
    <3>1. k.v \in [Var -> Word]
      BY <1>1 DEF IsJit
    <3>2. {REG_LOAD_REG, REG_LOAD_VAL} \subseteq Var /\ d[1] \in Word /\ REG_LOAD_REG # REG_LOAD_VAL
      <4>1. 39 \in Var /\ 40 \in Var
        BY VarFacts
      <4>2. d[1] \in Word
        BY <2>2, VarFacts
      <4> QED
        BY <4>1, <4>2 DEF REG_LOAD_REG, REG_LOAD_VAL
    <3> QED
      BY <2>2, <3>1, <3>2
  <2>4. g1 \in SUBSET Var
    BY <1>1, VarFacts DEF IsJit, REG_LOAD_REG, REG_LOAD_VAL
  <2> HIDE DEF v1, g1
  <2>5. IsJit(e) /\ e.v = v1 /\ e.regs = g1 /\ e.m = k.m /\ e.mem = k.mem /\ e.gd = k.gd
        /\ e.gc = k.gc /\ e.i = k.i /\ e.addr = k.addr /\ e.delay_slot = k.delay_slot
        /\ e.done = k.done /\ e.cycles = k.cycles
    BY <1>1, <2>3, <2>4 DEF IsJit
  <2> HIDE DEF e
  <2>6. SteadyJit(k, e)
    BY <2>5 DEF SteadyJit, g1
  <2>7. t.load[1] = d[1] /\ t.load[2] = d[2]
    BY <1>4 DEF Held, Empty, InFlight
  <2>8. \A x \in Reg \cup 32 .. 38 : x \in Var /\ e.v[x] = k.v[x]
    BY <2>3, <2>5, VarFacts DEF REG_LOAD_REG, REG_LOAD_VAL, Var
  <2>9. /\ t.hi = e.v[REG_HI] /\ t.lo = e.v[REG_LO]
        /\ t.sr = e.v[REG_SR] /\ t.cause = e.v[REG_CAUSE]
        /\ t.epc = e.v[REG_EPC] /\ t.baddr = e.v[REG_BADDR]
    BY <2>8 DEF Same, REG_HI, REG_LO, REG_SR, REG_CAUSE, REG_EPC, REG_BADDR
  <2>10. \A x \in Var : x \notin e.regs => e.v[x] = e.m[x]
    BY <2>3, <2>5 DEF Same, g1
  <2>11. Settled(t, e, X)
    BY <1>1, <2>3, <2>5, <2>7, <2>8, <2>9, <2>10 DEF Settled, Same
  <2> QED
    BY <2>1, <2>6, <2>11
<1> QED
  BY <1>2, <1>3, <1>4

\* Out of the delay slot.
LEMMA LeftSlot ==
  ASSUME NEW t, NEW k, NEW X, Settled(t, k, X)
  PROVE  LET l == [k EXCEPT !.delay_slot = FALSE]
         IN /\ Settled(t, l, X)
            /\ l.i = k.i /\ l.addr = k.addr /\ l.done = k.done /\ l.regs = k.regs
<1> DEFINE l == [k EXCEPT !.delay_slot = FALSE]
<1>1. IsJit(k)
  BY DEF Settled
<1>2. IsJit(l) /\ l.v = k.v /\ l.m = k.m /\ l.regs = k.regs /\ l.mem = k.mem /\ l.gd = k.gd
      /\ l.gc = k.gc /\ l.i = k.i /\ l.addr = k.addr /\ l.done = k.done
  BY <1>1 DEF IsJit
<1> HIDE DEF l
<1>3. Settled(t, l, X)
  BY <1>2 DEF Settled
<1> QED
  BY <1>2, <1>3 DEF l

\* A register the interpreter has set already.
LEMMA Linked ==
  ASSUME NEW t, NEW k, NEW X, Settled(t, k, X), NEW x \in Reg, x \in k.regs, X \subseteq Reg,
         NEW w \in Word, t.r[x] = w
  PROVE  LET l == Def(k, x, w)
         IN Settled(t, l, X \cup {x}) /\ l.i = k.i /\ l.addr = k.addr /\ l.done = k.done
<1> DEFINE l == Def(k, x, w)
<1>1. IsJit(k) /\ x \in Var /\ x \in 0 .. 31 /\ {32, 33, 34, 35, 36, 37, 38, 39, 40} \subseteq Var
  BY VarFacts DEF Settled
<1>2. /\ IsJit(l) /\ SteadyJit(k, l) /\ l.regs = k.regs /\ l.m = k.m
      /\ l.mem = k.mem /\ l.gd = k.gd /\ l.gc = k.gc
      /\ l.v[x] = w /\ \A y \in Var : y # x => l.v[y] = k.v[y]
  BY <1>1, DefIs
<1> HIDE DEF l
<1>3. \A y \in 32 .. 40 : l.v[y] = k.v[y]
  BY <1>1, <1>2
<1>4. /\ t.hi = l.v[REG_HI] /\ t.lo = l.v[REG_LO]
      /\ t.sr = l.v[REG_SR] /\ t.cause = l.v[REG_CAUSE]
      /\ t.epc = l.v[REG_EPC] /\ t.baddr = l.v[REG_BADDR]
      /\ t.load[1] = l.v[REG_LOAD_REG]
      /\ t.load[1] # 0 => t.load[2] = l.v[REG_LOAD_VAL]
  BY <1>3 DEF Settled, REG_HI, REG_LO, REG_SR, REG_CAUSE, REG_EPC, REG_BADDR, REG_LOAD_REG, REG_LOAD_VAL
<1>5. \A y \in X \cup {x} : t.r[y] = l.v[y]
  <2>1. \A y \in X : t.r[y] = k.v[y] /\ y \in Var
    BY VarFacts DEF Settled
  <2> QED
    BY <1>2, <2>1
<1>6. \A y \in Var : y \notin l.regs => l.v[y] = l.m[y]
  BY <1>2 DEF Settled
<1>7. t.mem = l.mem /\ t.gd = l.gd /\ t.gc = l.gc /\ IsRef(t)
  BY <1>2 DEF Settled
<1>8. Settled(t, l, X \cup {x})
  BY <1>2, <1>4, <1>5, <1>6, <1>7 DEF Settled
<1> QED
  BY <1>2, <1>8 DEF l, SteadyJit

\* The fields in which the guest sees s and j differ.
Differing(s, j) == {f \in Visible : View(s)[f] # View(Machine(j))[f]}

LEMMA AgreeingDiffer ==
  ASSUME NEW s, NEW j, NEW D, Agree(s, j, Visible \ D)
  PROVE  Differing(s, j) \subseteq D
BY DEF Agree, Differing

\* Where the two part when the block returns to pc.
EndParting(t, pc, X) ==
    (IF t.pc = pc THEN {} ELSE {"pc"}) \cup (IF X = Reg THEN {} ELSE {"r"})

LEMMA Returns ==
  ASSUME NEW t, NEW k, NEW X, Settled(t, k, X), NEW pc, NEW cycles
  PROVE  LET l == Return(k, pc, cycles)
         IN l.done /\ l.cycles = cycles /\ Differing(t, l) \subseteq EndParting(t, pc, X)
<1> DEFINE l == Return(k, pc, cycles)
           D == EndParting(t, pc, X)
<1>1. IsJit(k) /\ IsRef(t)
  BY DEF Settled
<1>2. /\ l.done /\ l.cycles = cycles /\ l.mem = k.mem /\ l.gd = k.gd /\ l.gc = k.gc
      /\ l.m[REG_PC] = pc
      /\ \A x \in Var \ {REG_PC} : l.m[x] = IF x \in k.regs THEN k.v[x] ELSE k.m[x]
  BY <1>1, ReturnIs
<1> HIDE DEF l
<1>3. \A x \in Var \ {REG_PC} : l.m[x] = k.v[x]
  BY <1>2 DEF Settled
<1>4. /\ \A x \in Reg : l.m[x] = k.v[x]
      /\ l.m[REG_HI] = k.v[REG_HI] /\ l.m[REG_LO] = k.v[REG_LO]
      /\ l.m[REG_SR] = k.v[REG_SR] /\ l.m[REG_CAUSE] = k.v[REG_CAUSE]
      /\ l.m[REG_EPC] = k.v[REG_EPC] /\ l.m[REG_BADDR] = k.v[REG_BADDR]
      /\ l.m[REG_LOAD_REG] = k.v[REG_LOAD_REG] /\ l.m[REG_LOAD_VAL] = k.v[REG_LOAD_VAL]
  BY <1>3, VarFacts DEF REG_HI, REG_LO, REG_PC, REG_SR, REG_CAUSE, REG_EPC, REG_BADDR, REG_LOAD_REG, REG_LOAD_VAL
<1>5. "r" \in D \/ \A x \in Reg : t.r[x] = l.m[x]
  BY <1>4 DEF Settled, D, EndParting
<1>6. /\ t.hi = l.m[REG_HI] /\ t.lo = l.m[REG_LO]
      /\ t.sr = l.m[REG_SR] /\ t.cause = l.m[REG_CAUSE]
      /\ t.epc = l.m[REG_EPC] /\ t.baddr = l.m[REG_BADDR]
      /\ t.load[1] = l.m[REG_LOAD_REG]
      /\ t.load[1] # 0 => t.load[2] = l.m[REG_LOAD_VAL]
      /\ t.mem = l.mem /\ t.gd = l.gd /\ t.gc = l.gc
  BY <1>2, <1>4 DEF Settled
<1>7. "pc" \in D \/ t.pc = l.m[REG_PC]
  BY <1>2 DEF D, EndParting
<1> HIDE DEF D
<1>8. Agree(t, l, Visible \ D)
  BY <1>1, <1>5, <1>6, <1>7, Agreement
<1> QED
  BY <1>2, <1>8, AgreeingDiffer DEF l, D
-----------------------------------------------------------------------------
(* An instruction that is no jump.                                         *)

\* Where the two may part for what is odd.
Allowed(O) == UNION {Extent[o] : o \in O}

LEMMA AllowedHas ==
  ASSUME NEW O
  PROVE  /\ "bootHandler" \in O => "pc" \in Allowed(O)
         /\ "slotEpc" \in O => "epc" \in Allowed(O)
         /\ "swc2Cause" \in O => "cause" \in Allowed(O)
         /\ "undelivered" \in O => "r" \in Allowed(O) /\ "load" \in Allowed(O)
         /\ "linkReload" \in O => "r" \in Allowed(O)
         /\ "fallThrough" \in O => "pc" \in Allowed(O)
         /\ "region" \in O => "pc" \in Allowed(O)
         /\ "illegal" \in O => /\ "sr" \in Allowed(O) /\ "cause" \in Allowed(O)
                               /\ "epc" \in Allowed(O) /\ "pc" \in Allowed(O)
<1>1. \A o \in O : \A f \in Extent[o] : f \in Allowed(O)
  BY DEF Allowed
<1>2. /\ "pc" \in Extent["bootHandler"] /\ "epc" \in Extent["slotEpc"]
      /\ "cause" \in Extent["swc2Cause"]
      /\ "r" \in Extent["undelivered"] /\ "load" \in Extent["undelivered"]
      /\ "r" \in Extent["linkReload"] /\ "pc" \in Extent["fallThrough"]
      /\ "pc" \in Extent["region"]
      /\ "sr" \in Extent["illegal"] /\ "cause" \in Extent["illegal"]
      /\ "epc" \in Extent["illegal"] /\ "pc" \in Extent["illegal"]
  BY DEF Extent
<1> QED
  BY <1>1, <1>2

\* What a step does: the block goes on, or an exception ends it and the two part
\* no further than what is odd about the instruction allows.
Goes(i, t, k, O) ==
    \/ ~t.interrupt /\ ~k.done /\ InStep(t, Onward(k)) /\ Onward(k).i = i + 1
    \/ t.interrupt /\ k.done /\ k.cycles = i + 1 /\ Differing(t, k) \subseteq Allowed(O)

LEMMA StraightGoes ==
  ASSUME InStep(ref, jit), NEW n, IsInstruction(n), ~IsJump(n),
         NEW t, t = RunNext(ref, n), NEW k, k = CompileInstr(Known(n), n),
         NEW O, O = OddStep(n, t), {"staleLoad", "moveToHiLo", "isolated"} \cap O = {}
  PROVE  Goes(jit.i, t, k, O)
<1> DEFINE u == Fetched(ref)
           G == GetRegisters(n)
           l == With(jit, G)
<1>1. IsRef(ref) /\ IsJit(jit) /\ G \in SUBSET Var
  BY RegistersAreVars DEF InStep, Same
<1>2. t = Execute(u, n) /\ k = CompileInstr(l, n)
  <2>1. RunNext(ref, n) = Execute(u, n)
    BY <1>1, FetchedIs
  <2>2. Known(n) = l
    BY DEF Known, With
  <2> QED
    BY <2>1, <2>2
<1> HIDE DEF G
<1>3. /\ Same(u, l, Reg) /\ Ready(u, l, Reg) /\ (l.i = 0 => Fresh(u, l))
      /\ u.current_pc = CurrentPc(l) /\ u.pc = Wrap(CurrentPc(l) + 4)
      /\ u.next_pc = Wrap(CurrentPc(l) + 8)
      /\ ~u.branch /\ ~u.delay_slot /\ ~u.interrupt
      /\ u.sr = ref.sr /\ u.load = ref.load
      /\ ~l.done /\ l.i = jit.i /\ G \subseteq l.regs
      /\ l.m = jit.m
  BY <1>1, Fetching
<1> HIDE DEF u, l
<1>4. /\ ~(jit.i = 0 /\ n.op \in LoadOps /\ Pending(n.rt))
      /\ ~(n.op \in {"mthi", "mtlo"} /\ Pending(n.rs))
      /\ ~(n.op \in {"swl", "swr"} /\ IsIsolated(ref.sr))
      /\ t.interrupt /\ IsBoot(ref.sr) => "bootHandler" \in O
      /\ t.interrupt /\ n.op \in {"add", "addi", "cop3"} /\ ref.load[1] # 0 => "undelivered" \in O
      /\ n.op = "swc2" /\ t.interrupt => "swc2Cause" \in O
      /\ IsIllegal(n) \/ n.op \in Unlisted => "illegal" \in O
  BY DEF OddStep
<1>5. Together(u, l, Reg, Reg, n)
  <2>1. Fresh(u, l) => l.i = 0
    BY DEF Fresh
  <2>2. ~(Fresh(u, l) /\ n.op \in LoadOps /\ u.load[1] # 0 /\ u.load[1] = n.rt)
    BY <1>3, <1>4, <2>1 DEF Pending
  <2>3. ~(n.op \in {"mthi", "mtlo"} /\ u.load[1] # 0 /\ u.load[1] = n.rs)
    BY <1>3, <1>4 DEF Pending
  <2>4. ~(n.op \in {"swl", "swr"} /\ IsIsolated(u.sr))
    BY <1>3, <1>4
  <2> QED
    BY <1>3, <2>2, <2>3, <2>4 DEF Together, G
<1>6. Stepped(u, l, t, k, Reg, n)
  BY <1>2, <1>5, Instruction
<1>7. CASE Ran(u, l, t, k, Reg, n)
  <2>1. /\ Same(t, k, Reg) /\ Held(t, k) /\ SteadyRef(u, t) /\ SteadyJit(l, k)
        /\ \/ k.v[REG_LOAD_REG] = 0
           \/ /\ l.i = 0 /\ n.op \in LoadOps
              /\ l.m[REG_LOAD_REG] = n.rt /\ k.v[REG_LOAD_REG] = n.rt
    BY <1>7 DEF Ran
  <2>2. k.v[REG_LOAD_REG] = 0
    <3>1. CASE /\ l.i = 0 /\ n.op \in LoadOps
               /\ l.m[REG_LOAD_REG] = n.rt /\ k.v[REG_LOAD_REG] = n.rt
      <4>1. u.load[1] = n.rt
        BY <1>3, <3>1 DEF Fresh
      <4>2. n.rt = 0
        BY <1>3, <1>4, <3>1, <4>1 DEF Pending
      <4> QED
        BY <3>1, <4>2
    <3> QED
      BY <2>1, <3>1
  <2>3. CurrentPc(k) = CurrentPc(l) /\ k.i = jit.i /\ ~k.done
    BY <1>3, <2>1 DEF SteadyJit, CurrentPc
  <2>4. /\ t.pc = Wrap(CurrentPc(k) + 4) /\ t.next_pc = Wrap(CurrentPc(k) + 8)
        /\ ~t.branch /\ ~t.delay_slot /\ ~t.interrupt
    BY <1>3, <2>1, <2>3 DEF SteadyRef
  <2>5. InStep(t, Onward(k)) /\ Onward(k).i = k.i + 1
    BY <2>1, <2>2, <2>3, <2>4, GoingOn
  <2> QED
    BY <2>3, <2>4, <2>5 DEF Goes
<1>8. CASE /\ t.interrupt /\ k.done /\ k.cycles = l.i + 1
           /\ Agree(t, k, Visible \ Parting(u, n, Reg))
  <2>1. Parting(u, n, Reg) \subseteq Allowed(O)
    <3>1. IsBoot(u.sr) => "pc" \in Allowed(O)
      BY <1>3, <1>4, <1>8, AllowedHas
    <3>2. n.op = "swc2" => "cause" \in Allowed(O)
      BY <1>4, <1>8, AllowedHas
    <3>3. n.op \in {"add", "addi", "cop3"} /\ u.load[1] # 0 => "r" \in Allowed(O) /\ "load" \in Allowed(O)
      BY <1>3, <1>4, <1>8, AllowedHas
    <3>4. IsIllegal(n) \/ n.op \in Unlisted => {"sr", "cause", "epc", "pc"} \subseteq Allowed(O)
      BY <1>4, AllowedHas
    <3> QED
      BY <1>3, <3>1, <3>2, <3>3, <3>4 DEF Parting
  <2>2. Differing(t, k) \subseteq Parting(u, n, Reg)
    BY <1>8, AgreeingDiffer
  <2> QED
    BY <1>3, <1>8, <2>1, <2>2 DEF Goes
<1> QED
  BY <1>6, <1>7, <1>8 DEF Stepped

\* syscall, break and what is illegal.
LEMMA TrapGoes ==
  ASSUME InStep(ref, jit), NEW n, IsInstruction(n), NEW slot, IsInstruction(slot),
         IsUnconditionalJump(n), n.op \in Traps,
         NEW t, t = RunNext(ref, n), NEW k, k = CompileTrap(Known2(n, slot), n),
         NEW O, O = OddStep(n, t)
  PROVE  t.interrupt /\ k.done /\ k.cycles = jit.i + 1 /\ Differing(t, k) \subseteq Allowed(O)
<1> DEFINE u == Fetched(ref)
           G == GetRegisters(n) \cup GetRegisters(slot)
           l == With(jit, G)
           d == DelayedLoad(u)
           e == CompileDelayedLoad(l, TRUE)
           c1 == CASE n.op = "syscall" -> "SysCall"
                   [] n.op = "break"   -> "Break"
                   [] n.op = "illegal" -> "IllegalInstruction"
                   [] n.op \in {"cop1"} \cup Coprocessor -> "CoprocessorError"
           c2 == CASE n.op = "break" -> "Break" [] n.op = "syscall" -> "SysCall"
                   [] OTHER -> "IllegalInstruction"
           D == (IF IsBoot(ref.sr) THEN {"pc"} ELSE {})
                \cup (IF IsIllegal(n) THEN {"sr", "cause", "epc", "pc"} ELSE {})
<1>1. IsRef(ref) /\ IsJit(jit) /\ G \in SUBSET Var
  BY RegistersAreVars DEF InStep, Same
<1>2. n.op \in {"syscall", "break"} \/ IsIllegal(n)
  BY DEF IsUnconditionalJump, IsIllegal, Traps, Coprocessor
<1>3. t = Raise(d, c1, 0)
  <2>1. RunNext(ref, n) = Execute(u, n)
    BY <1>1, FetchedIs
  <2>2. Execute(u, n) = TrapOp(u, n)
    BY <1>2 DEF Execute, IsIllegal, LogicOps, ShiftOps, AddOps, SetOps, Traps, Coprocessor
  <2>3. TrapOp(u, n) = Raise(d, c1, 0)
    BY DEF TrapOp, Trap
  <2> QED
    BY <2>1, <2>2, <2>3
<1>4. k = CompileException(e, c2, 0)
  <2>1. Known2(n, slot) = l
    <3>1. jit.regs \cup GetRegisters(n) \cup GetRegisters(slot) = jit.regs \cup G
      OBVIOUS
    <3> QED
      BY <3>1 DEF Known2, With
  <2>2. CompileTrap(l, n) = CompileException(e, c2, 0)
    BY DEF CompileTrap
  <2> QED
    BY <2>1, <2>2
<1>5. /\ Same(u, l, Reg) /\ Ready(u, l, Reg)
      /\ u.current_pc = CurrentPc(l) /\ ~u.delay_slot
      /\ u.sr = ref.sr /\ l.i = jit.i /\ G \subseteq l.regs
  <2> HIDE DEF G
  <2> QED
    BY <1>1, Fetching
<1>6. /\ c1 \in Causes /\ c2 \in Causes
      /\ ~IsAddressError(c1) /\ IsAddressError(c1) = IsAddressError(c2)
      /\ ~IsIllegal(n) => c1 = c2 /\ ExceptionRegs \subseteq G
  <2>1. CASE n.op = "syscall"
    <3>1. c1 = "SysCall" /\ c2 = "SysCall"
      BY <2>1 DEF Coprocessor
    <3>2. ExceptionRegs \subseteq G
      BY <2>1, RegistersOf
    <3> HIDE DEF c1, c2
    <3> QED
      BY <3>1, <3>2 DEF Causes, ExceptionCode, IsAddressError
  <2>2. CASE n.op = "break"
    <3>1. c1 = "Break" /\ c2 = "Break"
      BY <2>2 DEF Coprocessor
    <3>2. ExceptionRegs \subseteq G
      BY <2>2, RegistersOf
    <3> HIDE DEF c1, c2
    <3> QED
      BY <3>1, <3>2 DEF Causes, ExceptionCode, IsAddressError
  <2>3. CASE IsIllegal(n)
    <3>1. c1 \in {"IllegalInstruction", "CoprocessorError"} /\ c2 = "IllegalInstruction"
      BY <2>3 DEF IsIllegal, Coprocessor
    <3> HIDE DEF c1, c2
    <3>2. c1 \in Causes /\ c2 \in Causes
      BY <3>1 DEF Causes, ExceptionCode
    <3>3. ~IsAddressError(c1) /\ IsAddressError(c1) = IsAddressError(c2)
      BY <3>1 DEF IsAddressError
    <3> QED
      BY <2>3, <3>2, <3>3
  <2> QED
    BY <1>2, <2>1, <2>2, <2>3
<1> HIDE DEF u, l, G, c1, c2
<1>7. /\ Same(d, e, Reg) /\ Empty(d, e)
      /\ SteadyRef(u, d) /\ SteadyJit(l, e) /\ RestRef(u, d)
  BY <1>5, Deliver
<1> HIDE DEF d, e
<1>8. "load" \in D \/ (d.load[1] = 0 /\ e.v[REG_LOAD_REG] = 0)
  BY <1>7 DEF Empty, Quiet
<1>9. /\ d.sr = ref.sr /\ ~d.delay_slot /\ d.current_pc = CurrentPc(e) /\ e.i = jit.i
      /\ G \subseteq e.regs
  BY <1>5, <1>7 DEF SteadyRef, SteadyJit, RestRef, CurrentPc
<1>10. /\ {"sr", "cause", "epc", "pc"} \subseteq D \/ ExceptionRegs \subseteq e.regs
       /\ "cause" \in D \/ c1 = c2
       /\ "pc" \in D \/ ~IsBoot(d.sr)
  BY <1>6, <1>9
<1>11. 0 \in Word
  BY Sizes DEF Word
<1> HIDE DEF D
<1>12. t.interrupt /\ k.done /\ k.cycles = e.i + 1 /\ Agree(t, k, Visible \ D)
  BY <1>3, <1>4, <1>6, <1>7, <1>8, <1>9, <1>10, <1>11, Thrown
<1>13. D \subseteq Allowed(O)
  <2>1. /\ t.interrupt /\ IsBoot(ref.sr) => "bootHandler" \in O
        /\ IsIllegal(n) => "illegal" \in O
    BY DEF OddStep
  <2> QED
    BY <1>12, <2>1, AllowedHas DEF D
<1> QED
  BY <1>9, <1>12, <1>13, AgreeingDiffer
-----------------------------------------------------------------------------
(* A jump and the instruction in its delay slot.                           *)

\* From u and l, about to execute a jump, to w and x, with no load pending.
Carried(u, l, w, x) ==
    /\ Same(w, x, Reg) /\ Empty(w, x)
    /\ SteadyRef(u, w) /\ SteadyJit(l, x) /\ RestRef(u, w)

LEMMA Carrying ==
  ASSUME NEW u, NEW l, Same(u, l, Reg), Ready(u, l, Reg)
  PROVE  Carried(u, l, DelayedLoad(u), CompileDelayedLoad(l, TRUE))
         /\ Delivered(CompileDelayedLoad(l, TRUE), Reg)
BY Deliver DEF Carried

LEMMA CarriedAgain ==
  ASSUME NEW u, NEW l, NEW w, NEW x, Carried(u, l, w, x)
  PROVE  Carried(u, l, DelayedLoad(w), x)
<1> DEFINE d == DelayedLoad(w)
<1>1. /\ Same(w, x, Reg) /\ Empty(w, x)
      /\ SteadyRef(u, w) /\ SteadyJit(l, x) /\ RestRef(u, w)
  BY DEF Carried
<1>2. IsRef(w) /\ w.r[0] = 0 /\ w.load = <<0, 0>>
  BY <1>1 DEF Same, Empty, Quiet
<1>3. /\ IsRef(d) /\ SteadyRef(w, d) /\ RestRef(w, d) /\ d.load = <<0, 0>>
      /\ d.r[0] = 0
      /\ \A y \in Reg : y # w.load[1] => d.r[y] = w.r[y]
  BY <1>2, DelayedLoadIs
<1> HIDE DEF d
<1>4. \A y \in Reg : d.r[y] = w.r[y]
  BY <1>2, <1>3
<1>5. Same(d, x, Reg)
  BY <1>1, <1>3, <1>4 DEF Same, RestRef, SteadyRef
<1>6. Empty(d, x)
  BY <1>1, <1>3 DEF Empty, Quiet
<1>7. SteadyRef(u, d) /\ RestRef(u, d)
  BY <1>1, <1>3 DEF SteadyRef, RestRef
<1> QED
  BY <1>1, <1>5, <1>6, <1>7 DEF Carried, d

LEMMA CarriedSet ==
  ASSUME NEW u, NEW l, NEW w, NEW x, Carried(u, l, w, x), NEW a \in Reg, a \in l.regs,
         NEW v \in Word
  PROVE  Carried(u, l, SetReg(w, a, v), DefReg(x, a, v))
<1> DEFINE e == SetReg(w, a, v)
           y == DefReg(x, a, v)
<1>1. /\ Same(w, x, Reg) /\ Empty(w, x) /\ IsRef(w) /\ w.r[0] = 0
      /\ SteadyRef(u, w) /\ SteadyJit(l, x) /\ RestRef(u, w) /\ a \in x.regs
  BY DEF Carried, Same, SteadyJit
<1>2. Same(e, y, Reg \cup {a}) /\ Empty(e, y) /\ SteadyRef(w, e) /\ SteadyJit(x, y)
  <2>1. BothSet(w, x, e, y, Reg, a)
    BY <1>1, SetSame
  <2> QED
    BY <2>1 DEF BothSet
<1>3. RestRef(w, e)
  BY <1>1, SetRegIs
<1>4. Reg \cup {a} = Reg
  OBVIOUS
<1> HIDE DEF e, y
<1>5. SteadyRef(u, e) /\ RestRef(u, e) /\ SteadyJit(l, y)
  BY <1>1, <1>2, <1>3 DEF SteadyRef, RestRef, SteadyJit
<1> QED
  BY <1>2, <1>4, <1>5 DEF Carried, e, y

\* The jump is made: s is the interpreter before the delay slot, with the target
\* p, and x the compiled code; they agree in the registers X.
Jumped(u, l, s, x, X, p) ==
    /\ Same(s, x, X) /\ Empty(s, x) /\ SteadyJit(l, x) /\ RestRef(u, s)
    /\ s.pc = u.pc /\ s.next_pc = p /\ s.branch
    /\ s.delay_slot = u.delay_slot /\ s.interrupt = u.interrupt

AfterJump(w, p) == [w EXCEPT !.next_pc = p, !.branch = TRUE]

LEMMA Jumping ==
  ASSUME NEW u, NEW l, NEW w, NEW x, Carried(u, l, w, x), NEW p \in Word
  PROVE  Jumped(u, l, AfterJump(w, p), x, Reg, p)
<1> DEFINE s == AfterJump(w, p)
<1>1. /\ Same(w, x, Reg) /\ Empty(w, x) /\ IsRef(w)
      /\ SteadyRef(u, w) /\ SteadyJit(l, x) /\ RestRef(u, w)
  BY DEF Carried, Same
<1>2. /\ IsRef(s) /\ s.r = w.r /\ s.load = w.load /\ RestRef(w, s)
      /\ s.pc = w.pc /\ s.next_pc = p /\ s.branch
      /\ s.delay_slot = w.delay_slot /\ s.interrupt = w.interrupt
  BY <1>1 DEF IsRef, AfterJump, RestRef
<1> HIDE DEF s
<1>3. Same(s, x, Reg)
  BY <1>1, <1>2 DEF Same, RestRef
<1>4. Empty(s, x)
  BY <1>1, <1>2 DEF Empty, Quiet
<1>5. RestRef(u, s) /\ s.pc = u.pc /\ s.delay_slot = u.delay_slot /\ s.interrupt = u.interrupt
  BY <1>1, <1>2 DEF RestRef, SteadyRef
<1> QED
  BY <1>1, <1>2, <1>3, <1>4, <1>5 DEF Jumped, s

\* A link is set with the jump, or by the compiled code only after the slot.
LEMMA JumpedLinks ==
  ASSUME NEW u, NEW l, NEW s, NEW x, NEW p, Jumped(u, l, s, x, Reg, p),
         NEW a \in Reg, a \in l.regs, NEW v \in Word
  PROVE  /\ Jumped(u, l, SetReg(s, a, v), DefReg(x, a, v), Reg, p)
         /\ a # 0 => /\ Jumped(u, l, SetReg(s, a, v), x, Reg \ {a}, p)
                     /\ SetReg(s, a, v).r[a] = v
<1> DEFINE e == SetReg(s, a, v)
           y == DefReg(x, a, v)
<1>1. /\ Same(s, x, Reg) /\ Empty(s, x) /\ SteadyJit(l, x) /\ RestRef(u, s)
      /\ s.pc = u.pc /\ s.next_pc = p /\ s.branch
      /\ s.delay_slot = u.delay_slot /\ s.interrupt = u.interrupt
      /\ IsRef(s) /\ s.r[0] = 0 /\ a \in x.regs
  BY DEF Jumped, Same, SteadyJit
<1>2. /\ IsRef(e) /\ SteadyRef(s, e) /\ RestRef(s, e) /\ e.load = s.load
      /\ e.r[0] = 0 /\ e.r[a] = (IF a = 0 THEN 0 ELSE v)
      /\ \A z \in Reg : z # a => e.r[z] = s.r[z]
  BY <1>1, SetRegIs
<1>3. Same(e, y, Reg \cup {a}) /\ Empty(e, y) /\ SteadyJit(x, y)
  <2>1. BothSet(s, x, e, y, Reg, a)
    BY <1>1, SetSame
  <2> QED
    BY <2>1 DEF BothSet
<1>4. Reg \cup {a} = Reg
  OBVIOUS
<1> HIDE DEF e, y
<1>5. /\ RestRef(u, e) /\ e.pc = u.pc /\ e.next_pc = p /\ e.branch
      /\ e.delay_slot = u.delay_slot /\ e.interrupt = u.interrupt
  BY <1>1, <1>2 DEF RestRef, SteadyRef
<1>6. SteadyJit(l, y)
  BY <1>1, <1>3 DEF SteadyJit
<1>7. Jumped(u, l, e, y, Reg, p)
  BY <1>3, <1>4, <1>5, <1>6 DEF Jumped
<1>8. Same(e, x, Reg \ {a}) /\ Empty(e, x)
  <2>1. \A z \in Reg \ {a} : e.r[z] = x.v[z]
    BY <1>1, <1>2 DEF Same
  <2>2. Same(e, x, Reg \ {a})
    BY <1>1, <1>2, <2>1 DEF Same, RestRef, SteadyRef
  <2> QED
    BY <1>1, <1>2, <2>2 DEF Empty, Quiet
<1>9. Jumped(u, l, e, x, Reg \ {a}, p)
  BY <1>1, <1>5, <1>8 DEF Jumped
<1> QED
  BY <1>2, <1>7, <1>9 DEF e, y

\* Where the two may part when the instruction in the slot raises an exception.
SlotParting(sr, slot, Y) ==
    (IF IsBoot(sr) THEN {"pc"} ELSE {}) \cup {"epc"}
    \cup (IF slot.op = "swc2" THEN {"cause"} ELSE {})
    \cup (IF slot.op \in Unlisted THEN {"sr", "cause", "epc", "pc"} ELSE {})
    \cup (IF Y # Reg THEN {"r"} ELSE {})

\* The instruction in the slot.
Fits(u, l, slot, X) ==
    /\ ~u.delay_slot /\ ~u.interrupt /\ ~l.done
    /\ IsInstruction(slot) /\ ~IsJump(slot) /\ GetRegisters(slot) \subseteq l.regs
    /\ {slot.rs, slot.rt, slot.rd} \cap Reg \subseteq X
    /\ ~(slot.op \in {"swl", "swr"} /\ IsIsolated(u.sr))

LEMMA SlotRuns ==
  ASSUME NEW u, NEW l, NEW s, NEW x, NEW X, NEW p, Jumped(u, l, s, x, X, p),
         NEW Y, Y \subseteq X, X \subseteq Reg, Delivered(x, Y),
         NEW slot, Fits(u, l, slot, X),
         NEW t, t = RunNext(s, slot), NEW e, e = CompileInDelaySlot(x, slot)
  PROVE  \/ /\ ~t.interrupt /\ ~e.done /\ Settled(t, e, Y) /\ t.pc = p
            /\ e.i = l.i /\ e.addr = l.addr /\ l.regs \subseteq e.regs
            /\ \A y \in Reg : y \notin {slot.rt, slot.rd, 0} => t.r[y] = s.r[y]
         \/ t.interrupt /\ e.done /\ Differing(t, e) \subseteq SlotParting(u.sr, slot, Y)
<1> DEFINE f == Fetched(s)
           j == [x EXCEPT !.delay_slot = TRUE]
           k == CompileInstr(j, slot)
<1>1. /\ Same(s, x, X) /\ Empty(s, x) /\ SteadyJit(l, x) /\ RestRef(u, s)
      /\ s.pc = u.pc /\ s.next_pc = p /\ s.branch
      /\ s.delay_slot = u.delay_slot /\ s.interrupt = u.interrupt
      /\ IsRef(s) /\ IsJit(x)
  BY DEF Jumped, Same
<1>0. /\ ~u.delay_slot /\ ~u.interrupt /\ ~l.done
      /\ IsInstruction(slot) /\ ~IsJump(slot) /\ GetRegisters(slot) \subseteq l.regs
      /\ {slot.rs, slot.rt, slot.rd} \cap Reg \subseteq X
      /\ ~(slot.op \in {"swl", "swr"} /\ IsIsolated(u.sr))
  BY DEF Fits
<1>2. /\ IsRef(f) /\ RestRef(s, f) /\ f.r = s.r /\ f.load = s.load
      /\ f.pc = p /\ f.delay_slot = TRUE /\ f.interrupt = s.interrupt
      /\ t = Execute(f, slot)
  <2>1. s.branch = TRUE
    BY <1>1 DEF IsRef
  <2>2. /\ IsRef(f) /\ RestRef(s, f) /\ f.r = s.r /\ f.load = s.load
        /\ f.pc = s.next_pc /\ f.delay_slot = s.branch /\ f.interrupt = s.interrupt
    BY <1>1, FetchedIs
  <2>3. RunNext(s, slot) = Execute(f, slot)
    BY DEF RunNext, Fetched
  <2> QED
    BY <1>1, <2>1, <2>2, <2>3
<1>3. /\ IsJit(j) /\ j.v = x.v /\ j.m = x.m /\ j.regs = x.regs /\ j.mem = x.mem /\ j.gd = x.gd
      /\ j.gc = x.gc /\ j.delayed_load = x.delayed_load /\ j.i = x.i /\ j.addr = x.addr
      /\ j.done = x.done /\ j.delay_slot = TRUE
  BY <1>1 DEF IsJit
<1>4. e = IF k.done THEN k ELSE [PushDelayLoadToRegs(k) EXCEPT !.delay_slot = FALSE]
  BY DEF CompileInDelaySlot
<1> HIDE DEF f, j
<1>5. Same(f, j, X)
  <2>1. /\ f.r[0] = 0 /\ j.v[0] = 0 /\ j.m[REG_LOAD_REG] \in Reg
        /\ \A y \in X : f.r[y] = j.v[y]
        /\ \A y \in Var : y \notin j.regs => j.v[y] = j.m[y]
    BY <1>1, <1>2, <1>3 DEF Same
  <2>2. /\ f.hi = s.hi /\ f.lo = s.lo /\ f.sr = s.sr /\ f.cause = s.cause
        /\ f.epc = s.epc /\ f.baddr = s.baddr /\ f.mem = s.mem /\ f.gd = s.gd /\ f.gc = s.gc
    BY <1>2 DEF RestRef
  <2>3. /\ f.hi = j.v[REG_HI] /\ f.lo = j.v[REG_LO]
        /\ f.sr = j.v[REG_SR] /\ f.cause = j.v[REG_CAUSE]
        /\ f.epc = j.v[REG_EPC] /\ f.baddr = j.v[REG_BADDR]
        /\ f.mem = j.mem /\ f.gd = j.gd /\ f.gc = j.gc
    BY <1>1, <1>3, <2>2 DEF Same
  <2> QED
    BY <1>2, <1>3, <2>1, <2>3 DEF Same
<1>6. Empty(f, j) /\ f.load[1] = 0 /\ Ready(f, j, Y)
  <2>1. Empty(f, j) /\ f.load[1] = 0
    BY <1>1, <1>2, <1>3 DEF Empty, Quiet
  <2>2. Delivered(j, Y)
    BY <1>3 DEF Delivered
  <2> QED
    BY <2>1, <2>2 DEF Ready
<1>7. Together(f, j, X, Y, slot)
  <2>1. GetRegisters(slot) \subseteq j.regs
    BY <1>0, <1>1, <1>3 DEF SteadyJit
  <2>2. f.sr = u.sr
    BY <1>1, <1>2 DEF RestRef
  <2> QED
    BY <1>0, <1>2, <1>5, <1>6, <2>1, <2>2 DEF Together
<1>8. Stepped(f, j, t, k, Y, slot)
  BY <1>2, <1>7, Instruction
<1> HIDE DEF k
<1>9. CASE Ran(f, j, t, k, Y, slot)
  <2> DEFINE m == PushDelayLoadToRegs(k)
  <2>1. /\ Same(t, k, Y) /\ Held(t, k) /\ SteadyRef(f, t) /\ SteadyJit(j, k)
        /\ \A y \in Reg : y \notin {slot.rt, slot.rd, f.load[1]} => t.r[y] = f.r[y]
    BY <1>9 DEF Ran
  <2>2. ~k.done /\ ~t.interrupt /\ t.pc = p
    BY <1>0, <1>1, <1>2, <1>3, <2>1 DEF SteadyJit, SteadyRef
  <2>3. Settled(t, m, Y) /\ SteadyJit(k, m)
    BY <2>1, Pushed
  <2> HIDE DEF m
  <2>4. e = [m EXCEPT !.delay_slot = FALSE]
    BY <1>4, <2>2 DEF m
  <2>5. Settled(t, e, Y) /\ e.i = m.i /\ e.addr = m.addr /\ e.done = m.done /\ e.regs = m.regs
    BY <2>3, <2>4, LeftSlot
  <2>6. /\ e.i = l.i /\ e.addr = l.addr /\ ~e.done /\ l.regs \subseteq e.regs
    BY <1>1, <1>3, <2>1, <2>2, <2>3, <2>5 DEF SteadyJit
  <2>7. \A y \in Reg : y \notin {slot.rt, slot.rd, 0} => t.r[y] = s.r[y]
    BY <1>2, <1>6, <2>1
  <2> QED
    BY <2>2, <2>5, <2>6, <2>7
<1>10. CASE /\ t.interrupt /\ k.done /\ k.cycles = j.i + 1
            /\ Agree(t, k, Visible \ Parting(f, slot, Y))
  <2>1. e = k
    BY <1>4, <1>10
  <2>2. ~IsIllegal(slot)
    BY <1>0 DEF IsJump, IsUnconditionalJump
  <2>3. f.sr = u.sr
    BY <1>1, <1>2 DEF RestRef
  <2>4. Parting(f, slot, Y) \subseteq SlotParting(u.sr, slot, Y)
    BY <1>6, <2>2, <2>3 DEF Parting, SlotParting
  <2>5. Differing(t, k) \subseteq Parting(f, slot, Y)
    BY <1>10, AgreeingDiffer
  <2> QED
    BY <1>10, <2>1, <2>4, <2>5
<1> QED
  BY <1>8, <1>9, <1>10 DEF Stepped
\* What is odd about an exception in the slot, and an end of the block that is
\* no further off than what is odd allows.
OddSlot(u, slot, t, O) ==
    /\ t.interrupt => "slotEpc" \in O
    /\ t.interrupt /\ IsBoot(u.sr) => "bootHandler" \in O
    /\ slot.op = "swc2" /\ t.interrupt => "swc2Cause" \in O
    /\ slot.op \in Unlisted => "illegal" \in O
Ends(l, t, k, O) ==
    /\ k.done /\ (O = {} => k.cycles = l.i + 2)
    /\ Differing(t, k) \subseteq Allowed(O)

\* The block returns after the slot, with the target pc.
LEMMA SlotEnds ==
  ASSUME NEW u, NEW l, NEW s, NEW x, NEW p, Jumped(u, l, s, x, Reg, p),
         NEW Y, Y \subseteq Reg, Delivered(x, Y), NEW slot, Fits(u, l, slot, Reg),
         NEW pc, NEW t, t = RunNext(s, slot), NEW k, k = Leave(CompileInDelaySlot(x, slot), pc),
         NEW O, OddSlot(u, slot, t, O),
         Y = Reg \/ "linkReload" \in O, p = pc \/ "region" \in O
  PROVE  Ends(l, t, k, O)
<1> DEFINE e == CompileInDelaySlot(x, slot)
<1>2. \/ /\ ~t.interrupt /\ ~e.done /\ Settled(t, e, Y) /\ t.pc = p
         /\ e.i = l.i /\ e.addr = l.addr /\ l.regs \subseteq e.regs
      \/ t.interrupt /\ e.done /\ Differing(t, e) \subseteq SlotParting(u.sr, slot, Y)
  BY SlotRuns
<1>3. k = IF e.done THEN e ELSE Return(e, pc, e.i + 1 + 1)
  BY DEF Leave, GetCycles
<1> HIDE DEF e
<1>6. /\ t.interrupt => "slotEpc" \in O
      /\ t.interrupt /\ IsBoot(u.sr) => "bootHandler" \in O
      /\ slot.op = "swc2" /\ t.interrupt => "swc2Cause" \in O
      /\ slot.op \in Unlisted => "illegal" \in O
  BY DEF OddSlot
<1>4. CASE ~t.interrupt
  <2>1. ~e.done /\ Settled(t, e, Y) /\ t.pc = p /\ e.i = l.i /\ e.i \in Nat
    BY <1>2, <1>4 DEF Settled, IsJit
  <2>2. k = Return(e, pc, e.i + 1 + 1)
    BY <1>3, <2>1
  <2>3. k.done /\ k.cycles = e.i + 1 + 1 /\ Differing(t, k) \subseteq EndParting(t, pc, Y)
    BY <2>1, <2>2, Returns
  <2>4. EndParting(t, pc, Y) \subseteq Allowed(O)
    BY <2>1, AllowedHas DEF EndParting
  <2> QED
    BY <2>1, <2>3, <2>4 DEF Ends
<1>5. CASE t.interrupt
  <2>1. e.done /\ Differing(t, e) \subseteq SlotParting(u.sr, slot, Y) /\ k = e
    BY <1>2, <1>3, <1>5
  <2>2. SlotParting(u.sr, slot, Y) \subseteq Allowed(O)
    <3>1. /\ "epc" \in Allowed(O)
          /\ IsBoot(u.sr) => "pc" \in Allowed(O)
          /\ slot.op = "swc2" => "cause" \in Allowed(O)
          /\ slot.op \in Unlisted => {"sr", "cause", "epc", "pc"} \subseteq Allowed(O)
          /\ Y # Reg => "r" \in Allowed(O)
      BY <1>5, <1>6, AllowedHas
    <3> QED
      BY <3>1 DEF SlotParting
  <2> QED
    BY <1>5, <1>6, <2>1, <2>2 DEF Ends
<1> QED
  BY <1>4, <1>5

\* jal links after the slot.
LEMMA JalEnds ==
  ASSUME NEW u, NEW l, NEW s, NEW x, NEW p, Jumped(u, l, s, x, Reg \ {31}, p),
         31 \in l.regs, NEW link \in Word, s.r[31] = link,
         Delivered(x, Reg),
         NEW slot, Fits(u, l, slot, Reg), ~Touches31(slot),
         NEW pc, NEW t, t = RunNext(s, slot), ~t.interrupt,
         NEW e, e = CompileInDelaySlot(x, slot),
         NEW k, k = Leave(IF e.done THEN e ELSE Def(e, 31, link), pc),
         NEW O, p = pc \/ "region" \in O
  PROVE  Ends(l, t, k, O)
<1> DEFINE X == Reg \ {31}
           y == Def(e, 31, link)
<1>1. 31 \in Reg /\ Fits(u, l, slot, X)
  BY VarFacts DEF Touches31, Fits
<1>2. Delivered(x, X)
  BY DEF Delivered
<1>3. /\ ~e.done /\ Settled(t, e, X) /\ t.pc = p
      /\ e.i = l.i /\ e.addr = l.addr /\ l.regs \subseteq e.regs
      /\ t.r[31] = s.r[31]
  <2>1. X \subseteq Reg /\ X \subseteq X
    OBVIOUS
  <2>2. Jumped(u, l, s, x, X, p)
    OBVIOUS
  <2> HIDE DEF X, y
  <2>3. /\ ~e.done /\ Settled(t, e, X) /\ t.pc = p
        /\ e.i = l.i /\ e.addr = l.addr /\ l.regs \subseteq e.regs
        /\ \A z \in Reg : z \notin {slot.rt, slot.rd, 0} => t.r[z] = s.r[z]
    BY <1>1, <1>2, <2>1, <2>2, SlotRuns
  <2> QED
    BY <1>1, <2>3 DEF Touches31
<1>4. Settled(t, y, Reg) /\ y.i = e.i /\ y.done = e.done
  <2>1. X \cup {31} = Reg /\ X \subseteq Reg /\ 31 \in e.regs
    BY <1>1, <1>3
  <2> HIDE DEF X
  <2>2. Settled(t, y, X \cup {31}) /\ y.i = e.i /\ y.done = e.done
    BY <1>1, <1>3, <2>1, Linked
  <2> QED
    BY <2>1, <2>2
<1> HIDE DEF y
<1>5. k = Return(y, pc, y.i + 1 + 1) /\ y.i \in Nat
  <2>1. k = Leave(y, pc)
    BY <1>3 DEF y
  <2> QED
    BY <1>3, <1>4, <2>1 DEF Leave, GetCycles, Settled, IsJit
<1>6. k.done /\ k.cycles = y.i + 1 + 1 /\ Differing(t, k) \subseteq EndParting(t, pc, Reg)
  BY <1>4, <1>5, Returns
<1>7. EndParting(t, pc, Reg) \subseteq Allowed(O)
  BY <1>3, AllowedHas DEF EndParting
<1> QED
  BY <1>3, <1>4, <1>5, <1>6, <1>7 DEF Ends
-----------------------------------------------------------------------------
(* The jumps.                                                              *)

\* u and l before the jump n with its slot; O is what is odd about the two, t
\* the interpreter after them.
AtJump(u, l, n, slot, t, O) ==
    /\ Same(u, l, Reg) /\ Ready(u, l, Reg) /\ (l.i = 0 => Fresh(u, l))
    /\ u.current_pc = CurrentPc(l) /\ u.pc = Wrap(CurrentPc(l) + 4)
    /\ u.next_pc = Wrap(CurrentPc(l) + 8)
    /\ ~u.branch /\ Fits(u, l, slot, Reg)
    /\ IsInstruction(n) /\ GetRegisters(n) \subseteq l.regs
    /\ OddSlot(u, slot, t, O)
    /\ l.i = 0 /\ Links(n) /\ u.load[1] # 0 /\ u.load[1] = LinkOf(n) => "linkReload" \in O
    /\ n.op = "jal" => ~Touches31(slot) /\ ~t.interrupt
    /\ n.op = "j" /\ RegionBase(u.current_pc) # RegionBase(l.addr) => "region" \in O
    /\ n.op = "jal" /\ RegionBase(u.pc) # RegionBase(l.addr) => "region" \in O

LEMMA TargetWord ==
  ASSUME NEW a \in Word, NEW n, n.imm \in Nat
  PROVE  RegionBase(a) + Target(n) \in Word
<1>1. Sign \in Nat \ {0} /\ Size = 2 * Sign /\ a \in 0 .. Sign * 2 - 1
  BY Sizes DEF Word
<1> DEFINE q == a \div Sign
           r == a % Sign
           g == Target(n)
<1>2. q \in 0 .. 1 /\ r \in 0 .. Sign - 1 /\ a = Sign * q + r
  BY <1>1, PartsFit
<1>3. g \in 0 .. Sign - 1
  <2>1. 4 * n.imm \in Int
    OBVIOUS
  <2>2. Wrap(4 * n.imm) \in Int
    BY <2>1, WrapIsWord, Sizes DEF Word
  <2> QED
    BY <1>1, <2>2, Division DEF Target
<1>4. RegionBase(a) = a - r
  BY DEF RegionBase
<1> HIDE DEF q, r, g
<1>5. a - r \in {0, Sign}
  <2>1. CASE q = 0
    BY <1>1, <1>2, <2>1
  <2>2. CASE q = 1
    BY <1>1, <1>2, <2>2
  <2> QED
    BY <1>2, <2>1, <2>2
<1>6. (a - r) + g \in 0 .. Size - 1
  BY <1>1, <1>2, <1>3, <1>5
<1> QED
  BY <1>4, <1>6 DEF Word, g

LEMMA AfterJumpForms ==
  ASSUME NEW d, IsRef(d), NEW p
  PROVE  [[d EXCEPT !.branch = TRUE] EXCEPT !.next_pc = p] = AfterJump(d, p)
BY DEF IsRef, AfterJump

LEMMA AtJumpCarries ==
  ASSUME NEW u, NEW l, NEW n, NEW slot, NEW t, NEW O, AtJump(u, l, n, slot, t, O)
  PROVE  /\ Carried(u, l, DelayedLoad(u), CompileDelayedLoad(l, TRUE))
         /\ Delivered(CompileDelayedLoad(l, TRUE), Reg)
         /\ IsRef(u) /\ IsJit(l) /\ IsRef(DelayedLoad(u))
         /\ u.next_pc \in Word /\ u.pc \in Word /\ u.current_pc \in Word /\ l.addr \in Word
         /\ Wrap(CurrentPc(l) + 8) = u.next_pc /\ n.imm \in Nat
         /\ \A x \in Reg : x \in l.regs => Use(l, x) = u.r[x] /\ u.r[x] \in Word
<1>1. Same(u, l, Reg) /\ Ready(u, l, Reg) /\ IsInstruction(n) /\ u.next_pc = Wrap(CurrentPc(l) + 8)
  BY DEF AtJump
<1>2. Carried(u, l, DelayedLoad(u), CompileDelayedLoad(l, TRUE))
      /\ Delivered(CompileDelayedLoad(l, TRUE), Reg)
  BY <1>1, Carrying
<1>3. IsRef(DelayedLoad(u))
  BY <1>2 DEF Carried, Same
<1>4. IsRef(u) /\ IsJit(l)
  BY <1>1 DEF Same
<1>5. u.next_pc \in Word /\ u.pc \in Word /\ u.current_pc \in Word /\ l.addr \in Word
  BY <1>4 DEF IsRef, IsJit
<1>6. \A x \in Reg : x \in l.regs => Use(l, x) = u.r[x] /\ u.r[x] \in Word
  BY <1>1, OperandIs
<1>7. n.imm \in Nat
  BY <1>1, FieldsOf
<1> QED
  BY <1>1, <1>2, <1>3, <1>4, <1>5, <1>6, <1>7

\* With a link, the load of the entry is delivered again over the link.
\* All that is pending has been delivered, or the step has been named for it.
DeliveredOr(y, O) ==
    \E Y \in SUBSET Reg : Delivered(y, Y) /\ (Y = Reg \/ "linkReload" \in O)

LEMMA LinkDelivered ==
  ASSUME NEW u, NEW l, NEW n, NEW slot, NEW t, NEW O, AtJump(u, l, n, slot, t, O),
         Links(n), LinkOf(n) \in Reg, LinkOf(n) \in l.regs, NEW w \in Word,
         NEW y, y = DefReg(CompileDelayedLoad(l, TRUE), LinkOf(n), w)
  PROVE  DeliveredOr(y, O)
<1> DEFINE a == LinkOf(n)
           x == CompileDelayedLoad(l, TRUE)
           reg == l.m[REG_LOAD_REG]
           Y == IF a # 0 /\ l.i = 0 /\ reg = a THEN Reg \ {a} ELSE Reg
<1>1. /\ Same(u, l, Reg) /\ Ready(u, l, Reg) /\ (l.i = 0 => Fresh(u, l))
      /\ l.i = 0 /\ Links(n) /\ u.load[1] # 0 /\ u.load[1] = a => "linkReload" \in O
  BY DEF AtJump
<1>2. /\ IsJit(x) /\ SteadyJit(l, x) /\ x.m[REG_LOAD_REG] = reg
  <2>1. /\ IsJit(l) /\ l.v[0] = 0 /\ l.m[REG_LOAD_REG] \in Reg
        /\ \A z \in Var : z \notin l.regs => l.v[z] = l.m[z]
    BY <1>1 DEF Same
  <2>2. l.delayed_load # None => l.i # 0 /\ l.delayed_load[1] \in l.regs
    BY <1>1 DEF Ready, Fresh, Empty, InFlight
  <2> QED
    BY <2>1, <2>2, CompileDelayedLoadIs
<1>3. Delivered(x, Reg)
  BY <1>1, Carrying
<1> HIDE DEF x
<1>4. y = IF a = 0 THEN x ELSE Def(x, a, w)
  BY DEF DefReg, x
<1>5. Y = Reg \/ "linkReload" \in O
  <2>1. CASE Y # Reg
    <3>1. a # 0 /\ l.i = 0 /\ reg = a
      BY <2>1
    <3>2. u.load[1] = reg
      BY <1>1, <3>1 DEF Fresh
    <3> QED
      BY <1>1, <3>1, <3>2
  <2> QED
    BY <2>1
<1>6. Delivered(y, Y)
  <2>1. CASE a = 0
    BY <1>3, <1>4, <2>1
  <2>2. CASE a # 0
    <3>1. a \in Var
      BY VarFacts
    <3> HIDE DEF a
    <3>2. /\ SteadyJit(x, y) /\ y.m = x.m /\ \A z \in Var : z # a => y.v[z] = x.v[z]
      <4>1. y = Def(x, a, w) /\ IsJit(x)
        BY <1>2, <1>4, <2>2
      <4> DEFINE q == Def(x, a, w)
      <4>2. /\ SteadyJit(x, q) /\ q.m = x.m /\ \A z \in Var : z # a => q.v[z] = x.v[z]
        BY <3>1, <4>1, DefIs
      <4> HIDE DEF q
      <4>3. y = q
        BY <4>1 DEF q
      <4> QED
        BY <4>2, <4>3
    <3>3. y.i = x.i /\ x.i = l.i
      BY <1>2, <3>2 DEF SteadyJit
    <3>4. ASSUME y.i = 0, y.m[REG_LOAD_REG] # 0, y.m[REG_LOAD_REG] \in Y
          PROVE  y.v[y.m[REG_LOAD_REG]] = y.m[REG_LOAD_VAL]
      <4>1. y.m[REG_LOAD_REG] = reg /\ l.i = 0 /\ x.i = 0
        BY <1>2, <3>2, <3>3, <3>4
      <4>2. reg # a /\ reg \in Reg /\ reg \in Var
        BY <2>2, <3>4, <4>1, VarFacts
      <4>3. x.v[reg] = x.m[REG_LOAD_VAL]
        BY <1>2, <1>3, <3>4, <4>1, <4>2 DEF Delivered
      <4> QED
        BY <3>2, <4>1, <4>2, <4>3
    <3> QED
      BY <3>4 DEF Delivered
  <2> QED
    BY <2>1, <2>2
<1>7. Y \in SUBSET Reg
  OBVIOUS
<1> HIDE DEF Y
<1> QED
  BY <1>5, <1>6, <1>7 DEF DeliveredOr

LEMMA ExecuteJump ==
  ASSUME NEW u, NEW n, n.op \in {"j", "jal", "jr", "jalr"}, IsRef(DelayedLoad(u))
  PROVE  LET d == DelayedLoad(u)
         IN /\ n.op = "j" => Execute(u, n) = AfterJump(d, RegionBase(u.current_pc) + Target(n))
            /\ n.op = "jr" => Execute(u, n) = AfterJump(d, u.r[n.rs])
            /\ n.op = "jal" => Execute(u, n) = SetReg(AfterJump(d, RegionBase(u.pc) + Target(n)), 31, u.next_pc)
            /\ n.op = "jalr" => Execute(u, n) = SetReg(AfterJump(d, u.r[n.rs]), n.rd, u.next_pc)
<1> DEFINE d == DelayedLoad(u)
           e == [d EXCEPT !.branch = TRUE]
           to(p) == [e EXCEPT !.next_pc = p]
<1>1. Execute(u, n) = Jump(u, n)
  BY DEF Execute, LogicOps, ShiftOps, AddOps, SetOps, Traps, Coprocessor
<1>2. \A p : to(p) = AfterJump(d, p)
  BY AfterJumpForms
<1>3. Jump(u, n) =
        CASE n.op = "j"    -> to(RegionBase(u.current_pc) + Target(n))
          [] n.op = "jal"  -> SetReg(to(RegionBase(u.pc) + Target(n)), 31, u.next_pc)
          [] n.op = "jr"   -> to(u.r[n.rs])
          [] n.op = "jalr" -> SetReg(to(u.r[n.rs]), n.rd, u.next_pc)
  BY DEF Jump
<1> HIDE DEF to, d
<1>4. /\ n.op = "j" => Jump(u, n) = to(RegionBase(u.current_pc) + Target(n))
      /\ n.op = "jal" => Jump(u, n) = SetReg(to(RegionBase(u.pc) + Target(n)), 31, u.next_pc)
      /\ n.op = "jr" => Jump(u, n) = to(u.r[n.rs])
      /\ n.op = "jalr" => Jump(u, n) = SetReg(to(u.r[n.rs]), n.rd, u.next_pc)
  BY <1>3
<1> QED
  BY <1>1, <1>2, <1>4 DEF d
LEMMA JGoes ==
  ASSUME NEW u, NEW l, NEW n, NEW slot, NEW t, NEW O, AtJump(u, l, n, slot, t, O),
         n.op = "j", t = RunNext(Execute(u, n), slot)
  PROVE  Ends(l, t, CompileJ(l, n, slot), O)
<1> DEFINE d == DelayedLoad(u)
           x == CompileDelayedLoad(l, TRUE)
           p == RegionBase(u.current_pc) + Target(n)
           pc == RegionBase(l.addr) + Target(n)
           s == AfterJump(d, p)
           k == CompileJ(l, n, slot)
<1>1. /\ Carried(u, l, d, x) /\ Delivered(x, Reg) /\ p \in Word /\ IsRef(d)
  BY AtJumpCarries, TargetWord
<1>2. t = RunNext(s, slot)
  BY <1>1, ExecuteJump
<1>3. k = Leave(CompileInDelaySlot(x, slot), pc)
  BY DEF CompileJ
<1>4. p = pc \/ "region" \in O
  BY DEF AtJump
<1> HIDE DEF p, pc, x, d, k
<1>5. Jumped(u, l, s, x, Reg, p)
  BY <1>1, Jumping
<1> HIDE DEF s
<1>6. Fits(u, l, slot, Reg) /\ OddSlot(u, slot, t, O)
  BY DEF AtJump
<1>7. Reg \subseteq Reg
  OBVIOUS
<1>8. Ends(l, t, k, O)
  BY <1>1, <1>2, <1>3, <1>4, <1>5, <1>6, <1>7, SlotEnds
<1> QED
  BY <1>8 DEF k

LEMMA JrGoes ==
  ASSUME NEW u, NEW l, NEW n, NEW slot, NEW t, NEW O, AtJump(u, l, n, slot, t, O),
         n.op = "jr", t = RunNext(Execute(u, n), slot)
  PROVE  Ends(l, t, CompileJr(l, n, slot), O)
<1> DEFINE d == DelayedLoad(u)
           x == CompileDelayedLoad(l, TRUE)
           p == u.r[n.rs]
           pc == Use(l, n.rs)
           s == AfterJump(d, p)
           k == CompileJr(l, n, slot)
<1>1. /\ Carried(u, l, d, x) /\ Delivered(x, Reg) /\ IsRef(d)
      /\ \A z \in Reg : z \in l.regs => Use(l, z) = u.r[z] /\ u.r[z] \in Word
  BY AtJumpCarries
<1>2. t = RunNext(s, slot)
  BY <1>1, ExecuteJump
<1>3. k = Leave(CompileInDelaySlot(x, slot), pc)
  BY DEF CompileJr
<1>4. p = pc /\ p \in Word
  <2>1. n.rs \in Reg /\ n.rs \in l.regs
    BY FieldsOf, RegistersOf DEF AtJump
  <2> QED
    BY <1>1, <2>1
<1> HIDE DEF p, pc, x, d, k
<1>5. Jumped(u, l, s, x, Reg, p)
  BY <1>1, <1>4, Jumping
<1> HIDE DEF s
<1>6. Fits(u, l, slot, Reg) /\ OddSlot(u, slot, t, O)
  BY DEF AtJump
<1>7. Reg \subseteq Reg
  OBVIOUS
<1>8. Ends(l, t, k, O)
  BY <1>1, <1>2, <1>3, <1>4, <1>5, <1>6, <1>7, SlotEnds
<1> QED
  BY <1>8 DEF k

LEMMA JalrGoes ==
  ASSUME NEW u, NEW l, NEW n, NEW slot, NEW t, NEW O, AtJump(u, l, n, slot, t, O),
         n.op = "jalr", t = RunNext(Execute(u, n), slot)
  PROVE  Ends(l, t, CompileJalr(l, n, slot), O)
<1> DEFINE d == DelayedLoad(u)
           x == CompileDelayedLoad(l, TRUE)
           p == u.r[n.rs]
           pc == Use(l, n.rs)
           w == u.next_pc
           s == SetReg(AfterJump(d, p), n.rd, w)
           y == DefReg(x, n.rd, w)
           k == CompileJalr(l, n, slot)
<1>1. /\ Carried(u, l, d, x) /\ Delivered(x, Reg) /\ IsRef(d) /\ w \in Word
      /\ Wrap(CurrentPc(l) + 8) = w
      /\ \A z \in Reg : z \in l.regs => Use(l, z) = u.r[z] /\ u.r[z] \in Word
  BY AtJumpCarries
<1>2. t = RunNext(s, slot)
  BY <1>1, ExecuteJump
<1>3. k = Leave(CompileInDelaySlot(y, slot), pc)
  BY <1>1 DEF CompileJalr
<1>4. p = pc /\ p \in Word /\ n.rd \in Reg /\ n.rd \in l.regs
  <2>1. n.rs \in Reg /\ n.rs \in l.regs /\ n.rd \in Reg /\ n.rd \in l.regs
    BY FieldsOf, RegistersOf DEF AtJump, Cop0Ops
  <2> QED
    BY <1>1, <2>1
<1>5. Links(n) /\ LinkOf(n) = n.rd
  BY DEF Links, LinkOf
<1>6. /\ y = DefReg(CompileDelayedLoad(l, TRUE), LinkOf(n), w)
      /\ LinkOf(n) \in Reg /\ LinkOf(n) \in l.regs /\ w \in Word
  BY <1>1, <1>4, <1>5
<1> HIDE DEF p, pc, x, d, k, w, y
<1>7. PICK Y \in SUBSET Reg : Delivered(y, Y) /\ (Y = Reg \/ "linkReload" \in O)
  BY <1>5, <1>6, LinkDelivered DEF DeliveredOr
<1>8. Jumped(u, l, s, y, Reg, p)
  <2>1. Jumped(u, l, AfterJump(d, p), x, Reg, p)
    BY <1>1, <1>4, Jumping
  <2> QED
    BY <1>1, <1>4, <2>1, JumpedLinks DEF y
<1> HIDE DEF s
<1>9. Fits(u, l, slot, Reg) /\ OddSlot(u, slot, t, O)
  BY DEF AtJump
<1>10. Ends(l, t, k, O)
  BY <1>2, <1>3, <1>4, <1>7, <1>8, <1>9, SlotEnds
<1> QED
  BY <1>10 DEF k

LEMMA JalGoes ==
  ASSUME NEW u, NEW l, NEW n, NEW slot, NEW t, NEW O, AtJump(u, l, n, slot, t, O),
         n.op = "jal", t = RunNext(Execute(u, n), slot)
  PROVE  Ends(l, t, CompileJal(l, n, slot), O)
<1> DEFINE d == DelayedLoad(u)
           x == CompileDelayedLoad(l, TRUE)
           p == RegionBase(u.pc) + Target(n)
           pc == RegionBase(l.addr) + Target(n)
           w == u.next_pc
           s == SetReg(AfterJump(d, p), 31, w)
           e == CompileInDelaySlot(x, slot)
           k == CompileJal(l, n, slot)
<1>1. /\ Carried(u, l, d, x) /\ Delivered(x, Reg) /\ IsRef(d) /\ w \in Word
      /\ Wrap(CurrentPc(l) + 8) = w /\ p \in Word
  BY AtJumpCarries, TargetWord
<1>2. t = RunNext(s, slot)
  BY <1>1, ExecuteJump
<1>3. k = Leave(IF e.done THEN e ELSE Def(e, 31, w), pc)
  BY <1>1 DEF CompileJal
<1>4. /\ p = pc \/ "region" \in O
      /\ ~Touches31(slot) /\ ~t.interrupt /\ Fits(u, l, slot, Reg)
  BY DEF AtJump
<1>5. 31 \in Reg /\ 31 \in l.regs
  BY VarFacts, RegistersOf DEF AtJump
<1> HIDE DEF p, pc, x, d, k, w, e
<1>6. Jumped(u, l, s, x, Reg \ {31}, p) /\ s.r[31] = w
  <2>1. Jumped(u, l, AfterJump(d, p), x, Reg, p)
    BY <1>1, Jumping
  <2> QED
    BY <1>1, <1>5, <2>1, JumpedLinks
<1> HIDE DEF s
<1>7. e = CompileInDelaySlot(x, slot)
  BY DEF e
<1>8. Ends(l, t, k, O)
  BY <1>1, <1>2, <1>3, <1>4, <1>5, <1>6, <1>7, JalEnds
<1> QED
  BY <1>8 DEF k
-----------------------------------------------------------------------------
(* The branches.                                                           *)

\* The interpreter is at e and the compiled code at k after a branch by offset,
\* which both take or both pass.
Decided(u, l, e, k, slot, offset, w, w1, y) ==
    /\ Carried(u, l, w, y) /\ Carried(u, l, w1, y)
    /\ \/ e = AfterJump(w1, Wrap(u.pc + 4 * offset)) /\ k = CompileBranch(y, offset, slot)
       \/ e = w /\ k = Passed(y, slot)

LEMMA CompareDecides ==
  ASSUME NEW u, NEW l, Same(u, l, Reg), Ready(u, l, Reg), NEW n, IsInstruction(n),
         GetRegisters(n) \subseteq l.regs, n.op \in {"beq", "bne", "blez", "bgtz"}, NEW slot
  PROVE  Decided(u, l, Execute(u, n), CompileCompare(l, n, slot), slot, ImmSe(n),
                 DelayedLoad(u), DelayedLoad(u), CompileDelayedLoad(l, TRUE))
<1> DEFINE d == DelayedLoad(u)
           x == CompileDelayedLoad(l, TRUE)
           p == Wrap(u.pc + 4 * ImmSe(n))
           a == u.r[n.rs]
           b == u.r[n.rt]
           T == CASE n.op = "beq" -> a = b
                  [] n.op = "bne" -> a # b
                  [] n.op = "blez" -> Signed(a) <= 0
                  [] n.op = "bgtz" -> Signed(a) > 0
           a2 == Use(l, n.rs)
           b2 == Use(l, n.rt)
           T2 == CASE n.op = "bne" -> a2 # b2
                   [] n.op = "beq" -> a2 = b2
                   [] n.op = "blez" -> Signed(a2) <= 0
                   [] n.op = "bgtz" -> Signed(a2) > 0
<1>1. Carried(u, l, d, x)
  BY Carrying
<1>2. Execute(u, n) = IF T THEN AfterJump(d, p) ELSE d
  <2>1. Execute(u, n) = Branch(u, n)
    BY DEF Execute, LogicOps, ShiftOps, AddOps, SetOps, Traps, Coprocessor
  <2> QED
    BY <2>1 DEF Branch, BranchTo, AfterJump
<1>3. CompileCompare(l, n, slot) = IF T2 THEN CompileBranch(x, ImmSe(n), slot) ELSE Passed(x, slot)
  BY DEF CompileCompare
<1>4. n.rs \in Reg /\ n.rt \in Reg /\ n.rs \in l.regs /\ (n.op \in {"beq", "bne"} => n.rt \in l.regs)
  BY FieldsOf, RegistersOf
<1>5. a2 = a /\ (n.op \in {"beq", "bne"} => b2 = b)
  BY <1>4, OperandIs
<1> HIDE DEF d, x, p, a, b, a2, b2
<1>6. T2 = T
  <2>1. CASE n.op \in {"beq", "bne"}
    BY <1>5, <2>1
  <2>2. CASE n.op \in {"blez", "bgtz"}
    BY <1>5, <2>2
  <2> QED
    BY <2>1, <2>2
<1> HIDE DEF T, T2
<1>7. CASE T
  BY <1>1, <1>2, <1>3, <1>6, <1>7 DEF Decided, d, x, p
<1>8. CASE ~T
  BY <1>1, <1>2, <1>3, <1>6, <1>8 DEF Decided, d, x, p
<1> QED
  BY <1>7, <1>8

LinkedRef(u, n) ==
    LET d == DelayedLoad(u)
    IN IF n.rt \div 2 = 8 THEN SetReg(d, 31, Wrap(d.pc + 4)) ELSE d
LinkedJit(l, n) ==
    LET x == CompileDelayedLoad(l, TRUE)
    IN IF n.rt \div 2 = 8 THEN Def(x, 31, Wrap(CurrentPc(l) + 8)) ELSE x

LEMMA BxxDecides ==
  ASSUME NEW u, NEW l, Same(u, l, Reg), Ready(u, l, Reg), NEW n, IsInstruction(n),
         GetRegisters(n) \subseteq l.regs, n.op = "bxx", u.pc = Wrap(CurrentPc(l) + 4), NEW slot
  PROVE  Decided(u, l, Execute(u, n), CompileBxx(l, n, slot), slot, ImmSe(n),
                 LinkedRef(u, n), DelayedLoad(LinkedRef(u, n)), LinkedJit(l, n))
<1> DEFINE d == DelayedLoad(u)
           x == CompileDelayedLoad(l, TRUE)
           w == LinkedRef(u, n)
           y == LinkedJit(l, n)
           a == u.r[n.rs]
           T == (a >= Sign) # (n.rt % 2 = 1)
           a2 == Signed(Use(l, n.rs))
           T2 == IF n.rt % 2 = 1 THEN a2 >= 0 ELSE a2 < 0
<1>1. Carried(u, l, d, x)
  BY Carrying
<1>2. IsJit(l) /\ IsRef(u) /\ n.rs \in Reg /\ n.rs \in l.regs /\ 31 \in l.regs /\ 31 \in Reg
  BY FieldsOf, RegistersOf, VarFacts DEF Same
<1>3. d.pc = u.pc /\ Wrap(d.pc + 4) = Wrap(CurrentPc(l) + 8) /\ Wrap(CurrentPc(l) + 8) \in Word
  <2>1. d.pc = u.pc
    BY <1>1 DEF Carried, SteadyRef
  <2>2. /\ CurrentPc(l) \in Int
        /\ Wrap(Wrap(CurrentPc(l) + 4) + 4) = Wrap(CurrentPc(l) + 8)
    BY <1>2, NextPcs
  <2> QED
    BY <2>1, <2>2, WrapIsWord
<1>4. Carried(u, l, w, y)
  <2>1. CASE n.rt \div 2 = 8
    <3> DEFINE v == Wrap(CurrentPc(l) + 8)
    <3>1. w = SetReg(d, 31, v)
      BY <1>3, <2>1 DEF LinkedRef
    <3>2. y = DefReg(x, 31, v)
      <4>1. y = Def(x, 31, v)
        BY <2>1 DEF LinkedJit
      <4>2. DefReg(x, 31, v) = Def(x, 31, v)
        BY DEF DefReg
      <4> QED
        BY <4>1, <4>2
    <3> HIDE DEF w, y, d, x, v
    <3>3. v \in Word
      BY <1>3 DEF v
    <3> QED
      BY <1>1, <1>2, <3>1, <3>2, <3>3, CarriedSet
  <2>2. CASE n.rt \div 2 # 8
    BY <1>1, <2>2 DEF LinkedRef, LinkedJit
  <2> QED
    BY <2>1, <2>2
<1>5. Carried(u, l, DelayedLoad(w), y) /\ w.pc = u.pc
  BY <1>4, CarriedAgain DEF Carried, SteadyRef
<1>6. Execute(u, n) = IF T THEN AfterJump(DelayedLoad(w), Wrap(w.pc + 4 * ImmSe(n))) ELSE w
  <2>1. Execute(u, n) = BranchLink(u, n)
    BY DEF Execute, LogicOps, ShiftOps, AddOps, SetOps, Traps, Coprocessor
  <2>2. BranchLink(u, n) = IF T THEN BranchTo(w, ImmSe(n)) ELSE w
    BY DEF BranchLink, LinkedRef
  <2> HIDE DEF T, w
  <2> QED
    BY <2>1, <2>2 DEF BranchTo, AfterJump
<1>7. CompileBxx(l, n, slot) = IF T2 THEN CompileBranch(y, ImmSe(n), slot) ELSE Passed(y, slot)
  BY DEF CompileBxx, LinkedJit
<1>8. T2 = T
  <2>1. Use(l, n.rs) = a /\ a \in Word
    BY <1>2, OperandIs
  <2>2. a2 = Signed(a)
    BY <2>1
  <2> HIDE DEF a, a2
  <2>3. (a2 < 0) = (a >= Sign) /\ a2 \in Int
    BY <2>1, <2>2, Sizes DEF Signed, Word
  <2>4. (a2 >= 0) = ~(a >= Sign)
    BY <2>3
  <2>5. CASE n.rt % 2 = 1
    <3>1. T2 = (a2 >= 0) /\ T = ~(a >= Sign)
      BY <2>5
    <3> QED
      BY <2>4, <3>1
  <2>6. CASE n.rt % 2 # 1
    <3>1. T2 = (a2 < 0) /\ T = (a >= Sign)
      BY <2>6
    <3> QED
      BY <2>3, <3>1
  <2> QED
    BY <2>5, <2>6
<1> HIDE DEF T, T2, w, y, d, x, a, a2
<1>9. CASE T
  BY <1>4, <1>5, <1>6, <1>7, <1>8, <1>9 DEF Decided, w, y
<1>10. CASE ~T
  BY <1>4, <1>5, <1>6, <1>7, <1>8, <1>10 DEF Decided, w, y
<1> QED
  BY <1>9, <1>10

\* A branch that is taken.
LEMMA BranchGoes ==
  ASSUME NEW u, NEW l, NEW n, NEW slot, NEW t, NEW O, AtJump(u, l, n, slot, t, O),
         NEW e, NEW k, NEW w, NEW w1, NEW y, Decided(u, l, e, k, slot, ImmSe(n), w, w1, y),
         e.branch, t = RunNext(e, slot), ImmSe(n) \in Int,
         NEW Y, Y \subseteq Reg, Delivered(y, Y), Y = Reg \/ "linkReload" \in O
  PROVE  Ends(l, t, k, O)
<1> DEFINE f == ImmSe(n)
           p == Wrap(u.pc + 4 * f)
           pc == Wrap(Wrap(CurrentPc(y) + 4 * f) + 4)
<1>1. Carried(u, l, w, y) /\ Carried(u, l, w1, y)
  BY DEF Decided
<1>2. ~u.branch /\ u.pc = Wrap(CurrentPc(l) + 4) /\ Fits(u, l, slot, Reg)
      /\ OddSlot(u, slot, t, O) /\ IsRef(u) /\ IsJit(l)
  BY DEF AtJump, Same
<1>3. ~w.branch
  BY <1>1, <1>2 DEF Carried, SteadyRef
<1>4. e = AfterJump(w1, p) /\ k = CompileBranch(y, f, slot)
  BY <1>3 DEF Decided
<1>5. k = Leave(CompileInDelaySlot(y, slot), pc)
  BY <1>4 DEF CompileBranch
<1>6. p \in Word
  <2>1. u.pc \in Int
    BY <1>2, Sizes DEF IsRef, Word
  <2> QED
    BY <2>1, WrapIsWord
<1>7. p = pc
  <2>1. CurrentPc(y) = CurrentPc(l)
    BY <1>1 DEF Carried, SteadyJit, CurrentPc
  <2> QED
    BY <1>2, <2>1, NextPcs
<1> HIDE DEF p, pc
<1>8. Jumped(u, l, e, y, Reg, p)
  BY <1>1, <1>4, <1>6, Jumping
<1> QED
  BY <1>2, <1>5, <1>7, <1>8, SlotEnds

\* A branch that is not taken: the load registers of the slot are saved as well.
LEMMA PassedIs ==
  ASSUME NEW u, NEW l, NEW w, NEW y, NEW slot, Carried(u, l, w, y)
  PROVE  Carried(u, l, w, Passed(y, slot))
<1> DEFINE G == {REG_LOAD_REG, REG_LOAD_VAL}
           k == With(y, G)
<1>1. Passed(y, slot) = y \/ Passed(y, slot) = k
  BY DEF Passed, With
<1>2. /\ Same(w, y, Reg) /\ Empty(w, y) /\ IsJit(y)
      /\ SteadyRef(u, w) /\ SteadyJit(l, y) /\ RestRef(u, w)
  BY DEF Carried, Same
<1>3. G \in SUBSET Var
  BY VarFacts DEF REG_LOAD_REG, REG_LOAD_VAL
<1>4. /\ IsJit(k) /\ SteadyJit(y, k) /\ k.v = y.v /\ k.m = y.m /\ k.regs = y.regs \cup G
      /\ k.mem = y.mem /\ k.gd = y.gd /\ k.gc = y.gc /\ k.delayed_load = y.delayed_load
  BY <1>2, <1>3, WithIs
<1> HIDE DEF k, G
<1>5. Same(w, k, Reg)
  BY <1>2, <1>4 DEF Same, SteadyJit
<1>6. Empty(w, k) /\ SteadyJit(l, k)
  BY <1>2, <1>4 DEF Empty, Quiet, SteadyJit
<1>7. Carried(u, l, w, k)
  BY <1>2, <1>5, <1>6 DEF Carried
<1> QED
  BY <1>1, <1>7

LEMMA PassGoes ==
  ASSUME NEW u, NEW l, NEW e, NEW k, NEW slot, NEW f, NEW w, NEW w1, NEW y,
         Decided(u, l, e, k, slot, f, w, w1, y), ~e.branch,
         u.pc = Wrap(CurrentPc(l) + 4), u.next_pc = Wrap(CurrentPc(l) + 8),
         ~u.branch, ~u.delay_slot, ~u.interrupt, ~l.done
  PROVE  InStep(e, Onward(k)) /\ Onward(k).i = l.i + 1
<1>1. Carried(u, l, w, y) /\ Carried(u, l, w1, y)
  BY DEF Decided
<1>2. AfterJump(w1, Wrap(u.pc + 4 * f)).branch
  <2>1. IsRef(w1)
    BY <1>1 DEF Carried, Same
  <2> QED
    BY <2>1 DEF AfterJump, IsRef
<1>3. e = w /\ k = Passed(y, slot)
  BY <1>2 DEF Decided
<1>4. Carried(u, l, e, k)
  BY <1>1, <1>3, PassedIs
<1>5. /\ Same(e, k, Reg) /\ Empty(e, k) /\ SteadyRef(u, e) /\ SteadyJit(l, k)
  BY <1>4 DEF Carried
<1>6. Held(e, k) /\ k.v[REG_LOAD_REG] = 0
  BY <1>5 DEF Held, Empty, Quiet
<1>7. CurrentPc(k) = CurrentPc(l) /\ k.i = l.i /\ ~k.done
  BY <1>5 DEF SteadyJit, CurrentPc
<1>8. /\ e.pc = Wrap(CurrentPc(k) + 4) /\ e.next_pc = Wrap(CurrentPc(k) + 8)
      /\ ~e.branch /\ ~e.delay_slot /\ ~e.interrupt
  BY <1>5, <1>7 DEF SteadyRef
<1> QED
  BY <1>5, <1>6, <1>7, <1>8, GoingOn
-----------------------------------------------------------------------------
(* The steps of a block.                                                   *)

LEMMA Known2Is == \A n, slot : Known2(n, slot) = With(jit, GetRegisters(n) \cup GetRegisters(slot))
<1> TAKE n, slot
<1>1. jit.regs \cup GetRegisters(n) \cup GetRegisters(slot)
      = jit.regs \cup (GetRegisters(n) \cup GetRegisters(slot))
  OBVIOUS
<1> QED
  BY <1>1 DEF Known2, With

\* The two before a jump.
LEMMA BeforeJump ==
  ASSUME InStep(ref, jit), NEW n, IsInstruction(n), NEW slot, IsInstruction(slot)
  PROVE  LET u == Fetched(ref)
             l == Known2(n, slot)
         IN /\ Same(u, l, Reg) /\ Ready(u, l, Reg) /\ (l.i = 0 => Fresh(u, l))
            /\ u.current_pc = CurrentPc(l) /\ u.pc = Wrap(CurrentPc(l) + 4)
            /\ u.next_pc = Wrap(CurrentPc(l) + 8)
            /\ ~u.branch /\ ~u.delay_slot /\ ~u.interrupt
            /\ u.sr = ref.sr /\ u.load = ref.load
            /\ u.current_pc = ref.pc /\ u.pc = ref.next_pc
            /\ ~l.done /\ l.i = jit.i /\ l.addr = jit.addr
            /\ GetRegisters(n) \subseteq l.regs /\ GetRegisters(slot) \subseteq l.regs
            /\ RunNext(ref, n) = Execute(u, n)
<1> DEFINE u == Fetched(ref)
           G == GetRegisters(n) \cup GetRegisters(slot)
           l == With(jit, G)
<1>1. G \in SUBSET Var /\ IsRef(ref)
  BY RegistersAreVars DEF InStep, Same
<1>2. Known2(n, slot) = l
  BY Known2Is
<1>3. RunNext(ref, n) = Execute(u, n)
  BY DEF RunNext, Fetched
<1>4. GetRegisters(n) \subseteq G /\ GetRegisters(slot) \subseteq G
  OBVIOUS
<1>5. u.current_pc = ref.pc /\ u.pc = ref.next_pc
  BY <1>1, FetchedIs
<1> HIDE DEF G
<1>6. /\ Same(u, l, Reg) /\ Ready(u, l, Reg) /\ (l.i = 0 => Fresh(u, l))
      /\ u.current_pc = CurrentPc(l) /\ u.pc = Wrap(CurrentPc(l) + 4)
      /\ u.next_pc = Wrap(CurrentPc(l) + 8)
      /\ ~u.branch /\ ~u.delay_slot /\ ~u.interrupt
      /\ u.sr = ref.sr /\ u.load = ref.load
      /\ ~l.done /\ l.i = jit.i /\ l.addr = jit.addr /\ G \subseteq l.regs
  BY <1>1, Fetching
<1>7. GetRegisters(n) \subseteq l.regs /\ GetRegisters(slot) \subseteq l.regs
  BY <1>4, <1>6
<1> HIDE DEF l, u
<1> QED
  BY <1>2, <1>3, <1>5, <1>6, <1>7 DEF u

LEMMA CompileIs ==
  ASSUME NEW l, NEW n, NEW slot
  PROVE  /\ n.op = "j" => Compile(l, n, slot) = CompileJ(l, n, slot)
         /\ n.op = "jal" => Compile(l, n, slot) = CompileJal(l, n, slot)
         /\ n.op = "jr" => Compile(l, n, slot) = CompileJr(l, n, slot)
         /\ n.op = "jalr" => Compile(l, n, slot) = CompileJalr(l, n, slot)
         /\ n.op = "bxx" => Compile(l, n, slot) = CompileBxx(l, n, slot)
         /\ n.op \in {"beq", "bne", "blez", "bgtz"} => Compile(l, n, slot) = CompileCompare(l, n, slot)
BY DEF Compile

LEMMA JumpGoes ==
  ASSUME InStep(ref, jit), NEW n, IsInstruction(n), NEW slot, IsInstruction(slot),
         IsJump(n), n.op \notin Traps, ~IsJump(slot),
         NEW e, e = RunNext(ref, n), e.branch, NEW t, t = RunNext(e, slot),
         NEW k, k = Compile(Known2(n, slot), n, slot),
         NEW O, O = OddJump(n, slot, t), {"isolated", "jalLink"} \cap O = {}
  PROVE  k.done /\ (O = {} => k.cycles = jit.i + 2) /\ Differing(t, k) \subseteq Allowed(O)
<1> DEFINE u == Fetched(ref)
           l == Known2(n, slot)
<1>1. /\ Same(u, l, Reg) /\ Ready(u, l, Reg) /\ (l.i = 0 => Fresh(u, l))
      /\ u.current_pc = CurrentPc(l) /\ u.pc = Wrap(CurrentPc(l) + 4)
      /\ u.next_pc = Wrap(CurrentPc(l) + 8)
      /\ ~u.branch /\ ~u.delay_slot /\ ~u.interrupt
      /\ u.sr = ref.sr /\ u.load = ref.load
      /\ u.current_pc = ref.pc /\ u.pc = ref.next_pc
      /\ ~l.done /\ l.i = jit.i /\ l.addr = jit.addr
      /\ GetRegisters(n) \subseteq l.regs /\ GetRegisters(slot) \subseteq l.regs
      /\ RunNext(ref, n) = Execute(u, n)
  BY BeforeJump
<1> HIDE DEF u, l
<1>2. e = Execute(u, n) /\ k = Compile(l, n, slot)
  BY <1>1 DEF l
<1>3. /\ t.interrupt => "slotEpc" \in O
      /\ n.op = "jal" => ~Touches31(slot) /\ ~t.interrupt
      /\ jit.i = 0 /\ Links(n) /\ Pending(LinkOf(n)) => "linkReload" \in O
      /\ ~(slot.op \in {"swl", "swr"} /\ IsIsolated(ref.sr))
      /\ t.interrupt /\ IsBoot(ref.sr) => "bootHandler" \in O
      /\ slot.op = "swc2" /\ t.interrupt => "swc2Cause" \in O
      /\ slot.op \in Unlisted => "illegal" \in O
      /\ n.op = "j" /\ RegionBase(ref.pc) # RegionBase(jit.addr) => "region" \in O
      /\ n.op = "jal" /\ RegionBase(ref.next_pc) # RegionBase(jit.addr) => "region" \in O
  BY DEF OddJump
<1>4. AtJump(u, l, n, slot, t, O)
  <2>1. Fits(u, l, slot, Reg)
    BY <1>1, <1>3 DEF Fits
  <2>2. OddSlot(u, slot, t, O)
    BY <1>1, <1>3 DEF OddSlot
  <2>3. l.i = 0 /\ Links(n) /\ u.load[1] # 0 /\ u.load[1] = LinkOf(n) => "linkReload" \in O
    BY <1>1, <1>3 DEF Pending
  <2> QED
    BY <1>1, <1>3, <2>1, <2>2, <2>3 DEF AtJump
<1>5. n.op \in {"j", "jal", "jr", "jalr", "beq", "bne", "blez", "bgtz", "bxx"}
  BY DEF IsJump, IsUnconditionalJump, IsConditionalJump, IsIllegal, Traps, Coprocessor
<1>6. Ends(l, t, k, O)
  <2>1. CASE n.op = "j"
    BY <1>2, <1>4, <2>1, CompileIs, JGoes
  <2>2. CASE n.op = "jal"
    BY <1>2, <1>4, <2>2, CompileIs, JalGoes
  <2>3. CASE n.op = "jr"
    BY <1>2, <1>4, <2>3, CompileIs, JrGoes
  <2>4. CASE n.op = "jalr"
    BY <1>2, <1>4, <2>4, CompileIs, JalrGoes
  <2>5. CASE n.op \in {"beq", "bne", "blez", "bgtz"}
    <3> DEFINE d == DelayedLoad(u)
               x == CompileDelayedLoad(l, TRUE)
    <3>1. k = CompileCompare(l, n, slot)
      BY <1>2, <2>5, CompileIs
    <3>2. Decided(u, l, e, k, slot, ImmSe(n), d, d, x)
      BY <1>1, <1>2, <2>5, <3>1, CompareDecides
    <3>3. ImmSe(n) \in Int
      BY <2>5, FieldsOf, Sizes DEF Word
    <3>4. Delivered(x, Reg) /\ Reg \subseteq Reg
      BY <1>1, Carrying
    <3> HIDE DEF d, x
    <3> QED
      BY <1>4, <3>2, <3>3, <3>4, BranchGoes
  <2>6. CASE n.op = "bxx"
    <3> DEFINE w == LinkedRef(u, n)
               y == LinkedJit(l, n)
    <3>1. k = CompileBxx(l, n, slot)
      BY <1>2, <2>6, CompileIs
    <3>2. Decided(u, l, e, k, slot, ImmSe(n), w, DelayedLoad(w), y)
      BY <1>1, <1>2, <2>6, <3>1, BxxDecides
    <3>3. ImmSe(n) \in Int
      BY <2>6, FieldsOf, Sizes DEF Word
    <3>4. DeliveredOr(y, O)
      <4>1. CASE n.rt \div 2 = 8
        <5> DEFINE v == Wrap(CurrentPc(l) + 8)
        <5>1. Links(n) /\ LinkOf(n) = 31
          BY <2>6, <4>1 DEF Links, LinkOf
        <5>2. LinkOf(n) \in Reg /\ LinkOf(n) \in l.regs
          BY <1>1, <2>6, <5>1, VarFacts, RegistersOf
        <5>3. v \in Word
          <6>1. v = u.next_pc /\ u.next_pc \in Word
            BY <1>4, AtJumpCarries
          <6> QED
            BY <6>1
        <5>4. y = DefReg(CompileDelayedLoad(l, TRUE), LinkOf(n), v)
          <6>1. y = Def(CompileDelayedLoad(l, TRUE), 31, v)
            BY <4>1 DEF LinkedJit
          <6>2. DefReg(CompileDelayedLoad(l, TRUE), 31, v) = Def(CompileDelayedLoad(l, TRUE), 31, v)
            BY DEF DefReg
          <6> QED
            BY <5>1, <6>1, <6>2
        <5> HIDE DEF y, v
        <5> QED
          BY <1>4, <5>1, <5>2, <5>3, <5>4, LinkDelivered
      <4>2. CASE n.rt \div 2 # 8
        <5>1. y = CompileDelayedLoad(l, TRUE)
          BY <4>2 DEF LinkedJit
        <5>2. Delivered(CompileDelayedLoad(l, TRUE), Reg) /\ Reg \in SUBSET Reg
          BY <1>1, Carrying
        <5> HIDE DEF y
        <5> QED
          BY <5>1, <5>2 DEF DeliveredOr
      <4> QED
        BY <4>1, <4>2
    <3> HIDE DEF w, y
    <3> QED
      BY <1>4, <3>2, <3>3, <3>4, BranchGoes DEF DeliveredOr
  <2> QED
    BY <1>5, <2>1, <2>2, <2>3, <2>4, <2>5, <2>6
<1> QED
  BY <1>1, <1>6 DEF Ends

LEMMA NotTakenGoes ==
  ASSUME InStep(ref, jit), NEW n, IsInstruction(n), NEW slot, IsInstruction(slot),
         IsConditionalJump(n),
         NEW e, e = RunNext(ref, n), ~e.branch,
         NEW k, k = Compile(Known2(n, slot), n, slot)
  PROVE  InStep(e, Onward(k)) /\ Onward(k).i = jit.i + 1
<1> DEFINE u == Fetched(ref)
           l == Known2(n, slot)
<1>1. /\ Same(u, l, Reg) /\ Ready(u, l, Reg)
      /\ u.pc = Wrap(CurrentPc(l) + 4) /\ u.next_pc = Wrap(CurrentPc(l) + 8)
      /\ ~u.branch /\ ~u.delay_slot /\ ~u.interrupt /\ ~l.done /\ l.i = jit.i
      /\ GetRegisters(n) \subseteq l.regs
      /\ RunNext(ref, n) = Execute(u, n)
  BY BeforeJump
<1> HIDE DEF u, l
<1>2. e = Execute(u, n) /\ k = Compile(l, n, slot)
  BY <1>1 DEF l
<1>3. \E w, w1, y : Decided(u, l, e, k, slot, ImmSe(n), w, w1, y)
  <2>1. CASE n.op \in {"beq", "bne", "blez", "bgtz"}
    <3>1. k = CompileCompare(l, n, slot)
      BY <1>2, <2>1, CompileIs
    <3> QED
      BY <1>1, <1>2, <2>1, <3>1, CompareDecides
  <2>2. CASE n.op = "bxx"
    <3>1. k = CompileBxx(l, n, slot)
      BY <1>2, <2>2, CompileIs
    <3> QED
      BY <1>1, <1>2, <2>2, <3>1, BxxDecides
  <2> QED
    BY <2>1, <2>2 DEF IsConditionalJump
<1>4. PICK w, w1, y : Decided(u, l, e, k, slot, ImmSe(n), w, w1, y)
  BY <1>3
<1> QED
  BY <1>1, <1>4, PassGoes

\* The block is as long as a block may be.
LEMMA LimitEnds ==
  ASSUME InStep(ref, jit), jit.i > 0, NEW k, k = FallThrough(jit),
         NEW O, "fallThrough" \in O
  PROVE  k.done /\ k.cycles = jit.i /\ Differing(ref, k) \subseteq Allowed(O)
<1> DEFINE l == PushDelayLoadToRegs(jit)
           pc == Wrap(jit.addr + 4 * jit.i + 4)
<1>1. Same(ref, jit, Reg) /\ Ready(ref, jit, Reg) /\ jit.i # 0 /\ Reg \subseteq Reg
  BY DEF InStep
<1>2. Held(ref, jit)
  BY <1>1 DEF Ready, Held, Fresh
<1>3. Settled(ref, l, Reg)
  BY <1>1, <1>2, Pushed
<1>4. k = Return(l, pc, jit.i)
  BY DEF FallThrough
<1> HIDE DEF l, pc
<1>5. k.done /\ k.cycles = jit.i /\ Differing(ref, k) \subseteq EndParting(ref, pc, Reg)
  BY <1>3, <1>4, Returns
<1>6. EndParting(ref, pc, Reg) \subseteq Allowed(O)
  BY AllowedHas DEF EndParting
<1> QED
  BY <1>5, <1>6
-----------------------------------------------------------------------------
(* The block as a whole.                                                   *)

IsEntry(c) ==
    /\ c \in [m : [Var -> Word], mem : Memories, gd : Word, gc : Word]
    /\ IsRegisters(c.m)

LEMMA Entering ==
  ASSUME NEW c, IsEntry(c)
  PROVE  /\ InStep(Machine(c), Enter(c.m, c.mem, c.gd, c.gc))
         /\ Enter(c.m, c.mem, c.gd, c.gc).i = 0
<1> DEFINE m == c.m
           s == Machine(c)
           j == Enter(c.m, c.mem, c.gd, c.gc)
           pc == m[REG_PC]
           next == Wrap(pc + 4)
           r == [x \in Reg |-> m[x]]
<1>1. /\ m \in [Var -> Word] /\ c.mem \in Memories /\ c.gd \in Word /\ c.gc \in Word
      /\ m[0] = 0 /\ m[REG_LOAD_REG] \in Reg
  BY DEF IsEntry, IsRegisters
<1>2. /\ m[REG_HI] \in Word /\ m[REG_LO] \in Word /\ pc \in Word /\ m[REG_SR] \in Word
      /\ m[REG_CAUSE] \in Word /\ m[REG_EPC] \in Word /\ m[REG_BADDR] \in Word
      /\ m[REG_LOAD_VAL] \in Word
  BY <1>1, VarFacts DEF REG_HI, REG_LO, REG_PC, REG_SR, REG_CAUSE, REG_EPC, REG_BADDR, REG_LOAD_VAL
<1>3. r \in [Reg -> Word] /\ \A x \in Reg : r[x] = m[x]
  BY <1>1, VarFacts
<1>4. pc + 4 \in Int /\ next \in Word /\ 0 \in Word /\ 0 \in Reg
  BY <1>2, WrapIsWord, Sizes, VarFacts DEF Word
<1>5. s = [ r |-> r, hi |-> m[REG_HI], lo |-> m[REG_LO],
            pc |-> pc, sr |-> m[REG_SR], cause |-> m[REG_CAUSE],
            epc |-> m[REG_EPC], baddr |-> m[REG_BADDR],
            load |-> <<m[REG_LOAD_REG], m[REG_LOAD_VAL]>>,
            next_pc |-> next, current_pc |-> 0, branch |-> FALSE,
            delay_slot |-> FALSE, interrupt |-> FALSE, mem |-> c.mem, gd |-> c.gd, gc |-> c.gc ]
  BY DEF Machine
<1>6. j = [ v |-> m, regs |-> {}, delayed_load |-> None, i |-> 0, addr |-> pc,
            delay_slot |-> FALSE, m |-> m, mem |-> c.mem, gd |-> c.gd, gc |-> c.gc,
            done |-> FALSE, cycles |-> 0 ]
  BY DEF Enter
<1> HIDE DEF m, s, j, pc, next, r
<1>7. IsRef(s)
  BY <1>1, <1>2, <1>3, <1>4, <1>5 DEF IsRef
<1>8. IsJit(j)
  BY <1>1, <1>2, <1>6 DEF IsJit
<1>9. Same(s, j, Reg)
  <2>1. s.r[0] = 0 /\ j.v[0] = 0 /\ \A x \in Reg : s.r[x] = j.v[x]
    BY <1>1, <1>3, <1>4, <1>5, <1>6
  <2>2. /\ s.hi = j.v[REG_HI] /\ s.lo = j.v[REG_LO]
        /\ s.sr = j.v[REG_SR] /\ s.cause = j.v[REG_CAUSE]
        /\ s.epc = j.v[REG_EPC] /\ s.baddr = j.v[REG_BADDR]
        /\ s.mem = j.mem /\ s.gd = j.gd /\ s.gc = j.gc /\ s.delay_slot = j.delay_slot
    BY <1>5, <1>6
  <2>3. j.v = j.m /\ j.m[REG_LOAD_REG] \in Reg
    BY <1>1, <1>6
  <2> QED
    BY <1>7, <1>8, <2>1, <2>2, <2>3 DEF Same
<1>10. Fresh(s, j) /\ Ready(s, j, Reg)
  BY <1>5, <1>6 DEF Fresh, Ready
<1>11. s.pc = CurrentPc(j) /\ s.next_pc = Wrap(s.pc + 4)
  <2>1. j.addr + 4 * j.i = pc
    BY <1>2, <1>6, Sizes DEF Word
  <2>2. CurrentPc(j) = pc
    BY <1>2, <2>1, WrapOfWord DEF CurrentPc
  <2> QED
    BY <1>5, <2>2 DEF next
<1>12. ~s.branch /\ ~s.delay_slot /\ ~s.interrupt /\ ~j.done /\ j.i = 0
  BY <1>5, <1>6
<1> QED
  BY <1>9, <1>10, <1>11, <1>12 DEF InStep, s, j, m

LEMMA BoundaryTypes ==
  ASSUME NEW c, IsEntry(c), NEW cause \in Causes, NEW a \in Word
  PROVE  IsEntry(BoundaryException(c, cause, a))
<1> DEFINE m == c.m
           sr == m[REG_SR]
           w1 == (sr - (sr % ModeMask)) + ((4 * sr) % ModeMask)
           w2 == (m[REG_CAUSE] % CauseSoftware) + 4 * ExceptionCode[cause]
           w3 == m[REG_PC]
           w4 == IF IsAddressError(cause) THEN a ELSE m[REG_BADDR]
           w5 == IF IsBoot(sr) THEN HandlerBoot ELSE HandlerRam
           m5 == [m EXCEPT ![REG_SR] = w1, ![REG_CAUSE] = w2, ![REG_EPC] = w3,
                           ![REG_BADDR] = w4, ![REG_PC] = w5]
<1>1. /\ c \in [m : [Var -> Word], mem : Memories, gd : Word, gc : Word]
      /\ m \in [Var -> Word] /\ m[0] = 0 /\ m[REG_LOAD_REG] \in Reg
  BY DEF IsEntry, IsRegisters
<1>2. {0, 32, 33, 34, 35, 36, 37, 38, 39, 40} \subseteq Var
  BY VarFacts
<1>3. w1 \in Word /\ w2 \in Word /\ w3 \in Word /\ w4 \in Word /\ w5 \in Word
  <2>1. sr \in Word /\ m[REG_CAUSE] \in Word /\ w3 \in Word /\ m[REG_BADDR] \in Word
    BY <1>1, <1>2 DEF REG_SR, REG_CAUSE, REG_PC, REG_BADDR
  <2> HIDE DEF m, sr
  <2>2. w1 \in Word
    BY <2>1, StatusWord DEF Entered
  <2>3. w2 \in Word
    BY <2>1, CauseWord, CodeIs
  <2>4. w5 \in Word
    BY CpuAssumption
  <2> QED
    BY <2>1, <2>2, <2>3, <2>4
<1>4. BoundaryException(c, cause, a) = [c EXCEPT !.m = m5]
  BY DEF BoundaryException
<1> HIDE DEF w1, w2, w3, w4, w5
<1>5. m5 \in [Var -> Word] /\ m5[0] = 0 /\ m5[REG_LOAD_REG] = m[REG_LOAD_REG]
  BY <1>1, <1>2, <1>3 DEF REG_SR, REG_CAUSE, REG_EPC, REG_BADDR, REG_PC, REG_LOAD_REG
<1> HIDE DEF m5, m
<1> QED
  BY <1>1, <1>4, <1>5 DEF IsEntry, IsRegisters

-----------------------------------------------------------------------------
\* Where a block is entered, while it runs and where it ends.
AtBoundary ==
    phase = "boundary" => odd = {} /\ count = 0 /\ fetched = Nothing /\ IsEntry(cpu)
InBlock ==
    phase = "block" /\ odd = {} =>
        /\ InStep(ref, jit) /\ jit.i = count
        /\ fetched = Nothing \/ (IsInstruction(fetched) /\ ~IsJump(fetched))
AtEnd ==
    phase = "done" /\ odd \subseteq DOMAIN Extent =>
        /\ jit.done /\ (odd = {} => jit.cycles = count)
        /\ Differing(ref, jit) \subseteq Allowed(odd)
Inv == AtBoundary /\ InBlock /\ AtEnd

LEMMA Program ==
  ASSUME NEW i \in Nat, i < BlockLen, NEW n \in Code(i) \cup Slot(i)
  PROVE  IsInstruction(n)
BY ProgramAssumption, CpuAssumption

LEMMA Initially == Init => Inv
<1> SUFFICES ASSUME Init PROVE Inv
  OBVIOUS
<1>1. IsEntry(cpu)
  BY StartsAssumption DEF Init, IsEntry, Memories
<1> QED
  BY <1>1 DEF Init, Inv, AtBoundary, InBlock, AtEnd

LEMMA BoundarySteps == Inv /\ (Interrupt \/ BadPc) => Inv'
<1> SUFFICES ASSUME Inv, Interrupt \/ BadPc PROVE Inv'
  OBVIOUS
<1>1. phase = "boundary" /\ odd = {} /\ count = 0 /\ fetched = Nothing /\ IsEntry(cpu)
  BY DEF Inv, AtBoundary, Interrupt, BadPc
<1>2. IsEntry(cpu')
  <2>1. 0 \in Word /\ cpu.m[REG_PC] \in Word
    BY <1>1, Sizes, VarFacts DEF Word, IsEntry, IsRegisters, REG_PC
  <2>2. "ExternalInterrupt" \in Causes /\ "LoadAddressError" \in Causes
    BY DEF Causes, ExceptionCode
  <2>3. CASE Interrupt
    BY <1>1, <2>1, <2>2, <2>3, BoundaryTypes DEF Interrupt
  <2>4. CASE BadPc
    BY <1>1, <2>1, <2>2, <2>4, BoundaryTypes DEF BadPc
  <2> QED
    BY <2>3, <2>4
<1>3. UNCHANGED <<phase, ref, jit, fetched, count, odd>>
  BY DEF Interrupt, BadPc
<1> QED
  BY <1>1, <1>2, <1>3 DEF Inv, AtBoundary, InBlock, AtEnd

LEMMA EnterStep == Inv /\ EnterBlock => Inv'
<1> SUFFICES ASSUME Inv, EnterBlock PROVE Inv'
  OBVIOUS
<1>1. odd = {} /\ count = 0 /\ fetched = Nothing /\ IsEntry(cpu)
  BY DEF Inv, AtBoundary, EnterBlock
<1>2. InStep(ref', jit') /\ jit'.i = 0
  BY <1>1, Entering DEF EnterBlock
<1>3. phase' = "block" /\ odd' = odd /\ count' = count /\ fetched' = fetched
  BY DEF EnterBlock
<1> QED
  BY <1>1, <1>2, <1>3 DEF Inv, AtBoundary, InBlock, AtEnd

LEMMA StraightStep ==
  ASSUME Inv, NEW n, fetched = Nothing => n \in Code(jit.i), Straight(n)
  PROVE  Inv'
<1> DEFINE t == RunNext(ref, n)
           k == CompileInstr(Known(n), n)
           O == OddStep(n, t)
<1>1. phase = "block" /\ odd = {} /\ ~IsJump(n)
  BY DEF Straight, Running
<1>2. InStep(ref, jit) /\ jit.i = count /\ jit.i \in Nat
      /\ (fetched = Nothing \/ (IsInstruction(fetched) /\ ~IsJump(fetched)))
  BY <1>1 DEF Inv, InBlock, InStep, Same, IsJit
<1>3. IsInstruction(n)
  <2>1. CASE fetched = Nothing
    <3>1. jit.i < BlockLen /\ n \in Code(jit.i)
      BY <2>1 DEF Straight
    <3> QED
      BY <1>2, <3>1, Program
  <2>2. CASE fetched # Nothing
    <3>1. n = fetched
      BY <2>2 DEF Straight
    <3> QED
      BY <1>2, <2>2, <3>1
  <2> QED
    BY <2>1, <2>2
<1>4. /\ ref' = t /\ jit' = (IF k.done THEN k ELSE Onward(k)) /\ odd' = O
      /\ phase' = (IF t.interrupt \/ k.done THEN "done" ELSE "block")
      /\ count' = count + 1 /\ fetched' = Nothing
  BY <1>1 DEF Straight, Onward
<1> HIDE DEF t, k, O
<1>5. CASE {"staleLoad", "moveToHiLo", "isolated"} \cap O = {}
  <2>1. Goes(jit.i, t, k, O)
    BY <1>1, <1>2, <1>3, <1>5, StraightGoes DEF t, k, O
  <2>2. CASE ~t.interrupt /\ ~k.done /\ InStep(t, Onward(k)) /\ Onward(k).i = jit.i + 1
    BY <1>2, <1>4, <2>2 DEF Inv, AtBoundary, InBlock, AtEnd
  <2>3. CASE t.interrupt /\ k.done /\ k.cycles = jit.i + 1 /\ Differing(t, k) \subseteq Allowed(O)
    BY <1>2, <1>4, <2>3 DEF Inv, AtBoundary, InBlock, AtEnd
  <2> QED
    BY <2>1, <2>2, <2>3 DEF Goes
<1>6. CASE {"staleLoad", "moveToHiLo", "isolated"} \cap O # {}
  <2>1. O # {} /\ ~(O \subseteq DOMAIN Extent)
    BY <1>6 DEF Extent
  <2> QED
    BY <1>4, <2>1 DEF Inv, AtBoundary, InBlock, AtEnd
<1> QED
  BY <1>5, <1>6

LEMMA JumpSteps ==
  ASSUME Inv, NEW n \in Code(jit.i), NEW slot \in Slot(jit.i), phase = "block",
         TrapStep(n, slot) \/ JumpTaken(n, slot) \/ NotTaken(n, slot)
  PROVE  Inv'
<1>1. odd = {} /\ jit.i < BlockLen /\ fetched = Nothing
  BY DEF TrapStep, JumpTaken, NotTaken, Running
<1>2. InStep(ref, jit) /\ jit.i = count /\ jit.i \in Nat
  BY <1>1 DEF Inv, InBlock, InStep, Same, IsJit
<1>3. IsInstruction(n) /\ IsInstruction(slot)
  BY <1>1, <1>2, Program
<1>4. CASE TrapStep(n, slot)
  <2> DEFINE t == RunNext(ref, n)
             k == CompileTrap(Known2(n, slot), n)
             O == OddStep(n, t)
  <2>1. /\ ref' = t /\ jit' = k /\ odd' = O /\ phase' = "done" /\ count' = count + 1
        /\ IsUnconditionalJump(n) /\ n.op \in Traps
    BY <1>1, <1>4 DEF TrapStep
  <2>2. t.interrupt /\ k.done /\ k.cycles = jit.i + 1 /\ Differing(t, k) \subseteq Allowed(O)
    BY <1>2, <1>3, <2>1, TrapGoes
  <2> HIDE DEF t, k, O
  <2> QED
    BY <1>2, <2>1, <2>2 DEF Inv, AtBoundary, InBlock, AtEnd
<1>5. CASE JumpTaken(n, slot)
  <2> DEFINE e == RunNext(ref, n)
             t == RunNext(e, slot)
             k == Compile(Known2(n, slot), n, slot)
             O == OddJump(n, slot, t)
  <2>1. /\ e.branch /\ ref' = t /\ jit' = k /\ odd' = O /\ phase' = "done" /\ count' = count + 2
        /\ IsJump(n) /\ n.op \notin Traps /\ ~IsJump(slot)
    BY <1>1, <1>5 DEF JumpTaken
  <2>2. CASE {"isolated", "jalLink"} \cap O = {}
    <3>1. k.done /\ (O = {} => k.cycles = jit.i + 2) /\ Differing(t, k) \subseteq Allowed(O)
      BY <1>2, <1>3, <2>1, <2>2, JumpGoes
    <3> HIDE DEF e, t, k, O
    <3> QED
      BY <1>2, <2>1, <3>1 DEF Inv, AtBoundary, InBlock, AtEnd
  <2>3. CASE {"isolated", "jalLink"} \cap O # {}
    <3>1. O # {} /\ ~(O \subseteq DOMAIN Extent)
      <4> HIDE DEF O
      <4> QED
        BY <2>3 DEF Extent
    <3> HIDE DEF e, t, k, O
    <3> QED
      BY <2>1, <3>1 DEF Inv, AtBoundary, InBlock, AtEnd
  <2> QED
    BY <2>2, <2>3
<1>6. CASE NotTaken(n, slot)
  <2> DEFINE e == RunNext(ref, n)
             k == Compile(Known2(n, slot), n, slot)
  <2>1. /\ ~e.branch /\ ref' = e /\ jit' = Onward(k) /\ odd' = odd /\ phase' = phase
        /\ count' = count + 1 /\ fetched' = slot
        /\ IsConditionalJump(n) /\ ~IsJump(slot)
    BY <1>6 DEF NotTaken, Onward
  <2>2. InStep(e, Onward(k)) /\ Onward(k).i = jit.i + 1
    BY <1>2, <1>3, <2>1, NotTakenGoes
  <2> HIDE DEF e, k
  <2> QED
    BY <1>1, <1>2, <1>3, <2>1, <2>2 DEF Inv, AtBoundary, InBlock, AtEnd
<1> QED
  BY <1>4, <1>5, <1>6

LEMMA LimitStep == Inv /\ Limit => Inv'
<1> SUFFICES ASSUME Inv, Limit PROVE Inv'
  OBVIOUS
<1>1. phase = "block" /\ odd = {} /\ jit.i >= BlockLen
  BY DEF Limit, Running
<1>2. InStep(ref, jit) /\ jit.i = count /\ jit.i \in Nat
  BY <1>1 DEF Inv, InBlock, InStep, Same, IsJit
<1>3. jit.i > 0
  BY <1>1, <1>2, CpuAssumption
<1>4. jit' = FallThrough(jit) /\ odd' = {"fallThrough"} /\ phase' = "done" /\ ref' = ref
      /\ count' = count
  BY <1>1 DEF Limit
<1>5. jit'.done /\ jit'.cycles = jit.i /\ Differing(ref, jit') \subseteq Allowed(odd')
  BY <1>2, <1>3, <1>4, LimitEnds
<1> QED
  BY <1>4, <1>5 DEF Inv, AtBoundary, InBlock, AtEnd

LEMMA Inductive == Inv /\ [Next]_vars => Inv'
<1> SUFFICES ASSUME Inv, [Next]_vars PROVE Inv'
  OBVIOUS
<1>1. CASE UNCHANGED vars
  BY <1>1 DEF vars, Inv, AtBoundary, InBlock, AtEnd
<1>2. CASE Interrupt \/ BadPc
  BY <1>2, BoundarySteps
<1>3. CASE EnterBlock
  BY <1>3, EnterStep
<1>4. CASE Limit
  BY <1>4, LimitStep
<1>5. ASSUME phase = "block", NEW n \in Code(jit.i), Straight(n) PROVE Inv'
  BY <1>5, StraightStep
<1>6. ASSUME phase = "block", NEW n \in Code(jit.i), NEW slot \in Slot(jit.i),
             TrapStep(n, slot) \/ JumpTaken(n, slot) \/ NotTaken(n, slot)
      PROVE  Inv'
  BY <1>6, JumpSteps
<1>7. CASE phase = "block" /\ fetched # Nothing /\ Straight(fetched)
  BY <1>7, StraightStep
<1> QED
  BY <1>1, <1>2, <1>3, <1>4, <1>5, <1>6, <1>7 DEF Next

LEMMA Invariant == Spec => []Inv
<1> QED
  BY Initially, Inductive, PTL DEF Spec

\* For every width of a byte, set of registers, program and entry state, a block
\* that meets none of the known differences leaves the guest the same machine
\* whichever engine ran it (interpreter.rs, run_next_instruction; dynarec.rs,
\* compile_block).
THEOREM EnginesAgree == Spec => []BlocksAgree
<1>1. Inv => BlocksAgree
  BY DEF Inv, AtEnd, BlocksAgree, Differences, Differing, Interpreted, Compiled, Allowed
<1> QED
  BY <1>1, Invariant, PTL

\* ... and as many cycles have passed (main.rs, update, advances the scheduler by
\* what run_block returns).
THEOREM TimesAgree == Spec => []CyclesAgree
<1>1. Inv => CyclesAgree
  BY DEF Inv, AtEnd, CyclesAgree
<1> QED
  BY <1>1, Invariant, PTL

\* Where a block meets one of the known differences that end it, the machines
\* differ in no more than the line that makes the difference accounts for.
THEOREM PartingsAreConfined == Spec => []PartingsConfined
<1>1. Inv => PartingsConfined
  BY DEF Inv, AtEnd, PartingsConfined, Differences, Differing, Interpreted, Compiled, Allowed
<1> QED
  BY <1>1, Invariant, PTL
=============================================================================
