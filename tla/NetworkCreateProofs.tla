------------------------- MODULE NetworkCreateProofs -------------------------
(***************************************************************************)
(* For any width of addresses, creations, pool, prefixes and failures: the *)
(* allocation gives out the first free block of the pool (of Subnet, by    *)
(* induction through the least counterexample); every variable keeps its   *)
(* type; no two networks share a subnet while no request is carried out    *)
(* late and the prefix stays; and no network has an address pool before it *)
(* is private.                                                             *)
(***************************************************************************)
EXTENDS NetworkCreate, SubnetMC, TLAPS, NaturalsInduction, WellFoundedInduction

(* Powers of two.  Induction takes the least number that has no such power. *)

\* Every set of numbers has a least one.
LEMMA LeastNat ==
  ASSUME NEW T, T \subseteq Nat, T # {}
  PROVE  \E n \in T : \A m \in T : n <= m
<1> DEFINE R == {ss \in Nat \X Nat : ss[1] < ss[2]}
<1>1. IsWellFoundedOn(R, Nat)
  BY NatLessThanWellFounded DEF OpToRel
<1> HIDE DEF R
<1>2. PICK n \in T : \A m \in T : ~ (<<m, n>> \in R)
  BY <1>1, WFMin
<1>3. \A m \in T : ~ (m < n)
  BY <1>2 DEF R
<1> QED
  BY <1>3

\* The powers up to the n-th, as a function.
Powers(g, n) == g = [k \in 0..n |-> IF k = 0 THEN 1 ELSE 2 * g[k - 1]]

LEMMA PowersExist == ASSUME NEW n \in Nat PROVE \E g : Powers(g, n)
<1> DEFINE T == {m \in Nat : ~ \E g : Powers(g, m)}
<1>1. SUFFICES ASSUME T # {} PROVE FALSE
  OBVIOUS
<1>2. PICK m \in T : \A l \in T : m <= l
  BY <1>1, LeastNat
<1>3. m # 0
  <2>1. Powers([k \in 0..0 |-> 1], 0)
    BY DEF Powers
  <2> QED
    BY <2>1
<1>4. PICK g : Powers(g, m - 1)
  BY <1>2, <1>3
<1> DEFINE h == [k \in 0..m |-> IF k = m THEN 2 * g[m - 1] ELSE g[k]]
<1>5. Powers(h, m)
  BY <1>2, <1>3, <1>4 DEF Powers
<1> QED
  BY <1>5

LEMMA PowersAgree ==
  ASSUME NEW n \in Nat, NEW m \in 0..n, NEW g, NEW h, Powers(g, m), Powers(h, n),
         NEW k \in 0..m
  PROVE  g[k] = h[k]
<1> DEFINE T == {i \in 0..m : g[i] # h[i]}
<1>1. SUFFICES ASSUME T # {} PROVE FALSE
  OBVIOUS
<1>0. T \subseteq Nat
  OBVIOUS
<1>2. PICK i \in T : \A j \in T : i <= j
  BY <1>0, <1>1, LeastNat
<1>3. CASE i = 0
  BY <1>2, <1>3 DEF Powers
<1>4. CASE i # 0
  <2>1. i - 1 \in 0..m /\ i - 1 \in 0..n /\ g[i - 1] = h[i - 1]
    BY <1>2, <1>4
  <2> QED
    BY <1>2, <1>4, <2>1 DEF Powers
<1> QED
  BY <1>3, <1>4

\* The recursive definition does define a function.
LEMMA Pow2Def == Pow2 = [n \in Nat |-> IF n = 0 THEN 1 ELSE 2 * Pow2[n - 1]]
<1> DEFINE G(n) == CHOOSE g : Powers(g, n)
           f == [n \in Nat |-> G(n)[n]]
<1>1. \A n \in Nat : Powers(G(n), n)
  BY PowersExist
<1> HIDE DEF G
<1>2. \A n \in Nat : G(n)[n] = IF n = 0 THEN 1 ELSE 2 * G(n)[n - 1]
  BY <1>1 DEF Powers
<1>3. \A n \in Nat \ {0} : G(n)[n - 1] = G(n - 1)[n - 1]
  BY <1>1, PowersAgree
<1>4. f = [n \in Nat |-> IF n = 0 THEN 1 ELSE 2 * f[n - 1]]
  BY <1>2, <1>3
<1> HIDE DEF f
<1> QED
  BY <1>4 DEF Pow2

LEMMA Pow2Steps ==
  /\ Pow2[0] = 1
  /\ \A n \in Nat : Pow2[n + 1] = 2 * Pow2[n]
BY Pow2Def

LEMMA Pow2Positive == ASSUME NEW n \in Nat PROVE Pow2[n] \in Nat \ {0}
<1> DEFINE T == {m \in Nat : Pow2[m] \notin Nat \ {0}}
<1>1. SUFFICES ASSUME T # {} PROVE FALSE
  OBVIOUS
<1>2. PICK m \in T : \A l \in T : m <= l
  BY <1>1, LeastNat
<1>3. m # 0
  BY <1>2, Pow2Steps
<1>4. Pow2[m - 1] \in Nat \ {0} /\ Pow2[m] = 2 * Pow2[m - 1]
  BY <1>2, <1>3, Pow2Steps
<1> QED
  BY <1>2, <1>4

LEMMA Pow2Sum ==
  ASSUME NEW m \in Nat, NEW n \in Nat PROVE Pow2[m + n] = Pow2[m] * Pow2[n]
<1> DEFINE T == {k \in Nat : Pow2[m + k] # Pow2[m] * Pow2[k]}
<1>1. SUFFICES ASSUME T # {} PROVE FALSE
  OBVIOUS
<1>2. PICK k \in T : \A l \in T : k <= l
  BY <1>1, LeastNat
<1>3. Pow2[m] \in Nat
  BY Pow2Positive
<1>4. k # 0
  BY <1>2, <1>3, Pow2Steps
<1>5. /\ Pow2[m + (k - 1)] = Pow2[m] * Pow2[k - 1] /\ Pow2[k - 1] \in Nat
      /\ Pow2[k] = 2 * Pow2[k - 1] /\ Pow2[m + k] = 2 * Pow2[m + (k - 1)]
  BY <1>2, <1>4, Pow2Steps, Pow2Positive
<1>6. \A a, b \in Nat : 2 * (a * b) = a * (2 * b)
  OBVIOUS
<1> QED
  BY <1>2, <1>3, <1>5, <1>6
-----------------------------------------------------------------------------
(* Multiples and remainders. *)

LEMMA Monotone ==
  ASSUME NEW a \in Nat, NEW b \in Int, NEW c \in Int, b <= c PROVE a * b <= a * c
OBVIOUS

LEMMA Quotient ==
  ASSUME NEW a \in Int, NEW n \in Nat \ {0}
  PROVE  /\ a \div n \in Int /\ a % n \in 0..(n - 1)
         /\ a = n * (a \div n) + (a % n)
OBVIOUS

\* The remainder is the only number of its range that differs from a by a multiple of n.
LEMMA Remainder ==
  ASSUME NEW a \in Int, NEW n \in Nat \ {0}, NEW q \in Int, NEW r \in 0..(n - 1),
         a = n * q + r
  PROVE  a % n = r /\ a \div n = q
<1>1. PICK p \in Int, s \in 0..(n - 1) : p = a \div n /\ s = a % n /\ a = n * p + s
  BY Quotient
<1>2. (n * p) - (n * q) = r - s
  <2>1. n * p \in Int /\ n * q \in Int /\ n * p + s = n * q + r
    BY <1>1
  <2> QED
    BY <2>1
<1>3. CASE p >= q + 1
  <2>1. n * (q + 1) <= n * p /\ n * (q + 1) = n * q + n
    BY <1>3, Monotone
  <2> QED
    BY <1>2, <2>1
<1>4. CASE q >= p + 1
  <2>1. n * (p + 1) <= n * q /\ n * (p + 1) = n * p + n
    BY <1>4, Monotone
  <2> QED
    BY <1>2, <2>1
<1>5. CASE p = q
  BY <1>1, <1>2, <1>5
<1> QED
  BY <1>3, <1>4, <1>5
-----------------------------------------------------------------------------
(* Addresses and their signed counterparts. *)

Half == Pow2[W - 1]

LEMMA Halves == Half \in Nat \ {0} /\ Pow2[W] = 2 * Half
<1>1. W - 1 \in Nat /\ W = (W - 1) + 1
  BY WidthAssumption
<1> QED
  BY <1>1, Pow2Positive, Pow2Steps DEF Half

Signed == (- Half) .. (Half - 1)

LEMMA SignedBack ==
  ASSUME NEW s \in Signed
  PROVE  /\ ToUnsigned(s) = IF s < 0 THEN s + Pow2[W] ELSE s
         /\ ToUnsigned(s) \in Addresses
         /\ ToSigned(ToUnsigned(s)) = s
<1>1. s \in Int /\ - Half <= s /\ s < Half /\ Half \in Nat \ {0} /\ Pow2[W] = 2 * Half
  BY Halves DEF Signed
<1>2. CASE s < 0
  <2>1. /\ s = Pow2[W] * (-1) + (s + Pow2[W]) /\ s + Pow2[W] \in 0..(Pow2[W] - 1)
        /\ Pow2[W] \in Nat \ {0}
    BY <1>1, <1>2
  <2>2. s % Pow2[W] = s + Pow2[W]
    BY <1>1, <2>1, Remainder
  <2> QED
    BY <1>1, <1>2, <2>1, <2>2 DEF ToUnsigned, ToSigned, Addresses, Half
<1>3. CASE s >= 0
  <2>1. s = Pow2[W] * 0 + s /\ s \in 0..(Pow2[W] - 1) /\ Pow2[W] \in Nat \ {0}
    BY <1>1, <1>3
  <2>2. s % Pow2[W] = s
    BY <1>1, <2>1, Remainder
  <2> QED
    BY <1>1, <1>3, <2>1, <2>2 DEF ToUnsigned, ToSigned, Addresses, Half
<1> QED
  BY <1>1, <1>2, <1>3

LEMMA UnsignedBack ==
  ASSUME NEW a \in Addresses
  PROVE  ToSigned(a) \in Signed /\ ToUnsigned(ToSigned(a)) = a
<1>1. a \in 0..(2 * Half - 1) /\ Half \in Nat \ {0} /\ Pow2[W] = 2 * Half
  BY Halves DEF Addresses
<1>2. ToSigned(a) \in Signed
  BY <1>1 DEF ToSigned, Signed, Half
<1> QED
  BY <1>1, <1>2, SignedBack DEF ToSigned, Half
-----------------------------------------------------------------------------
(* Blocks. *)

Multiple(a, n) == \E k \in Int : a = n * k

\* Multiples of one number are equal or apart by as much.
LEMMA MultiplesApart ==
  ASSUME NEW n \in Nat \ {0}, NEW a, NEW b, Multiple(a, n), Multiple(b, n), a < b
  PROVE  a + n <= b
<1>1. PICK j \in Int, k \in Int : a = n * j /\ b = n * k
  BY DEF Multiple
<1>2. CASE k <= j
  <2>1. n * k <= n * j /\ n * j \in Int /\ n * k \in Int
    BY <1>2, Monotone
  <2> QED
    BY <1>1, <2>1
<1>3. CASE j + 1 <= k
  <2>1. n * (j + 1) <= n * k /\ n * (j + 1) = n * j + n
    BY <1>3, Monotone
  <2> QED
    BY <1>1, <2>1
<1> QED
  BY <1>2, <1>3

LEMMA MultiplesAdd ==
  ASSUME NEW n \in Nat \ {0}, NEW a, NEW b, Multiple(a, n), Multiple(b, n)
  PROVE  Multiple(a + b, n) /\ Multiple(a - b, n) /\ a \in Int /\ b \in Int
<1>1. PICK j \in Int, k \in Int : a = n * j /\ b = n * k
  BY DEF Multiple
<1>2. /\ n * (j + k) = n * j + n * k /\ n * (j - k) = n * j - n * k
      /\ j + k \in Int /\ j - k \in Int /\ n * j \in Int /\ n * k \in Int
  OBVIOUS
<1>3. a + b = n * (j + k) /\ a - b = n * (j - k)
  BY <1>1, <1>2
<1>4. Multiple(a + b, n)
  BY <1>2, <1>3 DEF Multiple
<1>5. Multiple(a - b, n)
  BY <1>2, <1>3 DEF Multiple
<1> QED
  BY <1>1, <1>2, <1>4, <1>5

LEMMA MultiplesChain ==
  ASSUME NEW n \in Nat \ {0}, NEW m \in Nat \ {0}, NEW a, Multiple(a, m), Multiple(m, n)
  PROVE  Multiple(a, n)
<1>1. PICK j \in Int, k \in Int : a = m * j /\ m = n * k
  BY DEF Multiple
<1>2. \A x, y, z \in Int : (x * y) * z = x * (y * z)
  OBVIOUS
<1>3. a = n * (k * j) /\ k * j \in Int
  BY <1>1, <1>2
<1> QED
  BY <1>3 DEF Multiple

LEMMA NoRemainder ==
  ASSUME NEW n \in Nat \ {0}, NEW a, Multiple(a, n)
  PROVE  a % n = 0
<1>1. PICK k \in Int : a = n * k
  BY DEF Multiple
<1>2. a = n * k + 0 /\ 0 \in 0..(n - 1) /\ a \in Int
  BY <1>1
<1> QED
  BY <1>2, Remainder

LEMMA SizeType == ASSUME NEW p \in 0..W PROVE Size(p) \in Nat \ {0}
BY WidthAssumption, Pow2Positive DEF Size

\* A longer prefix makes smaller blocks, and blocks fit into larger ones.
LEMMA SizeOrder ==
  ASSUME NEW p \in 0..W, NEW q \in 0..p
  PROVE  Multiple(Size(q), Size(p)) /\ (q # p => Size(p) < Size(q))
<1>1. W - p \in Nat /\ p - q \in Nat /\ W - q = (W - p) + (p - q)
  BY WidthAssumption
<1>2. Size(q) = Size(p) * Pow2[p - q] /\ Pow2[p - q] \in Nat \ {0}
  BY <1>1, Pow2Sum, Pow2Positive DEF Size
<1>3. ASSUME q # p PROVE Size(p) < Size(q)
  <2>1. PICK k \in Nat : p - q = k + 1
    <3>1. p - q - 1 \in Nat /\ p - q = (p - q - 1) + 1
      BY <1>1, <1>3
    <3> QED
      BY <3>1
  <2>2. Pow2[p - q] >= 2
    <3>1. Pow2[k + 1] = 2 * Pow2[k] /\ Pow2[k] \in Nat \ {0}
      BY Pow2Steps, Pow2Positive
    <3> QED
      BY <2>1, <3>1
  <2>3. Size(p) * 2 <= Size(p) * Pow2[p - q] /\ Size(p) \in Nat \ {0}
    BY <1>2, <2>2, SizeType, Monotone
  <2> QED
    BY <1>2, <2>3
<1> QED
  BY <1>2, <1>3 DEF Multiple

\* The sign bit divides no block.
LEMMA SizeHalves ==
  ASSUME NEW p \in 1..W
  PROVE  Multiple(Half, Size(p)) /\ Multiple(- Half, Size(p)) /\ Multiple(Pow2[W], Size(p))
<1>1. 1 \in 0..p /\ p \in 0..W /\ Half = Size(1) /\ Half \in Nat \ {0} /\ Pow2[W] = 2 * Half
  BY WidthAssumption, Halves DEF Half, Size
<1>2. Multiple(Half, Size(p)) /\ Size(p) \in Nat \ {0}
  BY <1>1, SizeOrder, SizeType
<1>3. Multiple(0, Size(p))
  BY <1>2 DEF Multiple
<1>4. Multiple(0 - Half, Size(p)) /\ Multiple(Half + Half, Size(p))
  BY <1>2, <1>3, MultiplesAdd
<1>5. 0 - Half = - Half /\ Half + Half = Pow2[W]
  BY <1>1
<1> QED
  BY <1>2, <1>4, <1>5

\* A signed number that begins a block: the block has room, and its unsigned
\* counterpart begins one too.
LEMMA SignedBlock ==
  ASSUME NEW p \in 1..W, NEW s \in Signed, Multiple(s, Size(p))
  PROVE  /\ s + Size(p) <= Half
         /\ Multiple(ToUnsigned(s), Size(p))
         /\ ToUnsigned(s) + Size(p) <= Pow2[W]
<1>1. Size(p) \in Nat \ {0} /\ Half \in Nat \ {0} /\ Pow2[W] = 2 * Half
  BY SizeType, Halves
<1>2. s + Size(p) <= Half
  BY <1>1, SizeHalves, MultiplesApart DEF Signed
<1>3. Multiple(s + Pow2[W], Size(p))
  BY <1>1, SizeHalves, MultiplesAdd
<1>4. Multiple(ToUnsigned(s), Size(p))
  BY <1>3, SignedBack
<1>5. ToUnsigned(s) < Pow2[W]
  BY SignedBack, <1>1 DEF Addresses
<1> QED
  BY <1>1, <1>2, <1>4, <1>5, SizeHalves, MultiplesApart

\* The first address of the block of an address.
LEMMA BlockBase ==
  ASSUME NEW p \in 1..W, NEW a \in Addresses
  PROVE  LET b == a - (a % Size(p)) IN
         /\ b \in Addresses /\ Multiple(b, Size(p)) /\ b <= a /\ a < b + Size(p)
         /\ ToSigned(b) \in Signed /\ Multiple(ToSigned(b), Size(p))
<1> DEFINE b == a - (a % Size(p))
<1>1. /\ Size(p) \in Nat \ {0} /\ a \in Int /\ 0 <= a /\ a < Pow2[W]
      /\ Half \in Nat \ {0} /\ Pow2[W] = 2 * Half
  BY SizeType, Halves DEF Addresses
<1>2. /\ a = Size(p) * (a \div Size(p)) + (a % Size(p)) /\ a % Size(p) \in 0..(Size(p) - 1)
      /\ a \div Size(p) \in Int
  BY <1>1, Quotient
<1>3. b = Size(p) * (a \div Size(p))
  BY <1>1, <1>2
<1>4. Multiple(b, Size(p))
  BY <1>2, <1>3 DEF Multiple
<1>5. b \in Int /\ b <= a /\ a < b + Size(p)
  <2>1. PICK r \in 0..(Size(p) - 1) : r = a % Size(p)
    BY <1>2
  <2> QED
    BY <1>1, <2>1
<1>6. 0 <= b
  <2>1. Multiple(0, Size(p))
    BY <1>1 DEF Multiple
  <2> QED
    BY <1>1, <1>4, <1>5, <2>1, MultiplesApart
<1>7. b \in Addresses
  BY <1>1, <1>5, <1>6 DEF Addresses
<1>8. Multiple(ToSigned(b), Size(p))
  BY <1>1, <1>4, SizeHalves, MultiplesAdd DEF ToSigned
<1> QED
  BY <1>4, <1>5, <1>7, <1>8, UnsignedBack
-----------------------------------------------------------------------------
(* The allocation. *)

Base(c) == c.ip - (c.ip % Size(c.prefix))

\* Where a block starts, in JavaScript's numbers and in addresses.
LEMMA StartShape ==
  ASSUME NEW c \in Cidrs, c.prefix \in 1..W
  PROVE  /\ Start(c) \in Signed /\ Multiple(Start(c), Size(c.prefix))
         /\ ToUnsigned(Start(c)) = Base(c)
         /\ Base(c) \in Addresses /\ Multiple(Base(c), Size(c.prefix))
         /\ Block(c) = Base(c) .. Base(c) + Size(c.prefix) - 1
<1>1. c.ip \in Addresses /\ c.prefix # 0
  BY DEF Cidrs
<1>2. Start(c) = ToSigned(Base(c)) /\ Block(c) = Base(c) .. Base(c) + Size(c.prefix) - 1
  BY <1>1 DEF Start, Base, Block
<1> QED
  BY <1>1, <1>2, BlockBase, UnsignedBack DEF Base

\* A signed number in a block that starts on its side of the sign bit keeps its distance.
LEMMA SameSide ==
  ASSUME NEW p \in 1..W, NEW s \in Signed, Multiple(s, Size(p)),
         NEW k \in 0..(Size(p) - 1)
  PROVE  s + k \in Signed /\ ToUnsigned(s + k) = ToUnsigned(s) + k
<1>1. Size(p) \in Nat \ {0} /\ Half \in Nat \ {0} /\ Pow2[W] = 2 * Half /\ s \in Int /\ - Half <= s
  BY SizeType, Halves DEF Signed
<1>2. s + Size(p) <= Half
  BY SignedBlock
<1>3. s + k \in Signed
  BY <1>1, <1>2 DEF Signed
<1>4. s < 0 => s + k < 0
  <2>1. Multiple(0, Size(p))
    BY <1>1 DEF Multiple
  <2>2. s < 0 => s + Size(p) <= 0
    BY <1>1, <2>1, MultiplesApart
  <2> QED
    BY <1>1, <2>2
<1> QED
  BY <1>1, <1>3, <1>4, SignedBack

LEMMA Signs == ASSUME NEW c \in Cidrs PROVE Start(c) \in Int
<1>1. CASE c.prefix = 0
  BY <1>1 DEF Start
<1>2. CASE c.prefix # 0
  BY <1>2, StartShape DEF Cidrs, Signed
<1> QED
  BY <1>1, <1>2

\* Where the loop of allocateNext looks.
LEMMA Candidates ==
  ASSUME NEW P \in Cidrs, P.prefix \in 1..W, NEW t \in 1..W,
         NEW i \in 0..(Size(P.prefix) \div Size(t) - 1)
  PROVE  LET s == Start(P) + i * Size(t) IN
         /\ s \in Signed /\ Multiple(s, Size(t)) /\ Multiple(Size(P.prefix), Size(t))
         /\ i * Size(t) + Size(t) <= Size(P.prefix) /\ i * Size(t) \in Nat
<1> DEFINE Z == Size(P.prefix)
           S == Size(t)
<1>1. S \in Nat \ {0} /\ Z \in Nat \ {0} /\ Half \in Nat \ {0} /\ Start(P) \in Int
  BY SizeType, Halves, Signs
<1>2. PICK q \in Int, r \in 0..(S - 1) : q = Z \div S /\ Z = S * q + r
  <2>1. Z \div S \in Int /\ Z % S \in 0..(S - 1) /\ Z = S * (Z \div S) + (Z % S)
    <3> HIDE DEF S, Z
    <3> QED
      BY <1>1, Quotient
  <2> QED
    BY <2>1
<1>3. i \in Nat /\ i + 1 <= q
  BY <1>2
<1>4. S * (i + 1) <= S * q /\ S * (i + 1) = i * S + S /\ i * S \in Nat /\ S * q \in Int
  <2>1. \A a, b \in Nat : a * (b + 1) = b * a + a /\ b * a \in Nat
    OBVIOUS
  <2>2. S * (i + 1) <= S * q
    BY <1>1, <1>2, <1>3, Monotone
  <2>3. S * q \in Int
    BY <1>1, <1>2
  <2> HIDE DEF S
  <2> QED
    BY <1>1, <1>3, <2>1, <2>2, <2>3
<1>5. i * S + S <= Z
  BY <1>1, <1>2, <1>4
<1>6. Multiple(Z, S)
  <2>1. S <= Z
    BY <1>1, <1>4, <1>5
  <2>2. ~ (t < P.prefix)
    BY <1>1, <2>1, SizeOrder
  <2> QED
    BY <2>2, SizeOrder
<1>7. Multiple(Start(P), S) /\ Multiple(i * S, S)
  <2>1. Multiple(Start(P), Z)
    BY StartShape
  <2>2. Multiple(Start(P), S)
    BY <1>1, <1>6, <2>1, MultiplesChain
  <2>3. i * S = S * i /\ i \in Int
    BY <1>1, <1>3
  <2>4. Multiple(i * S, S)
    BY <2>3 DEF Multiple
  <2> QED
    BY <2>2, <2>4
<1>8. Multiple(Start(P) + i * S, S)
  BY <1>1, <1>7, MultiplesAdd
<1>9. Start(P) + i * S \in Signed
  <2>1. - Half <= Start(P) /\ Start(P) + Z <= Half
    BY StartShape, SignedBlock DEF Signed
  <2> QED
    BY <1>1, <1>4, <1>5, <2>1 DEF Signed
<1> QED
  BY <1>4, <1>5, <1>6, <1>8, <1>9

LEMMA LeastIsMin ==
  ASSUME NEW S, \E x \in S : \A y \in S : x <= y
  PROVE  Min(S) \in S /\ \A y \in S : Min(S) <= y
BY DEF Min

LEMMA FirstFree ==
  ASSUME NEW P \in Cidrs, NEW t \in 0..W, NEW u, CanAllocate(P, t, u)
  PROVE  /\ Min(FreeStarts(P, t, u)) \in FreeStarts(P, t, u)
         /\ \A s \in FreeStarts(P, t, u) : Min(FreeStarts(P, t, u)) <= s
<1> DEFINE F == FreeStarts(P, t, u)
           T == {i \in Nat : Start(P) + i * Size(t) \in F}
<1>1. Size(t) \in Nat \ {0} /\ Start(P) \in Int
  BY SizeType, Signs
<1>2. \A s \in F : \E i \in T : s = Start(P) + i * Size(t)
  BY DEF FreeStarts
<1>3. T # {}
  BY <1>2 DEF CanAllocate
<1>4. PICK i \in T : \A j \in T : i <= j
  BY <1>3, LeastNat
<1>5. \A j \in T : Start(P) + i * Size(t) <= Start(P) + j * Size(t)
  <2> SUFFICES ASSUME NEW j \in T PROVE Start(P) + i * Size(t) <= Start(P) + j * Size(t)
    OBVIOUS
  <2>1. Size(t) * i <= Size(t) * j /\ i \in Nat /\ j \in Nat
    BY <1>1, <1>4, Monotone
  <2>2. /\ Size(t) * i = i * Size(t) /\ i * Size(t) \in Int
        /\ Size(t) * j = j * Size(t) /\ j * Size(t) \in Int
    BY <1>1, <2>1
  <2> QED
    BY <1>1, <2>1, <2>2
<1>6. \E x \in F : \A y \in F : x <= y
  BY <1>2, <1>4, <1>5
<1> QED
  BY <1>6, LeastIsMin

\* The block given out, for pools that do not span all addresses.
LEMMA AllocatedShape ==
  ASSUME NEW P \in Cidrs, P.prefix \in 1..W, NEW t \in 1..W, NEW u,
         CanAllocate(P, t, u)
  PROVE  LET s == Min(FreeStarts(P, t, u)) IN
         /\ s \in Signed /\ Multiple(s, Size(t)) /\ s \notin UsedStarts(t, u)
         /\ AllocatedCidr(P, t, u) = [ip |-> ToUnsigned(s), prefix |-> t]
<1>1. Min(FreeStarts(P, t, u)) \in FreeStarts(P, t, u)
  BY FirstFree
<1> QED
  BY <1>1, Candidates DEF FreeStarts, AllocatedCidr

LEMMA AllocatedIsCidr ==
  ASSUME NEW P \in Cidrs, NEW t \in 0..W, NEW u, CanAllocate(P, t, u)
  PROVE  AllocatedCidr(P, t, u) \in Cidrs
<1>1. Size(t) \in Nat \ {0} /\ Start(P) \in Int
  BY SizeType, Signs
<1>2. \A i \in Nat : i * Size(t) \in Int
  BY <1>1
<1>3. Min(FreeStarts(P, t, u)) \in Int
  BY <1>1, <1>2, FirstFree DEF FreeStarts
<1>4. Pow2[W] \in Nat \ {0}
  BY Pow2Positive, WidthAssumption
<1>5. Min(FreeStarts(P, t, u)) % Pow2[W] \in 0..(Pow2[W] - 1)
  BY <1>3, <1>4, Quotient
<1> QED
  BY <1>5 DEF AllocatedCidr, ToUnsigned, Cidrs, Addresses

\* A block that begins where it says it does.
LEMMA AlignedBlock ==
  ASSUME NEW p \in 1..W, NEW s \in Signed, Multiple(s, Size(p)),
         NEW c, c = [ip |-> ToUnsigned(s), prefix |-> p]
  PROVE  c \in Cidrs /\ Base(c) = c.ip /\ Start(c) = s
<1>1. c.ip \in Addresses /\ c.prefix = p /\ c.ip = ToUnsigned(s) /\ p \in 0..W /\ p # 0
  BY SignedBack, WidthAssumption
<1>2. c.ip % Size(p) = 0
  BY <1>1, SizeType, SignedBlock, NoRemainder
<1>3. c.ip \in Int
  BY <1>1, Halves DEF Addresses
<1>4. Base(c) = c.ip
  BY <1>1, <1>2, <1>3 DEF Base
<1>5. c \in Cidrs
  BY <1>1 DEF Cidrs
<1>6. Start(c) = ToSigned(c.ip)
  BY <1>1, <1>4 DEF Start, Base
<1> QED
  BY <1>1, <1>4, <1>5, <1>6, SignedBack

\* Two blocks of one size are the same or have nothing in common.
LEMMA BlocksApart ==
  ASSUME NEW c \in Cidrs, NEW d \in Cidrs, c.prefix \in 1..W, d.prefix = c.prefix,
         Start(c) # Start(d)
  PROVE  ~ Overlap(c, d)
<1> DEFINE S == Size(c.prefix)
<1>1. /\ S \in Nat \ {0} /\ Base(c) \in Int /\ Base(d) \in Int
      /\ Multiple(Base(c), S) /\ Multiple(Base(d), S)
      /\ Block(c) = Base(c) .. Base(c) + S - 1 /\ Block(d) = Base(d) .. Base(d) + S - 1
  BY SizeType, StartShape, Halves DEF Addresses
<1>2. Base(c) # Base(d)
  BY StartShape, SignedBack
<1>3. Base(c) + S <= Base(d) \/ Base(d) + S <= Base(c)
  BY <1>1, <1>2, MultiplesApart
<1> QED
  BY <1>1, <1>3 DEF Overlap
-----------------------------------------------------------------------------
(* The allocation is right. *)

\* An address of the pool in signed numbers: as far from the pool's start as it is from
\* its first address.
LEMMA InPool ==
  ASSUME NEW P \in Cidrs, P.prefix \in 1..W, NEW k \in 0..(Size(P.prefix) - 1)
  PROVE  /\ Start(P) + k \in Signed /\ ToUnsigned(Start(P) + k) = Base(P) + k
         /\ ToSigned(Base(P) + k) = Start(P) + k
         /\ Base(P) + k \in Addresses
BY StartShape, SameSide, SignedBack

\* What allocateNext gives out, by its distance from the pool's first address.
LEMMA AllocatedPlace ==
  ASSUME NEW P \in Cidrs, P.prefix \in 1..W, NEW t \in 1..W, NEW u,
         NEW s \in FreeStarts(P, t, u)
  PROVE  /\ s - Start(P) \in 0..(Size(P.prefix) - Size(t))
         /\ s \in Signed /\ Multiple(s, Size(t)) /\ s \notin UsedStarts(t, u)
         /\ ToUnsigned(s) = Base(P) + (s - Start(P))
<1> DEFINE Z == Size(P.prefix)
           S == Size(t)
<1>1. S \in Nat \ {0} /\ Z \in Nat \ {0} /\ Start(P) \in Int
  BY SizeType, Signs
<1>2. PICK i \in 0..(Z \div S - 1) : s = Start(P) + i * S
  BY DEF FreeStarts
<1>3. /\ s \in Signed /\ Multiple(s, S) /\ i * S + S <= Z /\ i * S \in Nat
  BY <1>2, Candidates
<1>4. PICK k \in Nat : k = i * S /\ s = Start(P) + k /\ k + S <= Z
  BY <1>2, <1>3
<1>5. k \in 0..(Z - 1) /\ s - Start(P) = k /\ k \in 0..(Z - S)
  BY <1>1, <1>4
<1>6. ToUnsigned(s) = Base(P) + k
  BY <1>4, <1>5, InPool
<1> QED
  BY <1>3, <1>5, <1>6 DEF FreeStarts

\* And every free block of the pool is a candidate.
LEMMA FreeIsCandidate ==
  ASSUME NEW P \in Cidrs, P.prefix \in 1..W, NEW t \in 1..W, NEW u \in SUBSET Cidrs,
         NEW c \in Free(P, t, u)
  PROVE  ToSigned(c.ip) \in FreeStarts(P, t, u) /\ c.ip \in Addresses
<1> DEFINE Z == Size(P.prefix)
           S == Size(t)
           b == Base(P)
           s == ToSigned(c.ip)
<1>1. /\ S \in Nat \ {0} /\ Z \in Nat \ {0} /\ Start(P) \in Int /\ b \in Int /\ 0 <= b
      /\ Block(P) = b .. b + Z - 1 /\ Multiple(b, Z)
  BY SizeType, Signs, StartShape, Halves DEF Addresses
<1>2. /\ c.prefix = t /\ c.ip % S = 0 /\ Block(c) \subseteq Block(P) /\ c.ip \in Block(P)
      /\ \A d \in u : d.prefix = t => ~ Overlap(c, d)
  BY DEF Free, BlocksIn
<1>3. PICK k \in 0..(Z - 1) : c.ip = b + k
  <2>1. c.ip - b \in 0..(Z - 1) /\ c.ip = b + (c.ip - b)
    BY <1>1, <1>2
  <2> QED
    BY <2>1
<1>4. c.ip \in Addresses /\ s = Start(P) + k
  BY <1>3, InPool
<1>5. Block(c) = c.ip .. c.ip + S - 1
  BY <1>1, <1>2, <1>3 DEF Block
<1>6. k + S <= Z
  <2>1. c.ip + S - 1 \in Block(c)
    BY <1>1, <1>3, <1>5
  <2> QED
    BY <1>1, <1>2, <1>3, <2>1
<1>7. Multiple(Z, S)
  <2>1. ~ (t < P.prefix)
    BY <1>1, <1>6, SizeOrder
  <2> QED
    BY <2>1, SizeOrder
<1>8. PICK j \in Int : k = S * j
  <2>1. Multiple(b, S)
    BY <1>1, <1>7, MultiplesChain
  <2>2. c.ip = S * (c.ip \div S) + (c.ip % S) /\ c.ip \div S \in Int
    <3> HIDE DEF S, b
    <3> QED
      BY <1>1, <1>3, Quotient
  <2>3. Multiple(c.ip, S)
    BY <1>1, <1>2, <1>3, <2>2 DEF Multiple
  <2>4. Multiple(c.ip - b, S)
    BY <1>1, <2>1, <2>3, MultiplesAdd
  <2> QED
    BY <1>1, <1>3, <2>4 DEF Multiple
<1>9. j \in 0..(Z \div S - 1)
  <2>1. PICK q \in Int : q = Z \div S /\ Z = S * q
    <3>1. PICK q \in Int : Z = S * q
      BY <1>7 DEF Multiple
    <3>2. Z = S * q + 0 /\ 0 \in 0..(S - 1)
      BY <1>1, <3>1
    <3>3. Z \div S = q
      BY <1>1, <3>2, Remainder
    <3> QED
      BY <3>1, <3>3
  <2>2. j >= 0
    <3>1. j <= -1 => S * j <= S * (-1) /\ S * (-1) = - S
      BY <1>1, Monotone
    <3> QED
      BY <1>1, <1>8, <3>1
  <2>3. j < q
    <3>1. j >= q => S * q <= S * j
      BY <1>1, <2>1, Monotone
    <3>2. S * j = k /\ k < Z /\ S * q = Z /\ k \in Int
      BY <1>1, <1>6, <1>8, <2>1
    <3> HIDE DEF S, Z
    <3> QED
      BY <1>1, <2>1, <3>1, <3>2
  <2> QED
    BY <2>1, <2>2, <2>3
<1>10. s = Start(P) + j * S
  BY <1>1, <1>4, <1>8
<1>11. s \notin UsedStarts(t, u)
  <2> SUFFICES ASSUME NEW d \in u, d.prefix = t, Start(d) = s PROVE FALSE
    BY DEF UsedStarts
  <2>1. Base(d) = c.ip
    BY <1>4, StartShape, UnsignedBack
  <2>2. c.ip \in Block(d)
    <3>1. d \in Cidrs
      OBVIOUS
    <3> QED
      BY <1>1, <1>3, <2>1, <3>1, StartShape
  <2>3. c.ip \in Block(c)
    BY <1>1, <1>3, <1>5
  <2> QED
    BY <1>2, <2>2, <2>3 DEF Overlap
<1> QED
  BY <1>4, <1>9, <1>10, <1>11 DEF FreeStarts

LEMMA SizeAtLeastFour == ASSUME NEW p \in 1..(W - 2) PROVE Size(p) >= 4
<1>1. PICK k \in Nat : W - p = (k + 1) + 1
  <2>1. W - p - 2 \in Nat /\ W - p = ((W - p - 2) + 1) + 1
    BY WidthAssumption
  <2> QED
    BY <2>1
<1>2. Pow2[(k + 1) + 1] = 2 * (2 * Pow2[k]) /\ Pow2[k] \in Nat \ {0}
  BY Pow2Steps, Pow2Positive
<1> QED
  BY <1>1, <1>2 DEF Size

\* The allocation for any inputs that may occur.
LEMMA AllocationRight ==
  ASSUME pool \in Pools, target \in Targets, used \in SUBSET Pools
  PROVE  AllocationIsCorrect
<1> DEFINE a == AllocatedCidr(pool, target, used)
           s == Min(FreeStarts(pool, target, used))
           S == Size(target)
<1>1. /\ pool \in Cidrs /\ pool.prefix \in 1..W /\ target \in 1..W /\ used \in SUBSET Cidrs
      /\ target \in 0..W /\ target \in 1..(W - 2)
  BY WidthAssumption DEF Pools, Targets, Cidrs
<1>2. S \in Nat /\ S >= 4
  BY <1>1, SizeType, SizeAtLeastFour
<1>3. ASSUME CanAllocate(pool, target, used)
      PROVE  /\ s \in FreeStarts(pool, target, used) /\ s \in Signed
             /\ \A r \in FreeStarts(pool, target, used) : s <= r
             /\ Multiple(s, S) /\ s \notin UsedStarts(target, used)
             /\ s - Start(pool) \in 0..(Size(pool.prefix) - S)
             /\ a = [ip |-> ToUnsigned(s), prefix |-> target]
             /\ a \in Cidrs /\ Base(a) = a.ip /\ Start(a) = s
             /\ a.ip = Base(pool) + (s - Start(pool))
  BY <1>1, <1>3, FirstFree, AllocatedPlace, AlignedBlock DEF AllocatedCidr
<1>4. CanAllocate(pool, target, used) => a \in Free(pool, target, used)
  <2> SUFFICES ASSUME CanAllocate(pool, target, used) PROVE a \in Free(pool, target, used)
    OBVIOUS
  <2>1. /\ Block(pool) = Base(pool) .. Base(pool) + Size(pool.prefix) - 1
        /\ Block(a) = a.ip .. a.ip + S - 1 /\ a.ip \in Int
        /\ Base(pool) \in Int /\ a.prefix = target
    BY <1>1, <1>3, StartShape, Halves DEF Addresses
  <2>2. PICK k \in 0..(Size(pool.prefix) - S) : a.ip = Base(pool) + k
    BY <1>3
  <2>3. Size(pool.prefix) \in Nat
    BY <1>1, SizeType
  <2>4. a.ip \in Block(pool) /\ Block(a) \subseteq Block(pool)
    BY <1>2, <2>1, <2>2, <2>3
  <2>5. a.ip % S = 0
    BY <1>1, <1>2, <1>3, SignedBlock, NoRemainder
  <2>6. ASSUME NEW d \in used, d.prefix = target PROVE ~ Overlap(a, d)
    <3>1. Start(d) \in UsedStarts(target, used)
      BY <2>6 DEF UsedStarts
    <3> QED
      BY <1>1, <1>3, <2>1, <2>6, <3>1, BlocksApart
  <2> QED
    BY <1>3, <2>1, <2>4, <2>5, <2>6 DEF Free, BlocksIn
<1>5. ASSUME NEW c \in Free(pool, target, used)
      PROVE  CanAllocate(pool, target, used) /\ a.ip <= c.ip
  <2> DEFINE r == ToSigned(c.ip)
  <2>1. r \in FreeStarts(pool, target, used) /\ ToUnsigned(r) = c.ip
    BY <1>1, FreeIsCandidate, UnsignedBack
  <2>2. CanAllocate(pool, target, used)
    BY <2>1 DEF CanAllocate
  <2>3. c.ip = Base(pool) + (r - Start(pool)) /\ r - Start(pool) \in Int /\ r \in Int
    BY <1>1, <2>1, AllocatedPlace DEF Signed
  <2>4. s <= r /\ s \in Int /\ a.ip = Base(pool) + (s - Start(pool)) /\ s - Start(pool) \in Int
    BY <1>3, <2>1, <2>2 DEF Signed
  <2>5. Base(pool) \in Int /\ Start(pool) \in Int
    BY <1>1, StartShape, Halves DEF Addresses, Signed
  <2> QED
    BY <2>2, <2>3, <2>4, <2>5
<1>6. ASSUME CanAllocate(pool, target, used)
      PROVE  LET r == AllocatedRange(pool, target, used) IN
             a.ip < r.poolStart /\ r.poolStart <= r.poolEnd /\ r.poolEnd < a.ip + S - 1
  <2>1. 1 \in 0..(S - 1) /\ S - 2 \in 0..(S - 1) /\ s + S - 2 = s + (S - 2)
    BY <1>2, <1>3, <1>6 DEF Signed
  <2>2. ToUnsigned(s + 1) = a.ip + 1 /\ ToUnsigned(s + S - 2) = a.ip + (S - 2)
    BY <1>1, <1>3, <1>6, <2>1, SameSide
  <2>3. a.ip \in Int
    BY <1>3, <1>6, SignedBack, Halves DEF Addresses
  <2> QED
    BY <1>2, <2>2, <2>3 DEF AllocatedRange, HostRange
<1> QED
  BY <1>4, <1>5, <1>6 DEF AllocationIsCorrect, AllocationIsFree, AllocationIsNext,
     RangeInsideBlock, Allocated

\* For every width, pool, target and set of used blocks, allocateNext gives out the first
\* free block of the pool, with a range inside it, and throws only if there is none: its
\* signed arithmetic does not show (AllocationIsCorrect).
THEOREM AllocationCorrect == AllocationSpec => []AllocationIsCorrect
<1> DEFINE Inv == pool \in Pools /\ target \in Targets /\ used \in SUBSET Pools
<1>1. AllocationInit => Inv
  BY DEF AllocationInit
<1>2. Inv /\ [AddRoute]_<<pool, target, used>> => Inv'
  BY DEF AddRoute
<1>3. Inv => AllocationIsCorrect
  BY AllocationRight
<1> QED
  BY <1>1, <1>2, <1>3, PTL DEF AllocationSpec
-----------------------------------------------------------------------------
(* Types. *)

\* From the settings it has read on, a creation knows its prefix; from the
\* allocation on, there is a block to give out.
Fetching == {"create", "list", "inspect", "private", "easy"}
SettingsRead == \A o \in Creates : pc[o] \in Fetching => config[o] \in Prefixes
RoomFound ==
    \A o \in Creates :
        pc[o] \in {"private", "easy"} => CanAllocate(Pool, config[o], found[o])

Places == {"idle", "queued", "create", "list", "inspect", "private", "easy",
           "returning", "failing", "created", "failed"}

Typed == TypeOK /\ SettingsRead /\ RoomFound

LEMMA EffectTyped ==
  ASSUME NEW q \in Posted, nets \in [Creates -> Nets]
  PROVE  Effect(q) \in [Creates -> Nets]
<1>1. Absent \in Nets /\ [Absent EXCEPT !.there = TRUE] \in Nets
  BY DEF Absent, Nets
<1>2. /\ [nets[q.net] EXCEPT !.private = TRUE] \in Nets
      /\ [nets[q.net] EXCEPT !.route = q.route] \in Nets
  BY DEF Nets, Posted
<1> QED
  BY <1>1, <1>2 DEF Effect

LEMMA InitTyped == Init => Typed
<1> SUFFICES ASSUME Init PROVE Typed
  OBVIOUS
<1>1. Absent \in Nets
  BY DEF Absent, Nets
<1>2. TypeOK
  BY <1>1, CreateAssumption DEF Init, TypeOK
<1> QED
  BY <1>2 DEF Init, Typed, SettingsRead, RoomFound, Fetching

\* A failure is counted, and its kind kept.
LEMMA FaultTyped ==
  ASSUME faults \in [count : 0..MaxFaults, kinds : SUBSET Faults],
         NoFault \/ \E f \in {"refused", "late", "crash"} : Fault(f)
  PROVE  /\ faults' \in [count : 0..MaxFaults, kinds : SUBSET Faults]
         /\ faults.kinds \subseteq faults'.kinds
BY CreateAssumption DEF NoFault, Fault

\* What an answer, a refusal and an abort have in common.
LEMMA PostTyped ==
  ASSUME Typed, NEW o \in Creates, NEW next \in {"list", "easy", "returning"},
         NEW q \in Posted,
         Post(o, q, next), UNCHANGED locals,
         next \in Fetching => pc[o] \in Fetching, next = "easy" => pc[o] = "private"
  PROVE  Typed'
<1>1. PICK l \in {"list", "easy", "returning", "failing"} :
        /\ Go(o, l) /\ l \in {next, "failing"}
        /\ nets' \in {nets, Effect(q)} /\ late' \in {late, late \cup {q}}
  BY DEF Post
<1>2. NoFault \/ \E f \in {"refused", "late", "crash"} : Fault(f)
  BY DEF Post
<1>3. Effect(q) \in [Creates -> Nets]
  BY EffectTyped DEF Typed, TypeOK
<1>4. TypeOK'
  BY <1>1, <1>2, <1>3, FaultTyped DEF Typed, TypeOK, Post, locals, Go
<1>5. SettingsRead' /\ RoomFound'
  BY <1>1 DEF Typed, TypeOK, SettingsRead, RoomFound, Fetching, Post, locals, Go
<1> QED
  BY <1>4, <1>5 DEF Typed

LEMMA StepTyped == Typed /\ [Next]_vars => Typed'
<1> SUFFICES ASSUME Typed, [Next]_vars PROVE Typed'
  OBVIOUS
<1>1. ASSUME NEW o \in Creates, Call(o) PROVE Typed'
  <2>1. Lock!Present("controller") \subseteq Creates
    BY DEF Lock!Present
  <2>2. ahead' \in [Creates -> SUBSET Creates]
    BY <1>1, <2>1 DEF Typed, TypeOK, Call, Lock!Ask
  <2> QED
    BY <1>1, <2>2 DEF Typed, TypeOK, SettingsRead, RoomFound, Fetching, Call, Go, locals
<1>2. ASSUME NEW o \in Creates, Enter(o) PROVE Typed'
  <2>1. NoFault \/ \E f \in {"refused", "late", "crash"} : Fault(f)
    BY <1>2 DEF Enter
  <2>2. UNCHANGED <<prefix, todo, found, nets, late, ahead, edits>>
    BY <1>2 DEF Enter
  <2>3. faults' \in [count : 0..MaxFaults, kinds : SUBSET Faults]
    BY <2>1, FaultTyped DEF Typed, TypeOK
  <2>4. PICK l \in {"create", "failing"} : Go(o, l)
    BY <1>2 DEF Enter
  <2>5. config' \in [Creates -> Prefixes \cup {None}]
    BY <1>2 DEF Typed, TypeOK, Enter
  <2>6. TypeOK'
    BY <2>2, <2>3, <2>4, <2>5 DEF Typed, TypeOK, Go
  <2> QED
    BY <1>2, <2>2, <2>6 DEF Typed, TypeOK, SettingsRead, RoomFound, Fetching, Enter, Go
<1>3. ASSUME NEW o \in Creates, CreateNetwork(o) PROVE Typed'
  <2>1. Request("create", o, None) \in Posted
    BY DEF Request, Posted
  <2> QED
    BY <1>3, <2>1, PostTyped DEF CreateNetwork, At, Fetching
<1>4. ASSUME NEW o \in Creates, ListNetworks(o) PROVE Typed'
  <2>1. NoFault \/ \E f \in {"refused", "late", "crash"} : Fault(f)
    BY <1>4 DEF ListNetworks
  <2>2. faults' \in [count : 0..MaxFaults, kinds : SUBSET Faults]
    BY <2>1, FaultTyped DEF Typed, TypeOK
  <2>3. PICK l \in {"inspect", "failing"} : Go(o, l)
    BY <1>4 DEF ListNetworks
  <2>4. todo' \in [Creates -> SUBSET Creates]
    BY <1>4 DEF Typed, TypeOK, ListNetworks, There
  <2>5. TypeOK'
    BY <1>4, <2>2, <2>3, <2>4 DEF Typed, TypeOK, ListNetworks, Go
  <2> QED
    BY <1>4, <2>5 DEF Typed, TypeOK, SettingsRead, RoomFound, Fetching, ListNetworks, Go, At
<1>5. ASSUME NEW o \in Creates, Inspect(o) PROVE Typed'
  <2>1. NoFault \/ \E f \in {"refused", "late", "crash"} : Fault(f)
    BY <1>5 DEF Inspect
  <2>2. PICK n \in todo[o] :
        \/ /\ todo' = [todo EXCEPT ![o] = @ \ {n}]
           /\ found' = [found EXCEPT ![o] = @ \cup ({nets[n].route} \ {None})]
           /\ UNCHANGED pc
        \/ Go(o, "failing") /\ UNCHANGED <<todo, found>>
    BY <1>5 DEF Inspect
  <2>3. nets[n].route \in Cidrs \cup {None} /\ o \in Creates
    BY <2>2 DEF Typed, TypeOK, Nets
  <2>4. UNCHANGED <<prefix, config, nets, late, ahead, edits>> /\ pc[o] = "inspect"
    BY <1>5 DEF Inspect, At
  <2>5. faults' \in [count : 0..MaxFaults, kinds : SUBSET Faults]
    BY <2>1, FaultTyped DEF Typed, TypeOK
  <2>6. todo' \in [Creates -> SUBSET Creates] /\ found' \in [Creates -> SUBSET Cidrs]
    BY <2>2, <2>3 DEF Typed, TypeOK
  <2>7. TypeOK'
    BY <2>2, <2>4, <2>5, <2>6 DEF Typed, TypeOK, Go
  <2> QED
    BY <2>2, <2>4, <2>7 DEF Typed, TypeOK, SettingsRead, RoomFound, Fetching, Go
<1>6. ASSUME NEW o \in Creates, Allocate(o) PROVE Typed'
  BY <1>6 DEF Typed, TypeOK, SettingsRead, RoomFound, Fetching, Allocate, Go, At, locals
<1>7. ASSUME NEW o \in Creates, SetPrivate(o) PROVE Typed'
  <2>1. Request("private", o, None) \in Posted
    BY DEF Request, Posted
  <2> QED
    BY <1>7, <2>1, PostTyped DEF SetPrivate, At, Fetching
<1>8. ASSUME NEW o \in Creates, EasySetup(o) PROVE Typed'
  <2>1. config[o] \in Prefixes /\ CanAllocate(Pool, config[o], found[o])
    BY <1>8 DEF EasySetup, At, Typed, SettingsRead, RoomFound, Fetching
  <2>2. AllocatedCidr(Pool, config[o], found[o]) \in Cidrs
    <3>1. Prefixes \subseteq 1..(W - 2) /\ Pool \in Cidrs
      BY CreateAssumption
    <3>2. 1..(W - 2) \subseteq 0..W
      BY WidthAssumption
    <3>3. config[o] \in 0..W
      BY <2>1, <3>1, <3>2
    <3> QED
      BY <2>1, <3>1, <3>3, AllocatedIsCidr
  <2>3. Request("easy", o, AllocatedCidr(Pool, config[o], found[o])) \in Posted
    BY <2>2 DEF Request, Posted
  <2> QED
    BY <1>8, <2>3, PostTyped DEF EasySetup, Fetching
<1>9. ASSUME NEW o \in Creates, Finish(o) PROVE Typed'
  <2>1. ahead' \in [Creates -> SUBSET Creates]
    BY <1>9 DEF Typed, TypeOK, Finish, Lock!Leave
  <2> QED
    BY <1>9, <2>1 DEF Typed, TypeOK, SettingsRead, RoomFound, Fetching, Finish, Go
<1>10. ASSUME NEW n \in Creates, RemoveNetwork(n) PROVE Typed'
  <2>1. Request("delete", n, None) \in Posted
    BY DEF Request, Posted
  <2>2. Effect(Request("delete", n, None)) \in [Creates -> Nets]
    BY <2>1, EffectTyped DEF Typed, TypeOK
  <2>3. NoFault \/ \E f \in {"refused", "late", "crash"} : Fault(f)
    BY <1>10 DEF RemoveNetwork
  <2>4. TypeOK'
    BY <1>10, <2>1, <2>2, <2>3, FaultTyped DEF Typed, TypeOK, RemoveNetwork, locals
  <2> QED
    BY <1>10, <2>4 DEF Typed, SettingsRead, RoomFound, RemoveNetwork, locals
<1>11. CASE LateRequest
  <2>1. PICK q \in late : nets' = Effect(q) /\ late' = late \ {q}
    BY <1>11 DEF LateRequest
  <2>2. nets' \in [Creates -> Nets]
    BY <2>1, EffectTyped DEF Typed, TypeOK
  <2> QED
    BY <1>11, <2>1, <2>2 DEF Typed, TypeOK, SettingsRead, RoomFound, LateRequest, locals
<1>12. CASE EditPrefix
  BY <1>12, CreateAssumption DEF Typed, TypeOK, SettingsRead, RoomFound, EditPrefix, locals
<1>13. CASE Crash
  <2>1. TypeOK'
    BY <1>13, FaultTyped DEF Typed, TypeOK, Crash, Lock!Forget
  <2> QED
    BY <1>13, <2>1 DEF Typed, TypeOK, SettingsRead, RoomFound, Fetching, Crash
<1>14. CASE UNCHANGED vars
  BY <1>14 DEF Typed, TypeOK, SettingsRead, RoomFound, vars, locals
<1> QED
  BY <1>1, <1>2, <1>3, <1>4, <1>5, <1>6, <1>7, <1>8, <1>9, <1>10, <1>11, <1>12, <1>13, <1>14
     DEF Next, Step

\* Every variable keeps its type, whatever fails: the settings are known when a block is
\* allocated, a block is there when it is written, and what is written is an address with
\* a prefix.
THEOREM TypeCorrect == Spec => []TypeOK
<1>1. Typed => TypeOK
  BY DEF Typed
<1> QED
  BY <1>1, InitTyped, StepTyped, PTL DEF Spec
-----------------------------------------------------------------------------
(* One creation at a time holds the lock, and no two networks share a      *)
(* subnet.                                                                 *)

InsidePlaces == Fetching \cup {"returning", "failing"}
Inside(o) == pc[o] \in InsidePlaces
Present(o) == Inside(o) \/ pc[o] = "queued"

QueueOK ==
    /\ \A o \in Creates : Inside(o) => ahead[o] = {}
    /\ \A o, p \in Creates :
          o # p /\ Present(o) /\ Present(p) => o \in ahead[p] \/ p \in ahead[o]

\* Of two creations inside the lock, one would be ahead of the other.
LEMMA OneInside ==
  ASSUME QueueOK, NEW o \in Creates, NEW p \in Creates, Inside(o), Inside(p) PROVE o = p
BY DEF QueueOK, Present

LEMMA QueueStep == ASSUME Typed, QueueOK, [Next]_vars PROVE QueueOK'
<1> USE DEF QueueOK, Inside, Present, InsidePlaces, Fetching
<1>0. ahead \in [Creates -> SUBSET Creates] /\ pc \in [Creates -> Places]
  BY DEF Typed, TypeOK, Places
<1>1. ASSUME NEW o \in Creates, NEW l \in InsidePlaces, Inside(o), Go(o, l) \/ UNCHANGED pc,
             UNCHANGED ahead
      PROVE  QueueOK'
  BY <1>0, <1>1 DEF Go
<1>2. ASSUME NEW o \in Creates, Call(o) PROVE QueueOK'
  <2>1. /\ pc' = [pc EXCEPT ![o] = "queued"]
        /\ ahead' = [ahead EXCEPT ![o] = Lock!Present("controller")]
    BY <1>2 DEF Call, Go, Lock!Ask
  <2>2. \A p \in Creates : Present(p) => p \in Lock!Present("controller")
    BY <1>0 DEF Lock!Present, At
  <2> QED
    BY <1>0, <2>1, <2>2
<1>3. ASSUME NEW o \in Creates, Enter(o) PROVE QueueOK'
  <2>1. PICK l \in {"create", "failing"} : pc' = [pc EXCEPT ![o] = l]
    BY <1>3 DEF Enter, Go
  <2>2. ahead[o] = {} /\ UNCHANGED ahead /\ pc[o] = "queued"
    BY <1>3 DEF Enter, Lock!Admit, At
  <2> QED
    BY <1>0, <2>1, <2>2
<1>4. ASSUME NEW o \in Creates, CreateNetwork(o) \/ SetPrivate(o) \/ EasySetup(o) PROVE QueueOK'
  <2>1. /\ Inside(o) /\ UNCHANGED ahead
        /\ \E l \in {"list", "easy", "returning", "failing"} : Go(o, l)
    BY <1>4 DEF CreateNetwork, SetPrivate, EasySetup, Post, At
  <2> QED
    BY <1>1, <2>1
<1>5. ASSUME NEW o \in Creates, ListNetworks(o) \/ Inspect(o) \/ Allocate(o) PROVE QueueOK'
  <2>1. /\ Inside(o) /\ UNCHANGED ahead
        /\ UNCHANGED pc \/ \E l \in {"inspect", "private", "failing"} : Go(o, l)
    BY <1>5 DEF ListNetworks, Inspect, Allocate, At
  <2> QED
    BY <1>1, <2>1
<1>6. ASSUME NEW o \in Creates, Finish(o) PROVE QueueOK'
  <2>1. PICK l \in {"created", "failed"} : pc' = [pc EXCEPT ![o] = l]
    BY <1>6 DEF Finish, Go
  <2>2. ahead' = [p \in Creates |-> ahead[p] \ {o}]
    BY <1>6 DEF Finish, Lock!Leave
  <2> QED
    BY <1>0, <2>1, <2>2
<1>7. ASSUME NEW n \in Creates, RemoveNetwork(n) PROVE QueueOK'
  BY <1>7 DEF RemoveNetwork
<1>8. CASE LateRequest \/ EditPrefix \/ UNCHANGED vars
  BY <1>8 DEF LateRequest, EditPrefix, vars
<1>9. CASE Crash
  <2>1. \A o \in Creates : pc'[o] \in {"idle", "created", "failed"}
    BY <1>9 DEF Crash
  <2> QED
    BY <2>1
<1> QED
  BY <1>2, <1>3, <1>4, <1>5, <1>6, <1>7, <1>8, <1>9 DEF Next, Step

\* No request was given up on, and the prefix is as it was.
Locked == edits = 0 /\ "late" \notin faults.kinds

Routed(n) == nets[n].route # None

NothingLate == "late" \notin faults.kinds => late = {}
RoutedIsThere == \A n \in Creates : Routed(n) => nets[n].there

\* Every block has the prefix of the controller, which every creation has read.
OnePrefix ==
    /\ \A o \in Creates : pc[o] \in Fetching => config[o] = prefix
    /\ \A n \in Creates : Routed(n) => nets[n].route.prefix = prefix

\* While a creation looks at the networks, it has the route of each or has still to look at
\* it; no other creation adds one meanwhile.
Collected ==
    \A o, n \in Creates : o # n /\ Routed(n) =>
        /\ pc[o] = "inspect" => n \in todo[o] \/ nets[n].route \in found[o]
        /\ pc[o] \in {"private", "easy"} => nets[n].route \in found[o]

Apart ==
    \A n, m \in Creates :
        n # m /\ Routed(n) /\ Routed(m) => ~ Overlap(nets[n].route, nets[m].route)

SubnetInv ==
    /\ Typed /\ QueueOK /\ NothingLate /\ RoutedIsThere
    /\ Locked => OnePrefix /\ Collected /\ Apart

\* What a request leaves of the routes, as long as it writes none.
LEMMA NoRouteWritten ==
  ASSUME Typed, NEW q \in {r \in Posted : r.do # "easy"}, nets' = Effect(q)
  PROVE  /\ \A n \in Creates : Routed(n)' => Routed(n) /\ nets'[n].route = nets[n].route
         /\ RoutedIsThere => RoutedIsThere'
<1> DEFINE e == [Absent EXCEPT !.there = TRUE]
<1>0. nets \in [Creates -> Nets]
  BY DEF Typed, TypeOK
<1>1. e.there /\ e.route = None /\ Absent.route = None
  BY DEF Absent
<1>2. CASE q.do = "create"
  <2>1. nets' = [nets EXCEPT ![q.net] = e]
    BY <1>2 DEF Effect
  <2> HIDE DEF e
  <2> QED
    BY <1>0, <1>1, <2>1 DEF Routed, RoutedIsThere
<1>3. CASE q.do = "private" /\ nets[q.net].there
  <2>1. nets' = [nets EXCEPT ![q.net].private = TRUE]
    BY <1>3 DEF Effect
  <2> QED
    BY <1>0, <2>1 DEF Routed, RoutedIsThere
<1>4. CASE q.do = "delete"
  <2>1. nets' = [nets EXCEPT ![q.net] = Absent]
    BY <1>4 DEF Effect
  <2> QED
    BY <1>0, <1>1, <2>1 DEF Routed, RoutedIsThere
<1>5. CASE q.do = "private" /\ ~ nets[q.net].there
  <2>1. nets' = nets
    BY <1>5 DEF Effect
  <2> QED
    BY <2>1 DEF Routed, RoutedIsThere
<1> QED
  BY <1>2, <1>3, <1>4, <1>5 DEF Posted

\* The subnets stay apart as long as no route is written and no creation gets further
\* than it may.
LEMMA SubnetKept ==
  ASSUME SubnetInv, Typed', QueueOK', Locked' => Locked, NothingLate',
         \A n \in Creates : Routed(n)' => Routed(n) /\ nets'[n].route = nets[n].route,
         RoutedIsThere', prefix' = prefix,
         NEW o \in Creates, \A p \in Creates \ {o} : pc'[p] = pc[p],
         \A p \in Creates \ {o} :
            config'[p] = config[p] /\ todo'[p] = todo[p] /\ found'[p] = found[p],
         pc'[o] \in Fetching =>
            config'[o] = prefix \/ (pc[o] \in Fetching /\ config'[o] = config[o]),
         pc'[o] = "inspect" =>
            \A n \in Creates \ {o} : Routed(n)' =>
                \/ n \in todo'[o] \/ nets[n].route \in found'[o]
                \/ /\ pc[o] = "inspect" /\ found[o] \subseteq found'[o]
                   /\ n \in todo[o] => n \in todo'[o] \/ nets[n].route \in found'[o],
         pc'[o] \in {"private", "easy"} =>
            /\ found'[o] = found[o]
            /\ pc[o] \in {"private", "easy"} \/ (pc[o] = "inspect" /\ todo[o] = {})
  PROVE  SubnetInv'
<1> SUFFICES ASSUME Locked' PROVE OnePrefix' /\ Collected' /\ Apart'
  BY DEF SubnetInv
<1>1. OnePrefix /\ Collected /\ Apart
  BY DEF SubnetInv
<1>2. OnePrefix'
  BY <1>1 DEF OnePrefix
<1>3. Collected'
  <2> SUFFICES ASSUME NEW p \in Creates, NEW n \in Creates, p # n, Routed(n)'
               PROVE  /\ pc'[p] = "inspect" => n \in todo'[p] \/ nets'[n].route \in found'[p]
                      /\ pc'[p] \in {"private", "easy"} => nets'[n].route \in found'[p]
    BY DEF Collected
  <2>1. Routed(n) /\ nets'[n].route = nets[n].route
    OBVIOUS
  <2>2. CASE p # o
    BY <1>1, <2>1, <2>2 DEF Collected
  <2>3. CASE p = o
    BY <1>1, <2>1, <2>3 DEF Collected
  <2> QED
    BY <2>2, <2>3
<1>4. Apart'
  BY <1>1 DEF Apart
<1> QED
  BY <1>2, <1>3, <1>4

\* A failure is never forgotten, nor is an edit; a request is given up on with a failure.
LEMMA LockedStays ==
  ASSUME Typed, NothingLate, [Next]_vars
  PROVE  (Locked' => Locked) /\ NothingLate'
<1> DEFINE Grows == NoFault \/ \E f \in {"refused", "late", "crash"} : Fault(f)
           Given == late' \subseteq late \/ Fault("late")
<1>0. edits \in Nat
  BY CreateAssumption DEF Typed, TypeOK
<1>1. ASSUME Grows, UNCHANGED edits \/ edits' = edits + 1, Given
      PROVE  (Locked' => Locked) /\ NothingLate'
  BY <1>0, <1>1, FaultTyped DEF Typed, TypeOK, Locked, NothingLate, NoFault, Fault
<1>2. ASSUME NEW o \in Creates, Call(o) \/ Step(o) \/ RemoveNetwork(o)
      PROVE  Grows /\ UNCHANGED edits /\ Given
  <2>1. CASE CreateNetwork(o) \/ SetPrivate(o) \/ EasySetup(o)
    BY <2>1 DEF CreateNetwork, SetPrivate, EasySetup, Post
  <2>2. CASE Call(o) \/ Enter(o) \/ ListNetworks(o) \/ Inspect(o) \/ Allocate(o) \/ Finish(o)
    BY <2>2 DEF Call, Enter, ListNetworks, Inspect, Allocate, Finish, NoFault
  <2>3. CASE RemoveNetwork(o)
    BY <2>3 DEF RemoveNetwork
  <2> QED
    BY <1>2, <2>1, <2>2, <2>3 DEF Step
<1>3. CASE LateRequest \/ EditPrefix \/ Crash \/ UNCHANGED vars
  <2>1. Grows /\ (UNCHANGED edits \/ edits' = edits + 1) /\ Given
    BY <1>3 DEF LateRequest, EditPrefix, Crash, vars, NoFault
  <2> QED
    BY <1>1, <2>1
<1>4. CASE \E o \in Creates : Call(o) \/ Step(o) \/ RemoveNetwork(o)
  <2>1. Grows /\ UNCHANGED edits /\ Given
    BY <1>2, <1>4
  <2> QED
    BY <1>1, <2>1
<1> QED
  BY <1>3, <1>4 DEF Next

\* The block a creation writes does not overlap the ones it has collected.
LEMMA WrittenApart ==
  ASSUME SubnetInv, Pool.prefix # 0, Locked, NEW o \in Creates, pc[o] = "easy",
         NEW n \in Creates \ {o}, Routed(n)
  PROVE  LET c == AllocatedCidr(Pool, config[o], found[o]) IN
         ~ Overlap(c, nets[n].route) /\ ~ Overlap(nets[n].route, c)
<1> DEFINE p == config[o]
           u == found[o]
           c == AllocatedCidr(Pool, p, u)
           d == nets[n].route
           s == Min(FreeStarts(Pool, p, u))
<1>1. p \in Prefixes /\ CanAllocate(Pool, p, u)
  BY DEF SubnetInv, Typed, SettingsRead, RoomFound, Fetching
<1>2. p \in 1..W /\ Pool \in Cidrs /\ Pool.prefix \in 1..W
  <2>1. p \in 1..(W - 2) /\ Pool \in Cidrs
    BY <1>1, CreateAssumption
  <2>2. Pool.prefix \in 0..W
    BY <2>1 DEF Cidrs
  <2> HIDE DEF p
  <2> QED
    BY <2>1, <2>2, WidthAssumption
<1>3. d \in Cidrs /\ d.prefix = p /\ d \in u
  BY DEF SubnetInv, Typed, TypeOK, OnePrefix, Collected, Routed, Fetching
<1>4. /\ s \in Signed /\ Multiple(s, Size(p)) /\ s \notin UsedStarts(p, u)
      /\ c = [ip |-> ToUnsigned(s), prefix |-> p]
  BY <1>1, <1>2, AllocatedShape
<1>5. c \in Cidrs /\ Start(c) = s /\ c.prefix = p
  <2> HIDE DEF p, s, u, c
  <2> QED
    BY <1>2, <1>4, AlignedBlock
<1>6. Start(d) \in UsedStarts(p, u)
  BY <1>3 DEF UsedStarts
<1>7. ~ Overlap(c, d)
  <2> HIDE DEF p, s, u, c, d
  <2> QED
    BY <1>2, <1>3, <1>4, <1>5, <1>6, BlocksApart
<1> QED
  BY <1>7 DEF Overlap

LEMMA SubnetPost ==
  ASSUME SubnetInv, Typed', QueueOK', Locked' => Locked, NothingLate', NEW o \in Creates,
         CreateNetwork(o) \/ SetPrivate(o)
  PROVE  SubnetInv'
<1>0. pc \in [Creates -> Places] /\ pc[o] \in Fetching
  BY DEF SubnetInv, Typed, TypeOK, Places, Fetching, CreateNetwork, SetPrivate, At
<1>1. PICK q \in {r \in Posted : r.do # "easy"},
           l \in {"list", "easy", "failing"} :
        /\ nets' \in {nets, Effect(q)} /\ Go(o, l)
        /\ l = "easy" => pc[o] = "private"
  <2>1. /\ Request("create", o, None) \in {r \in Posted : r.do # "easy"}
        /\ Request("private", o, None) \in {r \in Posted : r.do # "easy"}
    BY DEF Request, Posted
  <2>2. CASE CreateNetwork(o)
    BY <2>1, <2>2 DEF CreateNetwork, Post
  <2>3. CASE SetPrivate(o)
    BY <2>1, <2>3 DEF SetPrivate, Post, At
  <2> QED
    BY <2>2, <2>3
<1>2. UNCHANGED <<locals, prefix>>
  BY DEF CreateNetwork, SetPrivate, Post
<1>3. /\ \A n \in Creates : Routed(n)' => Routed(n) /\ nets'[n].route = nets[n].route
      /\ RoutedIsThere'
  <2>1. CASE nets' = nets
    BY <2>1 DEF SubnetInv, Routed, RoutedIsThere
  <2>2. CASE nets' = Effect(q)
    BY <2>2, NoRouteWritten DEF SubnetInv
  <2> QED
    BY <1>1, <2>1, <2>2
<1>4. pc' = [pc EXCEPT ![o] = l]
  BY <1>1 DEF Go
<1> QED
  BY <1>0, <1>1, <1>2, <1>3, <1>4, SubnetKept DEF locals

LEMMA SubnetSetup ==
  ASSUME SubnetInv, Pool.prefix # 0, Typed', QueueOK', Locked' => Locked, NothingLate',
         NEW o \in Creates, EasySetup(o)
  PROVE  SubnetInv'
<1> DEFINE c == AllocatedCidr(Pool, config[o], found[o])
           q == Request("easy", o, c)
<1>0. /\ pc[o] = "easy" /\ Post(o, q, "returning") /\ UNCHANGED locals
      /\ pc \in [Creates -> Places] /\ DOMAIN nets = Creates
      /\ nets \in [Creates -> Nets]
  BY DEF EasySetup, At, SubnetInv, Typed, TypeOK, Places, Fetching
<1>1. PICK l \in {"returning", "failing"} : pc' = [pc EXCEPT ![o] = l]
  BY <1>0 DEF Post, Go
<1>2. nets' = nets \/ nets' = Effect(q)
  BY <1>0 DEF Post
<1>3. prefix' = prefix /\ UNCHANGED <<config, todo, found>>
  BY <1>0 DEF Post, locals
<1>4. CASE nets' = nets
  BY <1>0, <1>1, <1>3, <1>4, SubnetKept DEF SubnetInv, Routed, RoutedIsThere, Fetching
<1>5. CASE nets' = [nets EXCEPT ![o].route = c] /\ nets[o].there
  <2>1. /\ \A n \in Creates \ {o} : nets'[n] = nets[n]
        /\ nets'[o].there /\ nets'[o].route = c
    BY <1>0, <1>5
  <2>2. RoutedIsThere'
    BY <2>1 DEF SubnetInv, RoutedIsThere, Routed
  <2>3. ASSUME Locked' PROVE OnePrefix' /\ Collected' /\ Apart'
    <3>1. Locked /\ OnePrefix /\ Collected /\ Apart
      BY <2>3 DEF SubnetInv
    <3>2. c.prefix = prefix
      BY <1>0, <3>1 DEF OnePrefix, Fetching, AllocatedCidr
    <3>3. OnePrefix'
      BY <1>0, <1>1, <1>3, <2>1, <3>1, <3>2 DEF OnePrefix, Routed, Fetching
    <3>4. \A p \in Creates \ {o} : pc'[p] \notin {"inspect", "private", "easy"}
      <4> SUFFICES ASSUME NEW p \in Creates \ {o}, pc'[p] \in {"inspect", "private", "easy"}
                   PROVE FALSE
        OBVIOUS
      <4>1. Inside(p) /\ Inside(o)
        BY <1>0, <1>1 DEF Inside, InsidePlaces, Fetching
      <4> QED
        BY <4>1, OneInside DEF SubnetInv
    <3>5. Collected'
      BY <1>0, <1>1, <3>4 DEF Collected
    <3>6. \A n \in Creates \ {o} :
            Routed(n) => ~ Overlap(c, nets[n].route) /\ ~ Overlap(nets[n].route, c)
      BY <1>0, <3>1, WrittenApart
    <3>7. Apart'
      <4> SUFFICES ASSUME NEW n \in Creates, NEW m \in Creates, n # m, Routed(n)', Routed(m)'
                   PROVE ~ Overlap(nets'[n].route, nets'[m].route)
        BY DEF Apart
      <4> HIDE DEF c
      <4>1. CASE n = o
        BY <2>1, <3>6, <4>1 DEF Routed
      <4>2. CASE m = o
        BY <2>1, <3>6, <4>2 DEF Routed
      <4>3. CASE n # o /\ m # o
        BY <2>1, <3>1, <4>3 DEF Apart, Routed
      <4> QED
        BY <4>1, <4>2, <4>3
    <3> QED
      BY <3>3, <3>5, <3>7
  <2> QED
    BY <2>2, <2>3 DEF SubnetInv
<1>6. q.do = "easy" /\ q.net = o /\ q.route = c
  BY DEF Request
<1>7. Effect(q) = IF nets[o].there THEN [nets EXCEPT ![o].route = c] ELSE nets
  <2> HIDE DEF q, c
  <2> QED
    BY <1>6 DEF Effect
<1> QED
  BY <1>2, <1>4, <1>5, <1>7

LEMMA SubnetInit == Init => SubnetInv
<1> SUFFICES ASSUME Init PROVE SubnetInv
  OBVIOUS
<1>1. Typed
  BY InitTyped
<1>2. QueueOK
  BY DEF Init, QueueOK, Inside, Present, InsidePlaces, Fetching
<1>3. \A n \in Creates : nets[n].route = None
  BY DEF Init, Absent
<1> QED
  BY <1>1, <1>2, <1>3 DEF Init, SubnetInv, NothingLate, RoutedIsThere, Routed, OnePrefix,
     Collected, Apart, Fetching

LEMMA SubnetStep == ASSUME SubnetInv, Pool.prefix # 0, [Next]_vars PROVE SubnetInv'
<1>0. /\ Typed' /\ QueueOK' /\ (Locked' => Locked) /\ NothingLate'
      /\ pc \in [Creates -> Places] /\ config \in [Creates -> Prefixes \cup {None}]
      /\ todo \in [Creates -> SUBSET Creates] /\ found \in [Creates -> SUBSET Cidrs]
  BY StepTyped, QueueStep, LockedStays DEF SubnetInv, Typed, TypeOK, Places, Fetching
<1>1. ASSUME UNCHANGED <<nets, prefix>>, NEW o \in Creates, \A p \in Creates \ {o} : pc'[p] = pc[p],
             \A p \in Creates \ {o} :
                config'[p] = config[p] /\ todo'[p] = todo[p] /\ found'[p] = found[p],
             pc'[o] \notin Fetching
      PROVE  SubnetInv'
  BY <1>0, <1>1, SubnetKept DEF SubnetInv, Routed, RoutedIsThere, Fetching
<1>2. ASSUME NEW o \in Creates, Call(o) PROVE SubnetInv'
  BY <1>0, <1>1, <1>2 DEF Call, Go, locals, Fetching
<1>3. ASSUME NEW o \in Creates, Enter(o) PROVE SubnetInv'
  <2>1. CASE Go(o, "failing") /\ UNCHANGED config
    BY <1>0, <1>1, <1>3, <2>1 DEF Enter, Go, Fetching
  <2>2. CASE Go(o, "create") /\ config' = [config EXCEPT ![o] = prefix]
    <3>1. UNCHANGED <<nets, prefix, todo, found>>
      BY <1>3 DEF Enter
    <3> QED
      BY <1>0, <2>2, <3>1, SubnetKept DEF Go, SubnetInv, Routed, RoutedIsThere
  <2> QED
    BY <1>3, <2>1, <2>2 DEF Enter
<1>4. ASSUME NEW o \in Creates, CreateNetwork(o) \/ SetPrivate(o) PROVE SubnetInv'
  BY <1>0, <1>4, SubnetPost
<1>5. ASSUME NEW o \in Creates, ListNetworks(o) PROVE SubnetInv'
  <2>1. CASE Go(o, "failing") /\ UNCHANGED todo
    BY <1>0, <1>1, <1>5, <2>1 DEF ListNetworks, Go, Fetching
  <2>2. CASE Go(o, "inspect") /\ todo' = [todo EXCEPT ![o] = There \ {o}]
    <3>1. UNCHANGED <<nets, prefix, config, found>> /\ pc[o] \in Fetching
      BY <1>5 DEF ListNetworks, At, Fetching
    <3>2. \A n \in Creates \ {o} : Routed(n)' => n \in todo'[o]
      BY <1>0, <2>2, <3>1 DEF SubnetInv, RoutedIsThere, Routed, There
    <3> QED
      BY <1>0, <2>2, <3>1, <3>2, SubnetKept DEF Go, SubnetInv, Routed, RoutedIsThere
  <2> QED
    BY <1>5, <2>1, <2>2 DEF ListNetworks
<1>6. ASSUME NEW o \in Creates, Inspect(o) PROVE SubnetInv'
  <2>1. CASE Go(o, "failing") /\ UNCHANGED <<todo, found>>
    BY <1>0, <1>1, <1>6, <2>1 DEF Inspect, Go, Fetching
  <2>2. ASSUME NEW n \in todo[o], UNCHANGED pc, todo' = [todo EXCEPT ![o] = @ \ {n}],
               found' = [found EXCEPT ![o] = @ \cup ({nets[n].route} \ {None})]
        PROVE  SubnetInv'
    <3>1. UNCHANGED <<nets, prefix, config>> /\ pc[o] = "inspect"
      BY <1>6 DEF Inspect, At
    <3>2. /\ todo'[o] = todo[o] \ {n} /\ found'[o] = found[o] \cup ({nets[n].route} \ {None})
          /\ \A p \in Creates \ {o} : todo'[p] = todo[p] /\ found'[p] = found[p]
      BY <1>0, <2>2
    <3>3. \A m \in Creates :
            Routed(m) /\ m \in todo[o] => m \in todo'[o] \/ nets[m].route \in found'[o]
      BY <3>2 DEF Routed
    <3> QED
      BY <1>0, <2>2, <3>1, <3>2, <3>3, SubnetKept DEF SubnetInv, Routed, RoutedIsThere, Fetching
  <2> QED
    BY <1>6, <2>1, <2>2 DEF Inspect
<1>7. ASSUME NEW o \in Creates, Allocate(o) PROVE SubnetInv'
  <2>1. /\ UNCHANGED <<nets, prefix, config, todo, found>> /\ pc[o] = "inspect" /\ todo[o] = {}
    BY <1>7 DEF Allocate, At, locals
  <2>2. PICK l \in {"private", "failing"} : pc' = [pc EXCEPT ![o] = l]
    BY <1>7 DEF Allocate, Go
  <2> QED
    BY <1>0, <2>1, <2>2, SubnetKept DEF SubnetInv, Routed, RoutedIsThere, Fetching
<1>8. ASSUME NEW o \in Creates, EasySetup(o) PROVE SubnetInv'
  BY <1>0, <1>8, SubnetSetup
<1>9. ASSUME NEW o \in Creates, Finish(o) PROVE SubnetInv'
  <2>1. PICK l \in {"created", "failed"} : pc' = [pc EXCEPT ![o] = l]
    BY <1>9 DEF Finish, Go
  <2> QED
    BY <1>0, <1>1, <1>9, <2>1 DEF Finish, Fetching
<1>10. ASSUME NEW n \in Creates, RemoveNetwork(n) PROVE SubnetInv'
  <2> DEFINE q == Request("delete", n, None)
  <2>1. q \in {r \in Posted : r.do # "easy"}
    BY DEF Request, Posted
  <2>2. /\ UNCHANGED <<pc, prefix, config, todo, found>>
        /\ nets' = nets \/ nets' = Effect(q)
    BY <1>10 DEF RemoveNetwork, locals
  <2>3. /\ \A m \in Creates : Routed(m)' => Routed(m) /\ nets'[m].route = nets[m].route
        /\ RoutedIsThere'
    <3>1. CASE nets' = nets
      BY <3>1 DEF SubnetInv, Routed, RoutedIsThere
    <3>2. CASE nets' = Effect(q)
      <4> HIDE DEF q
      <4> QED
        BY <2>1, <3>2, NoRouteWritten DEF SubnetInv
    <3> QED
      BY <2>2, <3>1, <3>2
  <2>4. SubnetInv /\ Locked' => OnePrefix /\ Collected /\ Apart
    BY <1>0 DEF SubnetInv
  <2> QED
    BY <1>0, <2>2, <2>3, <2>4 DEF SubnetInv, OnePrefix, Collected, Apart
<1>11. CASE LateRequest
  <2>1. PICK q \in late : nets' = Effect(q)
    BY <1>11 DEF LateRequest
  <2>2. ~ Locked'
    BY <1>0, <1>11, <2>1 DEF SubnetInv, NothingLate, Locked, LateRequest
  <2>3. RoutedIsThere'
    <3>1. CASE q.do \in {"create", "private", "delete"}
      <4>1. q \in {r \in Posted : r.do # "easy"}
        BY <3>1 DEF SubnetInv, Typed, TypeOK
      <4> QED
        BY <2>1, <4>1, NoRouteWritten DEF SubnetInv
    <3>2. CASE q.do = "easy" /\ nets[q.net].there
      <4>1. nets' = [nets EXCEPT ![q.net].route = q.route] /\ q.net \in Creates
        BY <2>1, <3>2 DEF Effect, SubnetInv, Typed, TypeOK, Posted
      <4> QED
        BY <3>2, <4>1 DEF SubnetInv, Typed, TypeOK, RoutedIsThere, Routed
    <3>3. CASE q.do = "easy" /\ ~ nets[q.net].there
      <4>1. nets' = nets
        BY <2>1, <3>3 DEF Effect
      <4> QED
        BY <4>1 DEF SubnetInv, RoutedIsThere, Routed
    <3> QED
      BY <3>1, <3>2, <3>3 DEF SubnetInv, Typed, TypeOK, Posted
  <2> QED
    BY <1>0, <2>2, <2>3 DEF SubnetInv
<1>12. CASE EditPrefix
  <2>1. edits \in Nat /\ edits' = edits + 1 /\ UNCHANGED nets
    BY <1>12, CreateAssumption DEF EditPrefix, SubnetInv, Typed, TypeOK
  <2>2. ~ Locked'
    BY <2>1 DEF Locked
  <2> QED
    BY <1>0, <2>1, <2>2 DEF SubnetInv, RoutedIsThere, Routed
<1>13. CASE Crash
  <2>1. /\ \A o \in Creates : pc'[o] \notin Fetching
        /\ UNCHANGED <<nets, prefix>>
    BY <1>13 DEF Crash, Fetching
  <2> QED
    BY <1>0, <2>1 DEF SubnetInv, RoutedIsThere, Routed, OnePrefix, Collected, Apart, Fetching
<1>14. CASE UNCHANGED vars
  BY <1>0, <1>14 DEF vars, locals, SubnetInv, RoutedIsThere, Routed, OnePrefix, Collected, Apart
<1> QED
  BY <1>2, <1>3, <1>4, <1>5, <1>6, <1>7, <1>8, <1>9, <1>10, <1>11, <1>12, <1>13,
     <1>14 DEF Next, Step

\* No two networks of a controller overlap, for any number of creations, in any order and
\* whatever fails, as long as no request is given up on and the prefix stays
\* (LockedSubnetsAreDisjoint).  The pool is not all of the address space: the loop over a /0
\* pool counts past the sign bit, where it recognises no used block.
THEOREM SubnetsDisjoint ==
  ASSUME Pool.prefix # 0
  PROVE  Spec => []LockedSubnetsAreDisjoint
<1>1. SubnetInv /\ [Next]_vars => SubnetInv'
  BY SubnetStep
<1>2. SubnetInv => LockedSubnetsAreDisjoint
  BY DEF SubnetInv, LockedSubnetsAreDisjoint, NoDuplicateSubnets, Locked, Apart, Routed, There
<1> QED
  BY <1>1, <1>2, SubnetInit, PTL DEF Spec
-----------------------------------------------------------------------------
(* No network has an address pool before it is private. *)

\* A network is a record; nothing more about its route is needed here, which
\* spares the proof the arithmetic of Subnet.
NetsOK ==
    /\ DOMAIN nets = Creates
    /\ \A n \in Creates : DOMAIN nets[n] = {"there", "route", "private"}

Before == {"idle", "queued", "create"}
Failed == {"failing", "failed"}

\* A network exists only once its creation has asked for it; a creation that is
\* about to write the pool has made the network private.
NotYetThere == \A n \in Creates : pc[n] \in Before => ~ nets[n].there
PrivateFirst == \A n \in Creates : nets[n].there /\ pc[n] = "easy" => nets[n].private

\* A request that may still create a network has found none, and is the only one
\* that may still create it or write its pool; one that may still write a pool finds a private
\* network, if it finds one at all.
LateOK ==
    \A q \in late :
        /\ q.net \in Creates
        /\ q.do = "create" =>
             /\ pc[q.net] \in Failed /\ ~ nets[q.net].there
             /\ \A r \in late : r.net = q.net /\ r.do \in {"create", "easy"} => r = q
        /\ q.do = "easy" =>
             /\ pc[q.net] \in Failed
             /\ nets[q.net].there => nets[q.net].private

RoutedIsPrivate == \A n \in Creates : nets[n].route # None => nets[n].private

PoolInv ==
    /\ pc \in [Creates -> Places]
    /\ NetsOK /\ NotYetThere /\ PrivateFirst /\ LateOK /\ RoutedIsPrivate

LEMMA PoolInit == Init => PoolInv
<1> SUFFICES ASSUME Init PROVE PoolInv
  OBVIOUS
<1>1. nets = [n \in Creates |-> [there |-> FALSE, route |-> None, private |-> FALSE]]
  BY DEF Init, Absent
<1>2. NetsOK
  BY <1>1 DEF NetsOK
<1>3. QED
  BY <1>1, <1>2 DEF Init, PoolInv, NotYetThere, PrivateFirst, LateOK, RoutedIsPrivate,
                    Places

\* What a request does, network by network and field by field.
Carried(q) ==
    /\ \A n \in Creates \ {q.net} : nets'[n] = nets[n]
    /\ q.do = "create" =>
         nets'[q.net].there /\ nets'[q.net].route = None
    /\ q.do = "delete" =>
         ~ nets'[q.net].there /\ nets'[q.net].route = None
    /\ q.do \in {"private", "easy"} => nets'[q.net].there = nets[q.net].there
    /\ q.do = "private" =>
         /\ nets'[q.net].route = nets[q.net].route
         /\ nets[q.net].there => nets'[q.net].private
         /\ nets[q.net].private => nets'[q.net].private
    /\ q.do = "easy" =>
         /\ nets'[q.net].private = nets[q.net].private
         /\ ~ nets[q.net].there => nets'[q.net].route = nets[q.net].route
    /\ q.do \notin {"create", "delete", "private", "easy"} => nets' = nets

LEMMA EffectIsCarried ==
  ASSUME NEW q, q.net \in Creates, NetsOK, nets' = Effect(q)
  PROVE  NetsOK' /\ Carried(q)
<1>1. CASE q.do = "create"
  <2>1. nets' = [nets EXCEPT ![q.net] = [Absent EXCEPT !.there = TRUE]]
    BY <1>1 DEF Effect
  <2>2. /\ DOMAIN [Absent EXCEPT !.there = TRUE] = {"there", "route", "private"}
        /\ [Absent EXCEPT !.there = TRUE].there
        /\ [Absent EXCEPT !.there = TRUE].route = None
    BY DEF Absent
  <2>3. QED
    BY <1>1, <2>1, <2>2 DEF NetsOK, Carried
<1>2. CASE q.do = "delete"
  <2>1. nets' = [nets EXCEPT ![q.net] = [there |-> FALSE, route |-> None, private |-> FALSE]]
    BY <1>2 DEF Effect, Absent
  <2>2. QED
    BY <1>2, <2>1 DEF NetsOK, Carried
<1>3. CASE q.do = "private" /\ nets[q.net].there
  <2>1. nets' = [nets EXCEPT ![q.net].private = TRUE]
    BY <1>3 DEF Effect
  <2>2. QED
    BY <1>3, <2>1 DEF NetsOK, Carried
<1>4. CASE q.do = "easy" /\ nets[q.net].there
  <2>1. nets' = [nets EXCEPT ![q.net].route = q.route]
    BY <1>4 DEF Effect
  <2>2. QED
    BY <1>4, <2>1 DEF NetsOK, Carried
<1>5. CASE /\ q.do \notin {"create", "delete"}
           /\ ~ (q.do = "private" /\ nets[q.net].there)
           /\ ~ (q.do = "easy" /\ nets[q.net].there)
  <2>1. nets' = nets
    BY <1>5 DEF Effect
  <2>2. QED
    BY <1>5, <2>1 DEF NetsOK, Carried
<1>6. QED
  BY <1>1, <1>2, <1>3, <1>4, <1>5

\* A creation moves on, and the networks change by one request about its own.
LEMMA PoolPost ==
  ASSUME PoolInv, NEW o \in Creates, NEW next, NEW q, q.net = o,
         Post(o, q, next), next \in Places,
         \/ pc[o] = "create" /\ q.do = "create" /\ next = "list"
         \/ pc[o] = "private" /\ q.do = "private" /\ next = "easy"
         \/ pc[o] = "easy" /\ q.do = "easy" /\ next = "returning"
  PROVE  PoolInv'
<1>1. CASE nets' = Effect(q) /\ Go(o, next) /\ UNCHANGED late
  <2>1. NetsOK' /\ Carried(q)
    BY <1>1, EffectIsCarried DEF PoolInv
  <2>2. pc' \in [Creates -> Places] /\ pc' = [pc EXCEPT ![o] = next]
    BY <1>1 DEF PoolInv, Go
  <2>3. NotYetThere'
    BY <2>1, <2>2 DEF PoolInv, NotYetThere, Carried, Before
  <2>4. PrivateFirst'
    BY <2>1, <2>2 DEF PoolInv, PrivateFirst, Carried
  <2>5. \A r \in late : r.do \in {"create", "easy"} => r.net # o
    BY DEF PoolInv, LateOK, Failed
  <2>6. LateOK'
    BY <1>1, <2>1, <2>2, <2>5 DEF PoolInv, LateOK, Carried
  <2>7. RoutedIsPrivate'
    <3>1. ASSUME NEW n \in Creates, nets'[n].route # None PROVE nets'[n].private
      <4>1. CASE n # o
        BY <2>1, <3>1, <4>1 DEF PoolInv, RoutedIsPrivate, Carried
      <4>2. CASE n = o
        BY <2>1, <3>1, <4>2 DEF PoolInv, RoutedIsPrivate, PrivateFirst, Carried
      <4>3. QED
        BY <4>1, <4>2
    <3>2. QED
      BY <3>1 DEF RoutedIsPrivate
  <2>8. QED
    BY <2>1, <2>2, <2>3, <2>4, <2>6, <2>7 DEF PoolInv
<1>2. CASE Go(o, "failing") /\ UNCHANGED <<nets, late>>
  <2>1. pc' \in [Creates -> Places] /\ pc' = [pc EXCEPT ![o] = "failing"]
    BY <1>2 DEF PoolInv, Go, Places
  <2>2. QED
    BY <1>2, <2>1 DEF PoolInv, NetsOK, NotYetThere, PrivateFirst, LateOK,
                      RoutedIsPrivate, Before, Failed
<1>3. CASE late' = late \cup {q} /\ Go(o, "failing") /\ UNCHANGED nets
  <2>1. pc' \in [Creates -> Places] /\ pc' = [pc EXCEPT ![o] = "failing"]
    BY <1>3 DEF PoolInv, Go, Places
  <2>2. /\ NetsOK' /\ NotYetThere' /\ PrivateFirst' /\ RoutedIsPrivate'
    BY <1>3, <2>1 DEF PoolInv, NetsOK, NotYetThere, PrivateFirst, RoutedIsPrivate, Before
  <2>3. \A r \in late : r.do \in {"create", "easy"} => r.net # o
    BY DEF PoolInv, LateOK, Failed
  <2>4. ASSUME NEW r \in late'
        PROVE  /\ r.net \in Creates
               /\ r.do = "create" =>
                    /\ pc'[r.net] \in Failed /\ ~ nets'[r.net].there
                    /\ \A t \in late' : t.net = r.net /\ t.do \in {"create", "easy"} => t = r
               /\ r.do = "easy" =>
                    /\ pc'[r.net] \in Failed
                    /\ nets'[r.net].there => nets'[r.net].private
    <3>1. CASE r = q
      BY <1>3, <2>1, <2>3, <3>1 DEF PoolInv, NotYetThere, PrivateFirst, Before, Failed
    <3>2. CASE r # q
      <4>1. r \in late /\ r.net \in Creates
        BY <1>3, <3>2 DEF PoolInv, LateOK
      <4>2. pc[r.net] \in Failed => pc'[r.net] \in Failed
        BY <2>1, <4>1 DEF PoolInv, Failed
      <4>3. r.do = "create" =>
              \A t \in late' : t.net = r.net /\ t.do \in {"create", "easy"} => t = r
        BY <1>3, <2>3, <4>1 DEF PoolInv, LateOK
      <4>4. QED
        BY <1>3, <4>1, <4>2, <4>3 DEF PoolInv, LateOK
    <3>3. QED
      BY <3>1, <3>2
  <2>5. QED
    BY <2>1, <2>2, <2>4 DEF PoolInv, LateOK
<1>4. QED
  BY <1>1, <1>2, <1>3 DEF Post

\* A creation moves on without a request: neither back before its first one, nor to
\* the place where it writes the pool, nor out of its failure.
LEMMA PoolMove ==
  ASSUME PoolInv, NEW o \in Creates, NEW l \in Places, Go(o, l), UNCHANGED <<nets, late>>,
         l # "easy", l \in Before => pc[o] \in Before, pc[o] \in Failed => l \in Failed
  PROVE  PoolInv'
<1>1. pc' \in [Creates -> Places] /\ pc' = [pc EXCEPT ![o] = l]
  BY DEF PoolInv, Go
<1>2. QED
  BY <1>1 DEF PoolInv, NetsOK, NotYetThere, PrivateFirst, LateOK, RoutedIsPrivate

LEMMA PoolLate == ASSUME PoolInv, LateRequest PROVE PoolInv'
<1>1. PICK q \in late : nets' = Effect(q) /\ late' = late \ {q}
  BY DEF LateRequest
<1>2. pc' = pc
  BY DEF LateRequest
<1>3. q.net \in Creates
  BY DEF PoolInv, LateOK
<1>4. NetsOK' /\ Carried(q)
  BY <1>1, <1>3, EffectIsCarried DEF PoolInv
<1>5. NotYetThere'
  BY <1>1, <1>2, <1>3, <1>4 DEF PoolInv, NotYetThere, Carried, LateOK, Before, Failed
<1>6. PrivateFirst'
  BY <1>1, <1>2, <1>3, <1>4 DEF PoolInv, PrivateFirst, Carried, LateOK, Failed
<1>7. ASSUME NEW r \in late'
      PROVE  /\ r.net \in Creates
             /\ r.do = "create" =>
                  /\ pc'[r.net] \in Failed /\ ~ nets'[r.net].there
                  /\ \A t \in late' : t.net = r.net /\ t.do \in {"create", "easy"} => t = r
             /\ r.do = "easy" =>
                  /\ pc'[r.net] \in Failed
                  /\ nets'[r.net].there => nets'[r.net].private
  <2>1. r \in late /\ r # q
    BY <1>1, <1>7
  <2>2. CASE r.net # q.net
    BY <1>1, <1>2, <1>4, <2>1, <2>2 DEF PoolInv, LateOK, Carried
  <2>3. CASE r.net = q.net /\ q.do # "create"
    BY <1>1, <1>2, <1>4, <2>1, <2>3 DEF PoolInv, LateOK, Carried
  <2>4. CASE r.net = q.net /\ q.do = "create"
    BY <1>1, <1>2, <1>4, <2>1, <2>4 DEF PoolInv, LateOK, Carried
  <2>5. QED
    BY <2>2, <2>3, <2>4
<1>8. RoutedIsPrivate'
  <2>1. ASSUME NEW n \in Creates, nets'[n].route # None PROVE nets'[n].private
    <3>1. CASE n # q.net
      BY <1>4, <2>1, <3>1 DEF PoolInv, RoutedIsPrivate, Carried
    <3>2. CASE n = q.net
      BY <1>1, <1>4, <2>1, <3>2 DEF PoolInv, RoutedIsPrivate, LateOK, Carried
    <3>3. QED
      BY <3>1, <3>2
  <2>2. QED
    BY <2>1 DEF RoutedIsPrivate
<1>9. QED
  BY <1>2, <1>4, <1>5, <1>6, <1>7, <1>8 DEF PoolInv, LateOK

LEMMA PoolRemove ==
  ASSUME PoolInv, NEW n \in Creates, RemoveNetwork(n)
  PROVE  PoolInv'
<1> DEFINE q == Request("delete", n, None)
<1>1. q.do = "delete" /\ q.net = n
  BY DEF Request
<1>2. pc' = pc
  BY DEF RemoveNetwork
<1>3. CASE nets' = Effect(q) /\ UNCHANGED late
  <2>1. NetsOK' /\ Carried(q)
    BY <1>1, <1>3, EffectIsCarried DEF PoolInv
  <2>2. /\ \A m \in Creates \ {n} : nets'[m] = nets[m]
        /\ ~ nets'[n].there /\ nets'[n].route = None
    BY <1>1, <2>1 DEF Carried
  <2>3. NotYetThere' /\ PrivateFirst' /\ RoutedIsPrivate'
    BY <1>2, <2>2 DEF PoolInv, NotYetThere, PrivateFirst, RoutedIsPrivate
  <2>4. LateOK'
    BY <1>2, <1>3, <2>2 DEF PoolInv, LateOK
  <2>5. QED
    BY <1>2, <2>1, <2>3, <2>4 DEF PoolInv
<1>4. CASE late' = late \cup {q} /\ UNCHANGED nets
  <2>1. LateOK'
    BY <1>1, <1>2, <1>4 DEF PoolInv, LateOK
  <2>2. QED
    BY <1>2, <1>4, <2>1 DEF PoolInv, NetsOK, NotYetThere, PrivateFirst, RoutedIsPrivate
<1>5. QED
  BY <1>3, <1>4 DEF RemoveNetwork

LEMMA PoolCrash == ASSUME PoolInv, Crash PROVE PoolInv'
<1>1. /\ pc' \in [Creates -> Places] /\ UNCHANGED <<nets, late>>
      /\ \A o \in Creates :
           /\ pc'[o] # "easy"
           /\ pc'[o] \in Before => pc[o] \in Before
           /\ pc[o] \in Failed => pc'[o] \in Failed
  BY DEF Crash, PoolInv, Places, Before, Failed
<1>2. QED
  BY <1>1 DEF PoolInv, NetsOK, NotYetThere, PrivateFirst, LateOK, RoutedIsPrivate

LEMMA PoolStep == PoolInv /\ [Next]_vars => PoolInv'
<1> SUFFICES ASSUME PoolInv, [Next]_vars PROVE PoolInv'
  OBVIOUS
<1> USE DEF Places, Before, Failed, At
<1>1. ASSUME NEW o \in Creates, Call(o) PROVE PoolInv'
  BY <1>1, PoolMove DEF Call
<1>2. ASSUME NEW o \in Creates, Enter(o) PROVE PoolInv'
  BY <1>2, PoolMove DEF Enter
<1>3. ASSUME NEW o \in Creates, CreateNetwork(o) PROVE PoolInv'
  <2>1. Request("create", o, None).net = o /\ Request("create", o, None).do = "create"
    BY DEF Request
  <2>2. QED
    BY <1>3, <2>1, PoolPost DEF CreateNetwork
<1>4. ASSUME NEW o \in Creates, ListNetworks(o) PROVE PoolInv'
  BY <1>4, PoolMove DEF ListNetworks
<1>5. ASSUME NEW o \in Creates, Inspect(o) PROVE PoolInv'
  <2>1. CASE UNCHANGED pc
    BY <1>5, <2>1 DEF Inspect, PoolInv, NetsOK, NotYetThere, PrivateFirst, LateOK,
                      RoutedIsPrivate
  <2>2. CASE Go(o, "failing")
    BY <1>5, <2>2, PoolMove DEF Inspect
  <2>3. QED
    BY <1>5, <2>1, <2>2 DEF Inspect
<1>6. ASSUME NEW o \in Creates, Allocate(o) PROVE PoolInv'
  <2>1. PICK l \in {"private", "failing"} : Go(o, l)
    BY <1>6 DEF Allocate
  <2>2. QED
    BY <1>6, <2>1, PoolMove DEF Allocate
<1>7. ASSUME NEW o \in Creates, SetPrivate(o) PROVE PoolInv'
  <2>1. Request("private", o, None).net = o /\ Request("private", o, None).do = "private"
    BY DEF Request
  <2>2. QED
    BY <1>7, <2>1, PoolPost DEF SetPrivate
<1>8. ASSUME NEW o \in Creates, EasySetup(o) PROVE PoolInv'
  <2> DEFINE q == Request("easy", o, AllocatedCidr(Pool, config[o], found[o]))
  <2>1. q.net = o /\ q.do = "easy"
    BY DEF Request
  <2>2. pc[o] = "easy" /\ Post(o, q, "returning")
    BY <1>8 DEF EasySetup
  <2>3. QED
    BY <2>1, <2>2, PoolPost
<1>9. ASSUME NEW o \in Creates, Finish(o) PROVE PoolInv'
  BY <1>9, PoolMove DEF Finish
<1>10. ASSUME NEW n \in Creates, RemoveNetwork(n) PROVE PoolInv'
  BY <1>10, PoolRemove
<1>11. ASSUME EditPrefix \/ UNCHANGED vars PROVE PoolInv'
  BY <1>11 DEF EditPrefix, vars, PoolInv, NetsOK, NotYetThere, PrivateFirst, LateOK,
               RoutedIsPrivate
<1>12. QED
  BY <1>1, <1>2, <1>3, <1>4, <1>5, <1>6, <1>7, <1>8, <1>9, <1>10, <1>11, PoolLate,
     PoolCrash DEF Next, Step

\* A network that has a subnet is private, for any number of creations, failures,
\* removals and late requests.
THEOREM PrivateBeforePool == Spec => []PooledIsPrivate
<1>1. PoolInv => PooledIsPrivate
  BY DEF PoolInv, RoutedIsPrivate, PooledIsPrivate, There
<1>2. QED
  BY <1>1, PoolInit, PoolStep, PTL DEF Spec
=============================================================================
