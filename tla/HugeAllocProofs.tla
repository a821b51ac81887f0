-------------------------- MODULE HugeAllocProofs --------------------------
(***************************************************************************)
(* Proofs about the hugepage allocator of an Rpc, for any number of size   *)
(* classes and any sizes asked for.                                        *)
(*                                                                         *)
(* The buffers, free and in use, tile the regions reserved for them.  Each *)
(* step of the allocator replaces a buffer by buffers that cover the same  *)
(* bytes (a split cuts it in two halves, alloc and free hand it over), or  *)
(* adds a region that is cut into buffers of the largest class; both keep  *)
(* a tiling (TileReplace, TileAdd).  That a class holds the size asked for *)
(* rests on powers of two, and that the loop of alloc comes down to it on  *)
(* induction over classes; both are proved here from the fact that a       *)
(* nonempty set of naturals has a least element.                           *)
(***************************************************************************)
EXTENDS HugeAlloc, FiniteSetTheorems, SequenceTheorems, WellFoundedInduction, TLAPS

-----------------------------------------------------------------------------
(***************************************************************************)
(* Induction and recursion over the naturals, in first-order form: for a   *)
(* set that holds 0 and the successors of its members, and for a function  *)
(* given by its first value and its steps.                                 *)
(***************************************************************************)

\* A nonempty set of naturals has a least element.
LEMMA LeastNatural ==
  ASSUME NEW S \in SUBSET Nat, S # {}
  PROVE  \E n \in S : \A m \in S : n <= m
  <1>1. IsWellFoundedOn(OpToRel(<, Nat), Nat)
    BY NatLessThanWellFounded
  <1>2. PICK n \in S : \A m \in S : ~(<<m, n>> \in OpToRel(<, Nat))
    BY <1>1, WFMin
  <1>3. \A m \in S : ~(m < n)
    BY <1>2 DEF OpToRel
  <1> QED
    BY <1>3

\* Induction, for a set.
LEMMA Induction ==
  ASSUME NEW S, 0 \in S, \A n \in Nat : n \in S => n + 1 \in S
  PROVE  \A n \in Nat : n \in S
  <1> SUFFICES ASSUME NEW k \in Nat, k \notin S
               PROVE  FALSE
    OBVIOUS
  <1>1. PICK m \in Nat \ S : \A j \in Nat \ S : m <= j
    BY LeastNatural
  <1>2. m # 0 /\ m - 1 \in Nat /\ (m - 1) + 1 = m /\ ~(m <= m - 1)
    BY <1>1
  <1>3. m - 1 \in S
    BY <1>1, <1>2
  <1> QED
    BY <1>2, <1>3

\* G gives the step of a recursion over X at every natural.
Steps(G, X) == G \in [Nat -> [X -> X]]
Computes(f, G, X, x0) ==
    f \in [Nat -> X] /\ f[0] = x0 /\ \A n \in Nat : f[n + 1] = G[n][f[n]]

\* g computes the values of a recursion up to n, from x0 and with the steps G.
Run(G, X, x0, n, g) ==
    /\ g \in [0 .. n -> X] /\ g[0] = x0
    /\ \A i \in 0 .. n - 1 : g[i + 1] = G[i][g[i]]

\* A recursion can be computed up to any natural.
LEMMA RunExists ==
  ASSUME NEW X, NEW x0 \in X, NEW G, Steps(G, X)
  PROVE  \A n \in Nat : \E g : Run(G, X, x0, n, g)
  <1> DEFINE S == {n \in Nat : \E g : Run(G, X, x0, n, g)}
  <1>1. 0 \in S
    <2>1. Run(G, X, x0, 0, [i \in 0 .. 0 |-> x0])
      BY DEF Run
    <2> QED
      BY <2>1
  <1>2. ASSUME NEW n \in Nat, n \in S
        PROVE  n + 1 \in S
    <2>1. PICK g : Run(G, X, x0, n, g)
      BY <1>2
    <2> DEFINE h == [i \in 0 .. n + 1 |-> IF i = n + 1 THEN G[n][g[n]] ELSE g[i]]
    <2>2. g \in [0 .. n -> X] /\ g[0] = x0 /\ \A i \in 0 .. n - 1 : g[i + 1] = G[i][g[i]]
      BY <2>1 DEF Run
    <2>3. h \in [0 .. n + 1 -> X] /\ h[0] = x0
      BY <2>2 DEF Steps
    <2>4. ASSUME NEW i \in 0 .. n
          PROVE  h[i + 1] = G[i][h[i]]
      <3>1. CASE i = n
        BY <3>1
      <3>2. CASE i < n
        <4>1. i \in 0 .. n - 1 /\ i + 1 \in 0 .. n
          BY <3>2
        <4> QED
          BY <2>2, <4>1
      <3> QED
        BY <3>1, <3>2
    <2>5. Run(G, X, x0, n + 1, h)
      <3> HIDE DEF h
      <3>1. (n + 1) - 1 = n
        OBVIOUS
      <3> QED
        BY <2>3, <2>4, <3>1 DEF Run
    <2> QED
      BY <2>5
  <1> HIDE DEF S
  <1>3. \A n \in Nat : n \in S
    BY <1>1, <1>2, Induction
  <1> QED
    BY <1>3 DEF S

\* Two computations of it agree as far as both go.
LEMMA RunUnique ==
  ASSUME NEW X, NEW x0, NEW G, NEW n \in Nat, NEW m \in Nat, NEW g, NEW h,
         Run(G, X, x0, n, g), Run(G, X, x0, m, h)
  PROVE  \A i \in Nat : i <= n /\ i <= m => g[i] = h[i]
  <1> DEFINE S == {i \in Nat : i <= n /\ i <= m => g[i] = h[i]}
  <1>1. 0 \in S
    BY DEF Run
  <1>2. ASSUME NEW i \in Nat, i \in S
        PROVE  i + 1 \in S
    <2> SUFFICES ASSUME i + 1 <= n, i + 1 <= m
                 PROVE  g[i + 1] = h[i + 1]
      OBVIOUS
    <2>1. i \in 0 .. n - 1 /\ i \in 0 .. m - 1 /\ g[i] = h[i]
      BY <1>2
    <2> QED
      BY <2>1 DEF Run
  <1> HIDE DEF S
  <1>3. \A i \in Nat : i \in S
    BY <1>1, <1>2, Induction
  <1> QED
    BY <1>3 DEF S

\* A recursion over the naturals defines a function.
LEMMA Recursion ==
  ASSUME NEW X, NEW x0 \in X, NEW G, Steps(G, X)
  PROVE  \E f : Computes(f, G, X, x0)
  <1> DEFINE R(n) == CHOOSE g : Run(G, X, x0, n, g)
             f == [n \in Nat |-> R(n)[n]]
  <1>1. \A n \in Nat : Run(G, X, x0, n, R(n))
    BY RunExists
  <1> HIDE DEF R
  <1>2. f \in [Nat -> X]
    BY <1>1 DEF Run
  <1>3. f[0] = x0
    BY <1>1 DEF Run
  <1>4. ASSUME NEW n \in Nat
        PROVE  f[n + 1] = G[n][f[n]]
    <2>1. n + 1 \in Nat /\ n <= n /\ n <= n + 1 /\ n \in 0 .. (n + 1) - 1
      OBVIOUS
    <2>2. R(n + 1)[n] = R(n)[n]
      BY <1>1, <2>1, RunUnique
    <2>3. R(n + 1)[n + 1] = G[n][R(n + 1)[n]]
      BY <1>1, <2>1 DEF Run
    <2> QED
      BY <2>1, <2>2, <2>3
  <1>5. Computes(f, G, X, x0)
    BY <1>2, <1>3, <1>4 DEF Computes
  <1> QED
    BY <1>5

-----------------------------------------------------------------------------
(* Powers of two *)

\* The recursion that defines b << n.
LEMMA ShlDef ==
  ASSUME NEW b \in Nat
  PROVE  /\ Shl(b, 0) = b
         /\ \A n \in Nat : Shl(b, n) \in Nat /\ Shl(b, n + 1) = 2 * Shl(b, n)
  <1> DEFINE d == CHOOSE f : f = [k \in Nat |-> IF k = 0 THEN b ELSE 2 * f[k - 1]]
             G == [n \in Nat |-> [x \in Nat |-> 2 * x]]
  <1>1. PICK f \in [Nat -> Nat] : f[0] = b /\ \A n \in Nat : f[n + 1] = G[n][f[n]]
    <2>1. Steps(G, Nat)
      BY DEF Steps
    <2> HIDE DEF G
    <2>2. \E g : Computes(g, G, Nat, b)
      BY <2>1, Recursion
    <2> QED
      BY <2>2 DEF Computes
  <1>2. f = [k \in Nat |-> IF k = 0 THEN b ELSE 2 * f[k - 1]]
    <2>1. ASSUME NEW k \in Nat
          PROVE  f[k] = IF k = 0 THEN b ELSE 2 * f[k - 1]
      <3>1. CASE k = 0
        BY <1>1, <3>1
      <3>2. CASE k # 0
        <4>1. k - 1 \in Nat /\ (k - 1) + 1 = k
          BY <3>2
        <4> QED
          BY <1>1, <3>2, <4>1
      <3> QED
        BY <3>1, <3>2
    <2> QED
      BY <1>1, <2>1
  <1>3. d = [k \in Nat |-> IF k = 0 THEN b ELSE 2 * d[k - 1]]
    BY <1>2
  <1>4. \A n : Shl(b, n) = d[n]
    BY DEF Shl
  <1> HIDE DEF d
  <1>5. d[0] = b /\ \A n \in Nat : d[n + 1] = 2 * d[n]
    <2>1. \A n \in Nat : n + 1 \in Nat /\ n + 1 # 0 /\ (n + 1) - 1 = n
      OBVIOUS
    <2> QED
      BY <1>3, <2>1
  <1> DEFINE S == {n \in Nat : d[n] \in Nat}
  <1>6. \A n \in Nat : n \in S
    <2>1. 0 \in S /\ \A n \in Nat : n \in S => n + 1 \in S
      BY <1>5
    <2> HIDE DEF S
    <2> QED
      BY <2>1, Induction
  <1> QED
    BY <1>4, <1>5, <1>6

Pow(n) == Shl(1, n)

LEMMA PowDef == Pow(0) = 1 /\ \A n \in Nat : Pow(n) \in Nat /\ Pow(n + 1) = 2 * Pow(n)
  BY ShlDef DEF Pow

\* Powers of two are larger than their exponents, and grow with them.
LEMMA PowGrows == \A n \in Nat : Pow(n) \in Nat /\ n < Pow(n)
  <1> DEFINE S == {n \in Nat : n < Pow(n)}
  <1>1. 0 \in S
    BY PowDef
  <1>2. ASSUME NEW n \in Nat, n \in S
        PROVE  n + 1 \in S
    <2>1. PICK p \in Nat : p = Pow(n) /\ Pow(n + 1) = 2 * p /\ n < p
      BY <1>2, PowDef
    <2>2. n + 1 < 2 * p
      BY <2>1
    <2> QED
      BY <2>1, <2>2
  <1> HIDE DEF S
  <1>3. \A n \in Nat : n \in S
    BY <1>1, <1>2, Induction
  <1> QED
    BY <1>3, PowDef DEF S

LEMMA PowMono ==
  ASSUME NEW m \in Nat
  PROVE  \A n \in Nat : m <= n => Pow(m) <= Pow(n)
  <1> DEFINE S == {k \in Nat : Pow(m) <= Pow(m + k)}
  <1>1. 0 \in S
    BY PowDef
  <1>2. ASSUME NEW k \in Nat, k \in S
        PROVE  k + 1 \in S
    <2>1. m + k \in Nat /\ m + (k + 1) = (m + k) + 1
      OBVIOUS
    <2>2. PICK p \in Nat, r \in Nat : p = Pow(m) /\ r = Pow(m + k) /\ Pow((m + k) + 1) = 2 * r
      BY <2>1, PowDef
    <2>3. p <= r
      BY <1>2, <2>2
    <2>4. p <= 2 * r
      BY ONLY <2>3, p \in Nat, r \in Nat
    <2> QED
      BY <2>1, <2>2, <2>4
  <1> HIDE DEF S
  <1>3. \A k \in Nat : k \in S
    BY <1>1, <1>2, Induction
  <1>4. ASSUME NEW n \in Nat, m <= n
        PROVE  Pow(m) <= Pow(n)
    <2>1. n - m \in Nat /\ m + (n - m) = n
      BY <1>4
    <2>2. n - m \in S
      BY <1>3, <2>1
    <2> QED
      BY <2>1, <2>2 DEF S
  <1> QED
    BY <1>4

\* The law of exponents, and a shifted power as a power.
LEMMA PowSum ==
  ASSUME NEW s \in Nat
  PROVE  \A n \in Nat : Pow(s + n) = Pow(s) * Pow(n) /\ Shl(Pow(s), n) = Pow(s + n)
  <1> DEFINE S == {n \in Nat : Pow(s + n) = Pow(s) * Pow(n) /\ Shl(Pow(s), n) = Pow(s + n)}
  <1>0. Pow(s) \in Nat
    BY PowDef
  <1>1. 0 \in S
    BY <1>0, PowDef, ShlDef
  <1>2. ASSUME NEW n \in Nat, n \in S
        PROVE  n + 1 \in S
    <2>1. s + n \in Nat /\ s + (n + 1) = (s + n) + 1
      OBVIOUS
    <2>2. PICK p \in Nat, r \in Nat : /\ p = Pow(s) /\ r = Pow(n) /\ Pow(n + 1) = 2 * r
                                      /\ Pow((s + n) + 1) = 2 * Pow(s + n)
                                      /\ Shl(p, n + 1) = 2 * Shl(p, n)
      <3>1. /\ Pow(n) \in Nat /\ Pow(n + 1) = 2 * Pow(n)
            /\ Pow((s + n) + 1) = 2 * Pow(s + n)
        BY <2>1, PowDef
      <3>2. Shl(Pow(s), n + 1) = 2 * Shl(Pow(s), n)
        BY <1>0, ShlDef
      <3> QED
        BY <1>0, <3>1, <3>2
    <2>3. Pow(s + n) = p * r /\ Shl(p, n) = p * r
      BY <1>2, <2>2
    <2>4. 2 * (p * r) = p * (2 * r)
      BY ONLY p \in Nat, r \in Nat
    <2> QED
      BY <2>1, <2>2, <2>3, <2>4
  <1> HIDE DEF S
  <1>3. \A n \in Nat : n \in S
    BY <1>1, <1>2, Induction
  <1> QED
    BY <1>3 DEF S

\* Products grow with a factor.
LEMMA TimesMono ==
  ASSUME NEW a \in Nat, NEW b \in Nat, NEW m \in Nat, a <= b
  PROVE  a * m \in Nat /\ b * m \in Nat /\ a * m <= b * m
  <1>1. PICK k \in Nat : b = a + k
    <2>1. b - a \in Nat /\ b = a + (b - a)
      OBVIOUS
    <2> QED
      BY <2>1
  <1>2. b * m = a * m + k * m
    BY <1>1
  <1>3. a * m \in Nat /\ k * m \in Nat
    OBVIOUS
  <1> QED
    BY <1>2, <1>3

\* Division by m and comparison.
LEMMA DivLess ==
  ASSUME NEW a \in Nat, NEW m \in Nat \ {0}, NEW k \in Nat
  PROVE  a \div m \in Nat /\ (a \div m < k <=> a < k * m)
  <1>1. PICK d \in Nat, r \in Nat : d = a \div m /\ r = a % m /\ a = d * m + r /\ r < m
    <2>1. a \div m \in Nat /\ a % m \in 0 .. m - 1 /\ a = m * (a \div m) + (a % m)
      OBVIOUS
    <2>2. m * (a \div m) = (a \div m) * m
      BY <2>1
    <2> QED
      BY <2>1, <2>2
  <1>2. ASSUME d < k
        PROVE  a < k * m
    <2>1. (d + 1) * m <= k * m /\ (d + 1) * m \in Nat /\ k * m \in Nat
      <3>1. d + 1 \in Nat /\ d + 1 <= k
        BY <1>2
      <3> QED
        BY <3>1, TimesMono
    <2>2. (d + 1) * m = d * m + m /\ d * m \in Nat
      OBVIOUS
    <2> QED
      BY <1>1, <2>1, <2>2
  <1>3. ASSUME ~(d < k)
        PROVE  ~(a < k * m)
    <2>1. k * m <= d * m /\ k * m \in Nat /\ d * m \in Nat
      BY <1>3, TimesMono
    <2> QED
      BY <1>1, <2>1
  <1> QED
    BY <1>1, <1>2, <1>3

-----------------------------------------------------------------------------
(* Hugepages: classes *)

Size(c) == class_max_size(c)

\* The sizes of the classes are powers of two, each twice the one before.
LEMMA SizeDef ==
  \A c \in Classes : /\ Size(c) = Pow(k_min_class_bit_shift + c) /\ Size(c) \in Nat \ {0}
                     /\ c + 1 \in Classes => Size(c + 1) = 2 * Size(c)
                     /\ Size(c) = Pow(k_min_class_bit_shift) * Pow(c)
                     /\ c \in Nat
  <1> SUFFICES ASSUME NEW c \in Classes
               PROVE  /\ Size(c) = Pow(k_min_class_bit_shift + c) /\ Size(c) \in Nat \ {0}
                      /\ c + 1 \in Classes => Size(c + 1) = 2 * Size(c)
                      /\ Size(c) = Pow(k_min_class_bit_shift) * Pow(c)
                      /\ c \in Nat
    OBVIOUS
  <1>1. /\ c \in Nat /\ k_min_class_bit_shift \in Nat /\ k_min_class_bit_shift + c \in Nat
        /\ k_min_class_bit_shift + (c + 1) = (k_min_class_bit_shift + c) + 1
    BY HugeAssumption DEF Classes
  <1>2. \A d : Size(d) = Pow(k_min_class_bit_shift + d)
    BY DEF Size, class_max_size, Pow
  <1>3. Pow(k_min_class_bit_shift + c) \in Nat \ {0}
    BY <1>1, PowGrows
  <1>4. Pow(k_min_class_bit_shift + c) = Pow(k_min_class_bit_shift) * Pow(c)
    BY <1>1, PowSum
  <1>5. Pow((k_min_class_bit_shift + c) + 1) = 2 * Pow(k_min_class_bit_shift + c)
    BY <1>1, PowDef
  <1> QED
    BY <1>1, <1>2, <1>3, <1>4, <1>5

\* c is the least class that holds size bytes.
Fits(size, c) == c \in Classes /\ size <= Size(c) /\ (c = 0 \/ size > Size(c - 1))

\* There is one least class for a size, and for the size of a class it is
\* that class.
LEMMA FitsUnique ==
  ASSUME NEW size \in Nat, NEW c, NEW d, Fits(size, c), Fits(size, d)
  PROVE  c = d
  <1>1. ASSUME NEW e, NEW g, Fits(size, e), Fits(size, g), e < g
        PROVE  FALSE
    <2>1. e \in Nat /\ g - 1 \in Nat /\ e <= g - 1 /\ g - 1 \in Classes /\ e \in Classes /\ g # 0
      BY <1>1, HugeAssumption DEF Fits, Classes
    <2>2. PICK s \in Nat : s = k_min_class_bit_shift
      BY HugeAssumption
    <2>3. s + e \in Nat /\ s + (g - 1) \in Nat /\ s + e <= s + (g - 1)
      BY <2>1
    <2>4. Pow(s + e) <= Pow(s + (g - 1))
      BY <2>3, PowMono
    <2>5. Size(e) <= Size(g - 1) /\ Size(e) \in Nat /\ Size(g - 1) \in Nat
      BY <2>1, <2>2, <2>4, SizeDef
    <2>6. size <= Size(e) /\ size > Size(g - 1)
      BY <1>1, <2>1 DEF Fits
    <2> QED
      BY <2>5, <2>6
  <1>2. c \in Nat /\ d \in Nat
    BY HugeAssumption DEF Fits, Classes
  <1> QED
    BY <1>1, <1>2

LEMMA FitsOwn ==
  ASSUME NEW c \in Classes
  PROVE  Fits(Size(c), c) /\ Size(c) \in 1 .. k_max_class_size
  <1>1. c \in Nat /\ Size(c) \in Nat \ {0}
    BY SizeDef
  <1>3. k_num_classes - 1 \in Classes /\ k_num_classes - 1 \in Nat /\ c <= k_num_classes - 1
    BY HugeAssumption DEF Classes
  <1>4. Size(c) <= Size(k_num_classes - 1)
    <2>1. PICK s \in Nat : s = k_min_class_bit_shift
      BY HugeAssumption
    <2>2. PICK n \in Nat : n = k_num_classes - 1 /\ c <= n
      BY <1>3
    <2>3. s + c \in Nat /\ s + n \in Nat /\ s + c <= s + n
      BY <1>1, <2>2
    <2>4. Pow(s + c) <= Pow(s + n)
      BY <2>3, PowMono
    <2> QED
      BY <1>3, <2>1, <2>2, <2>4, SizeDef
  <1>5. Size(c) > Size(c - 1) \/ c = 0
    <2>1. CASE c # 0
      <3>1. c - 1 \in Classes /\ (c - 1) + 1 = c
        BY <2>1, HugeAssumption DEF Classes
      <3>2. Size(c) = 2 * Size(c - 1) /\ Size(c - 1) \in Nat \ {0}
        BY <3>1, SizeDef
      <3> QED
        BY <3>2
    <2> QED
      BY <2>1
  <1>6. k_max_class_size = Size(k_num_classes - 1)
    BY DEF k_max_class_size, Size
  <1> QED
    BY <1>1, <1>3, <1>4, <1>5, <1>6, SizeDef DEF Fits

\* What msb_index returns, for anything but 0.
LEMMA MsbIndex ==
  ASSUME NEW x \in Nat \ {0}
  PROVE  \E n \in Nat \ {0} : msb_index(x) = {n} /\ x < Pow(n) /\ x >= Pow(n - 1)
  <1> DEFINE S == {n \in Nat : x < Pow(n)}
             P(n) == Shl(1, n - 1) <= x /\ x < Shl(1, n)
  <1>1. S \in SUBSET Nat /\ S # {}
    BY PowGrows
  <1>2. PICK n \in S : \A m \in S : n <= m
    <2> HIDE DEF S
    <2> QED
      BY <1>1, LeastNatural
  <1>3. n \in Nat /\ x < Pow(n) /\ n # 0
    <2>1. Pow(0) = 1
      BY PowDef
    <2> QED
      BY <1>2, <2>1
  <1>4. PICK m \in Nat : n = m + 1
    <2>1. n - 1 \in Nat /\ n = (n - 1) + 1
      BY <1>3
    <2> QED
      BY <2>1
  <1>5. m \notin S /\ m < Pow(m) /\ Pow(m) \in Nat
    BY <1>2, <1>4, PowGrows
  <1>6. x >= Pow(m)
    BY <1>5
  <1>7. n \in 1 .. x /\ P(n)
    <2>1. n \in 1 .. x /\ n - 1 = m
      BY <1>4, <1>5, <1>6
    <2> QED
      BY <1>3, <1>6, <2>1 DEF Pow
  <1> DEFINE c == CHOOSE k \in 1 .. x : P(k)
  <1>8. c \in 1 .. x /\ P(c)
    BY <1>7
  <1>9. msb_index(x) = {c}
    BY DEF msb_index
  <1>10. PICK k \in 1 .. x : msb_index(x) = {k} /\ P(k)
    BY <1>8, <1>9
  <1>11. k \in Nat \ {0}
    OBVIOUS
  <1> QED
    BY <1>10, <1>11 DEF Pow

\* Above the least class, get_class returns the least class that holds the size,
\* and so does get_class_slow.
LEMMA ClassFits ==
  ASSUME NEW size \in 1 .. k_max_class_size, size > Size(0)
  PROVE  \E n \in Classes : get_class(size) = {n} /\ Fits(size, n)
  <1>1. PICK s \in Nat, K \in Nat : s = k_min_class_bit_shift /\ K = k_num_classes - 1
    BY HugeAssumption
  <1>2. Classes = 0 .. K /\ k_max_class_size = Size(K) /\ K \in Classes /\ 0 \in Classes
    BY <1>1, HugeAssumption DEF Classes, k_max_class_size, Size
  <1>3. Size(K) \in Nat /\ size \in Nat /\ size - 1 \in Nat /\ size - 1 < Size(K)
    BY <1>2, SizeDef
  <1>4. PICK p \in Nat \ {0}, t \in Nat : p = Pow(s) /\ t = size - 1
    BY <1>3, PowGrows
  <1>5. PICK x \in Nat : x = t \div p
    BY DivLess
  <1>7. ASSUME NEW k \in Nat
        PROVE  x < Pow(k) <=> t < Pow(s + k)
    <2>1. Pow(k) \in Nat /\ Pow(s + k) = Pow(k) * p
      <3>1. Pow(k) \in Nat /\ Pow(s + k) = p * Pow(k)
        BY <1>4, PowSum, PowDef
      <3> QED
        BY <3>1
    <2>2. t \div p < Pow(k) <=> t < Pow(k) * p
      BY <2>1, DivLess
    <2> QED
      BY <1>5, <2>1, <2>2
  <1>8. \A c \in Classes : Size(c) = Pow(s + c) /\ Size(c) \in Nat
    BY <1>1, SizeDef
  <1>12. x # 0
    <2>1. Size(0) = Pow(s + 0) /\ Size(0) \in Nat /\ Pow(0) = 1
      BY <1>2, <1>8, PowDef
    <2>2. ~(t < Pow(s + 0))
      BY <1>3, <1>4, <2>1
    <2> QED
      BY <1>7, <2>1, <2>2
  <1>6. PICK n \in Nat \ {0} : get_class(size) = {n} /\ x < Pow(n) /\ x >= Pow(n - 1)
    <2>1. get_class(size) = msb_index(x)
      BY <1>1, <1>4, <1>5 DEF get_class, Pow
    <2> QED
      BY <1>12, <2>1, MsbIndex
  <1>9. n \in Classes
    <2> SUFFICES ASSUME n > K
                 PROVE  FALSE
      BY <1>2
    <2>1. n - 1 \in Nat /\ K <= n - 1
      OBVIOUS
    <2>2. Pow(K) <= Pow(n - 1) /\ Pow(K) \in Nat /\ Pow(n - 1) \in Nat
      BY <2>1, PowMono, PowDef
    <2>3. x < Pow(K)
      BY <1>2, <1>3, <1>4, <1>7, <1>8
    <2> QED
      BY <1>6, <2>1, <2>2, <2>3
  <1>10. size <= Size(n)
    <2>1. t < Size(n) /\ Size(n) \in Nat
      BY <1>6, <1>7, <1>8, <1>9
    <2> QED
      BY <1>3, <1>4, <2>1
  <1>11. size > Size(n - 1)
    <2>1. n - 1 \in Nat /\ n - 1 \in Classes
      BY <1>2, <1>9
    <2>2. Pow(n - 1) \in Nat /\ x >= Pow(n - 1)
      BY <1>6, <2>1, PowDef
    <2>3. ~(t < Size(n - 1)) /\ Size(n - 1) \in Nat
      BY <1>7, <1>8, <2>1, <2>2
    <2> QED
      BY <1>3, <1>4, <2>3
  <1> QED
    BY <1>6, <1>9, <1>10, <1>11 DEF Fits

\* Whatever class get_class returns, it holds the size if it is a class at all.
LEMMA ClassHolds ==
  ASSUME NEW size \in 1 .. k_max_class_size, NEW c \in get_class(size), c \in Classes
  PROVE  size <= Size(c)
  <1>1. 0 \in Classes /\ 0 \in Nat /\ c \in Nat /\ Size(0) \in Nat /\ Size(c) \in Nat
    BY HugeAssumption, SizeDef DEF Classes
  <1>2. size \in Nat
    BY HugeAssumption, SizeDef DEF k_max_class_size, Size
  <1>3. CASE size > Size(0)
    BY <1>3, ClassFits DEF Fits
  <1>4. CASE ~(size > Size(0))
    <2>1. PICK s \in Nat : s = k_min_class_bit_shift
      BY HugeAssumption
    <2>2. s + 0 \in Nat /\ s + c \in Nat /\ s + 0 <= s + c
      BY <1>1
    <2>3. Pow(s + 0) <= Pow(s + c)
      BY <2>2, PowMono
    <2>4. Size(0) <= Size(c)
      BY <1>1, <2>1, <2>3, SizeDef
    <2> QED
      BY <1>1, <1>2, <1>4, <2>4
  <1> QED
    BY <1>3, <1>4

LEMMA SlowFits ==
  ASSUME NEW size \in 1 .. k_max_class_size, size > Size(0)
  PROVE  get_class(size) = {get_class_slow(size)}
  <1>1. PICK s \in Nat : s = k_min_class_bit_shift
    BY HugeAssumption
  <1>2. \A c \in Nat : Shl(class_max_size(0), c) = Pow(s + c)
    <2>1. class_max_size(0) = Pow(s)
      BY <1>1 DEF class_max_size, Pow
    <2> QED
      BY <2>1, PowSum
  <1>3. \A c \in Classes : c \in Nat /\ Size(c) = Pow(s + c) /\ Size(c) \in Nat
    BY <1>1, SizeDef
  <1>4. \A c \in Classes : Shl(class_max_size(0), c) = Size(c)
    BY <1>2, <1>3
  <1> DEFINE P(c) == size <= Size(c) /\ \A d \in 0 .. c - 1 : size > Size(d)
  <1>5. size \in Nat
    BY HugeAssumption, SizeDef DEF k_max_class_size, Size
  <1>6. ASSUME NEW c \in Classes
        PROVE  P(c) <=> Fits(size, c)
    <2>1. c \in Nat /\ \A d \in 0 .. c - 1 : d \in Classes /\ c - 1 \in Classes /\ c - 1 \in Nat /\ d <= c - 1
      BY HugeAssumption DEF Classes
    <2>2. ASSUME NEW d \in 0 .. c - 1, size > Size(c - 1)
          PROVE  size > Size(d)
      <3>1. s + d \in Nat /\ s + (c - 1) \in Nat /\ s + d <= s + (c - 1) /\ d \in Classes /\ c - 1 \in Classes
        BY <2>1
      <3>2. Pow(s + d) <= Pow(s + (c - 1))
        BY <3>1, PowMono
      <3>3. Size(d) <= Size(c - 1) /\ Size(d) \in Nat /\ Size(c - 1) \in Nat
        BY <1>3, <3>1, <3>2
      <3> QED
        BY <1>5, <2>2, <3>3
    <2>3. c # 0 => c - 1 \in 0 .. c - 1
      BY <2>1
    <2>4. c = 0 => 0 .. c - 1 = {}
      OBVIOUS
    <2> QED
      BY <2>1, <2>2, <2>3, <2>4 DEF Fits
  <1>7. get_class_slow(size) = CHOOSE c \in Classes : P(c)
    <2>1. \A c \in Classes : \A d \in 0 .. c - 1 : d \in Classes
      BY HugeAssumption DEF Classes
    <2>2. \A c \in Classes : (/\ size <= Shl(class_max_size(0), c)
                              /\ \A d \in 0 .. c - 1 : size > Shl(class_max_size(0), d)) <=> P(c)
      BY <1>4, <2>1
    <2> QED
      BY <2>2 DEF get_class_slow
  <1> HIDE DEF P
  <1>8. PICK n \in Classes : get_class(size) = {n} /\ Fits(size, n)
    BY ClassFits
  <1>9. PICK g \in Classes : g = get_class_slow(size) /\ P(g)
    BY <1>6, <1>7, <1>8
  <1> QED
    BY <1>5, <1>6, <1>8, <1>9, FitsUnique

LEMMA ClassesAgreeHolds == ClassesAgree
  <1> SUFFICES ASSUME NEW size \in Size(0) + 1 .. k_max_class_size
               PROVE  get_class(size) = {get_class_slow(size)}
    BY DEF ClassesAgree, Size
  <1>1. 0 \in Classes /\ Size(0) \in Nat /\ k_max_class_size \in Nat
    BY HugeAssumption, SizeDef DEF Classes, k_max_class_size, Size
  <1>2. size \in 1 .. k_max_class_size /\ size > Size(0)
    BY <1>1
  <1> QED
    BY <1>2, SlowFits

-----------------------------------------------------------------------------
(* Tilings: a block is a triple of an address, a class and a tag *)

Cover(x) == Bytes(x[1], x[2])
Tiling(B, U) ==
    /\ \A x, y \in B : \A u : u \in Cover(x) /\ u \in Cover(y) => x = y
    /\ \A u : u \in U <=> \E x \in B : u \in Cover(x)

\* A block may be replaced by blocks that tile it, and a region with its tiling
\* may be added.
LEMMA TileReplace ==
  ASSUME NEW B, NEW U, NEW x \in B, NEW N, Tiling(B, U), Tiling(N, Cover(x))
  PROVE  Tiling((B \ {x}) \cup N, U)
  <1> DEFINE C == (B \ {x}) \cup N
  <1>1. ASSUME NEW y \in C, NEW z \in C, NEW u, u \in Cover(y), u \in Cover(z)
        PROVE  y = z
    BY <1>1 DEF Tiling
  <1>2. ASSUME NEW u
        PROVE  u \in U <=> \E y \in C : u \in Cover(y)
    <2>1. ASSUME u \in U
          PROVE  \E y \in C : u \in Cover(y)
      BY <2>1 DEF Tiling
    <2>2. ASSUME NEW y \in C, u \in Cover(y)
          PROVE  u \in U
      BY <2>2 DEF Tiling
    <2> QED
      BY <2>1, <2>2
  <1> HIDE DEF C
  <1>3. Tiling(C, U)
    BY <1>1, <1>2 DEF Tiling
  <1> QED
    BY <1>3 DEF C

LEMMA TileAdd ==
  ASSUME NEW B, NEW U, NEW N, NEW V, Tiling(B, U), Tiling(N, V), U \cap V = {}
  PROVE  Tiling(B \cup N, U \cup V)
  <1>1. ASSUME NEW y \in B \cup N, NEW z \in B \cup N, NEW u, u \in Cover(y), u \in Cover(z)
        PROVE  y = z
    BY <1>1 DEF Tiling
  <1>2. ASSUME NEW u
        PROVE  u \in U \cup V <=> \E y \in B \cup N : u \in Cover(y)
    BY DEF Tiling
  <1> QED
    BY <1>1, <1>2 DEF Tiling

-----------------------------------------------------------------------------
(* The blocks of freelists and of MsgBuffers *)

Lists == [Classes -> Seq(Nat)]
FreeBlock(fl, c, i) == <<fl[c][i], c, <<i>>>>
UsedBlock(m) == <<m.buf, m.class, <<m.max_data, m.num_pkts>>>>

\* Membership in the blocks, and when two are the same.
LEMMA InFree ==
  ASSUME NEW fl, NEW x
  PROVE  x \in FreeBlocks(fl) <=> \E c \in Classes : \E i \in 1 .. Len(fl[c]) : x = FreeBlock(fl, c, i)
  BY DEF FreeBlocks, FreeBlock

LEMMA InUsed ==
  ASSUME NEW mb, NEW x
  PROVE  x \in UsedBlocks(mb) <=> \E m \in mb : x = UsedBlock(m)
  BY DEF UsedBlocks, UsedBlock

LEMMA FreeNotUsed ==
  ASSUME NEW fl, NEW c, NEW i, NEW m
  PROVE  FreeBlock(fl, c, i) # UsedBlock(m)
  <1>1. <<i>> # <<m.max_data, m.num_pkts>>
    <2>1. Len(<<i>>) = 1 /\ Len(<<m.max_data, m.num_pkts>>) = 2
      OBVIOUS
    <2> QED
      BY <2>1
  <1>2. FreeBlock(fl, c, i)[3] = <<i>> /\ UsedBlock(m)[3] = <<m.max_data, m.num_pkts>>
    BY DEF FreeBlock, UsedBlock
  <1> QED
    BY <1>1, <1>2

LEMMA FreeSame ==
  ASSUME NEW fl, NEW fm, NEW c, NEW d, NEW i, NEW j,
         FreeBlock(fl, c, i) = FreeBlock(fm, d, j)
  PROVE  c = d /\ i = j /\ fl[c][i] = fm[d][j]
  <1>1. /\ FreeBlock(fl, c, i)[1] = fl[c][i] /\ FreeBlock(fl, c, i)[2] = c
        /\ FreeBlock(fl, c, i)[3][1] = i
        /\ FreeBlock(fm, d, j)[1] = fm[d][j] /\ FreeBlock(fm, d, j)[2] = d
        /\ FreeBlock(fm, d, j)[3][1] = j
    BY DEF FreeBlock
  <1> QED
    BY <1>1

\* Class c of gl holds what it holds in fl and then the buffers of t.
Pushed(fl, gl, c, t) ==
    /\ fl \in Lists /\ gl \in Lists /\ c \in Classes /\ t \in Seq(Nat)
    /\ Len(gl[c]) = Len(fl[c]) + Len(t)
    /\ \A i \in 1 .. Len(fl[c]) : gl[c][i] = fl[c][i]
    /\ \A i \in 1 .. Len(t) : gl[c][Len(fl[c]) + i] = t[i]
    /\ \A d \in Classes : d # c => gl[d] = fl[d]
PushedBlocks(fl, c, t) == {<<t[i], c, <<Len(fl[c]) + i>>>> : i \in 1 .. Len(t)}

\* Buffers pushed on a class are blocks added.
LEMMA PushBlocks ==
  ASSUME NEW fl, NEW gl, NEW c, NEW t, Pushed(fl, gl, c, t)
  PROVE  FreeBlocks(gl) = FreeBlocks(fl) \cup PushedBlocks(fl, c, t)
  <1>0. Len(fl[c]) \in Nat /\ Len(t) \in Nat
    BY DEF Pushed, Lists
  <1>1. ASSUME NEW x \in FreeBlocks(gl)
        PROVE  x \in FreeBlocks(fl) \cup PushedBlocks(fl, c, t)
    <2>0. PICK d \in Classes : \E i \in 1 .. Len(gl[d]) : x = FreeBlock(gl, d, i)
      BY <1>1, InFree
    <2>1. PICK i \in 1 .. Len(gl[d]) : x = FreeBlock(gl, d, i)
      BY <2>0
    <2>2. CASE d # c
      <3>1. FreeBlock(gl, d, i) = FreeBlock(fl, d, i) /\ gl[d] = fl[d]
        BY <2>2 DEF Pushed, FreeBlock
      <3> QED
        BY <2>1, <3>1, InFree
    <2>3. CASE d = c /\ i <= Len(fl[c])
      <3>1. i \in 1 .. Len(fl[c])
        BY <1>0, <2>1, <2>3
      <3>2. FreeBlock(gl, c, i) = FreeBlock(fl, c, i)
        BY <3>1 DEF Pushed, FreeBlock
      <3> QED
        BY <2>1, <2>3, <3>1, <3>2, InFree DEF Pushed
    <2>4. CASE d = c /\ ~(i <= Len(fl[c]))
      <3>0. Len(gl[c]) = Len(fl[c]) + Len(t)
        BY DEF Pushed
      <3>1. PICK j \in 1 .. Len(t) : i = Len(fl[c]) + j
        <4>1. i - Len(fl[c]) \in 1 .. Len(t) /\ i = Len(fl[c]) + (i - Len(fl[c]))
          BY <1>0, <2>1, <2>4, <3>0
        <4> QED
          BY <4>1
      <3>2. gl[c][i] = t[j]
        BY <3>1 DEF Pushed
      <3>3. x = <<t[j], c, <<Len(fl[c]) + j>>>>
        BY <2>1, <2>4, <3>1, <3>2 DEF FreeBlock
      <3> QED
        BY <3>3 DEF PushedBlocks
    <2> QED
      BY <2>2, <2>3, <2>4
  <1>2. ASSUME NEW x \in FreeBlocks(fl)
        PROVE  x \in FreeBlocks(gl)
    <2>0. PICK d \in Classes : \E i \in 1 .. Len(fl[d]) : x = FreeBlock(fl, d, i)
      BY <1>2, InFree
    <2>1. PICK i \in 1 .. Len(fl[d]) : x = FreeBlock(fl, d, i)
      BY <2>0
    <2>2. i \in 1 .. Len(gl[d]) /\ gl[d][i] = fl[d][i]
      <3>1. CASE d = c
        <4>1. Len(gl[c]) = Len(fl[c]) + Len(t) /\ gl[c][i] = fl[c][i]
          BY <2>1, <3>1 DEF Pushed
        <4> QED
          BY <1>0, <2>1, <3>1, <4>1
      <3>2. CASE d # c
        BY <2>1, <3>2 DEF Pushed
      <3> QED
        BY <3>1, <3>2
    <2>3. x = FreeBlock(gl, d, i)
      BY <2>1, <2>2 DEF FreeBlock
    <2> QED
      BY <2>2, <2>3, InFree
  <1>3. ASSUME NEW x \in PushedBlocks(fl, c, t)
        PROVE  x \in FreeBlocks(gl)
    <2>1. PICK j \in 1 .. Len(t) : x = <<t[j], c, <<Len(fl[c]) + j>>>>
      BY <1>3 DEF PushedBlocks
    <2>2. /\ Len(gl[c]) = Len(fl[c]) + Len(t) /\ gl[c][Len(fl[c]) + j] = t[j]
          /\ c \in Classes
      BY <2>1 DEF Pushed
    <2>3. Len(fl[c]) + j \in 1 .. Len(gl[c])
      BY <1>0, <2>1, <2>2
    <2>4. x = FreeBlock(gl, c, Len(fl[c]) + j)
      BY <2>1, <2>2 DEF FreeBlock
    <2> QED
      BY <2>2, <2>3, <2>4, InFree
  <1> QED
    BY <1>1, <1>2, <1>3

\* The last buffer of class c is taken.
Pop(fl, c) == [fl EXCEPT ![c] = SubSeq(@, 1, Len(@) - 1)]
Last(fl, c) == FreeBlock(fl, c, Len(fl[c]))

\* Taking the last buffer undoes a push, and takes its block away.
LEMMA PopPushed ==
  ASSUME NEW fl \in Lists, NEW c \in Classes, fl[c] # <<>>
  PROVE  /\ Pushed(Pop(fl, c), fl, c, <<fl[c][Len(fl[c])]>>)
         /\ Len(fl[c]) \in Nat \ {0} /\ fl[c][Len(fl[c])] \in Nat
         /\ Len(Pop(fl, c)[c]) = Len(fl[c]) - 1
         /\ Pop(fl, c) \in Lists
  <1>1. PICK s \in Seq(Nat) : s = fl[c]
    BY DEF Lists
  <1>2. s # <<>> /\ Len(s) \in Nat \ {0} /\ s[Len(s)] \in Nat
    BY <1>1
  <1>3. PICK r \in Seq(Nat) : /\ r = SubSeq(s, 1, Len(s) - 1) /\ Len(r) = Len(s) - 1
                              /\ \A i \in 1 .. Len(r) : r[i] = s[i]
    <2>1. PICK n \in Nat : n = Len(s) - 1 /\ \A i \in 1 .. n : s[i] \in Nat
      BY <1>2
    <2>2. PICK r : r = SubSeq(s, 1, n)
      OBVIOUS
    <2>3. /\ r \in Seq(Nat) /\ Len(r) = IF 1 <= n THEN n - 1 + 1 ELSE 0
          /\ \A i \in 1 .. n - 1 + 1 : r[i] = s[1 + i - 1]
      BY <2>1, <2>2, SubSeqProperties
    <2>4. Len(r) = n /\ 1 .. n - 1 + 1 = 1 .. n /\ \A i \in 1 .. n : 1 + i - 1 = i
      BY <2>3
    <2>5. \A i \in 1 .. n : r[i] = s[i]
      BY <2>3, <2>4
    <2> QED
      BY <2>1, <2>2, <2>3, <2>4, <2>5
  <1>4. /\ Pop(fl, c) \in Lists /\ Pop(fl, c)[c] = r
        /\ \A d \in Classes : d # c => Pop(fl, c)[d] = fl[d]
    BY <1>1, <1>3 DEF Pop, Lists
  <1>5. \A i \in 1 .. 1 : s[Len(r) + i] = <<s[Len(s)]>>[i]
    BY <1>2, <1>3
  <1>6. Len(s) = Len(r) + 1 /\ <<s[Len(s)]>> \in Seq(Nat) /\ Len(<<s[Len(s)]>>) = 1
    BY <1>2, <1>3
  <1> QED
    BY <1>1, <1>2, <1>3, <1>4, <1>5, <1>6 DEF Pushed

LEMMA PopBlocks ==
  ASSUME NEW fl \in Lists, NEW c \in Classes, fl[c] # <<>>
  PROVE  /\ Last(fl, c) \in FreeBlocks(fl)
         /\ FreeBlocks(Pop(fl, c)) = FreeBlocks(fl) \ {Last(fl, c)}
         /\ Last(fl, c) = <<fl[c][Len(fl[c])], c, <<Len(fl[c])>>>>
  <1> DEFINE t == <<fl[c][Len(fl[c])]>>
             gl == Pop(fl, c)
  <1>1. FreeBlocks(fl) = FreeBlocks(gl) \cup PushedBlocks(gl, c, t)
    <2>1. Pushed(gl, fl, c, t)
      BY PopPushed
    <2> HIDE DEF gl, t
    <2> QED
      BY <2>1, PushBlocks
  <1>2. PICK n \in Nat \ {0} : n = Len(fl[c]) /\ Len(gl[c]) = n - 1
    BY PopPushed
  <1>3. PushedBlocks(gl, c, t) = {Last(fl, c)}
    <2>1. 1 .. Len(t) = {1} /\ t[1] = fl[c][n] /\ (n - 1) + 1 = n
      BY <1>2
    <2> QED
      BY <1>2, <2>1 DEF PushedBlocks, Last, FreeBlock
  <1>4. Last(fl, c) \notin FreeBlocks(gl)
    <2> SUFFICES ASSUME NEW d \in Classes, NEW i \in 1 .. Len(gl[d]),
                        Last(fl, c) = FreeBlock(gl, d, i)
                 PROVE  FALSE
      BY InFree
    <2>1. c = d /\ Len(fl[c]) = i
      BY FreeSame DEF Last
    <2>2. i = n /\ i \in 1 .. n - 1
      BY <1>2, <2>1
    <2> QED
      BY <2>2
  <1>5. Last(fl, c) = <<fl[c][Len(fl[c])], c, <<Len(fl[c])>>>>
    BY DEF Last, FreeBlock
  <1> HIDE DEF gl, t
  <1>6. FreeBlocks(gl) = FreeBlocks(fl) \ {Last(fl, c)} /\ Last(fl, c) \in FreeBlocks(fl)
    BY <1>1, <1>3, <1>4
  <1> QED
    BY <1>5, <1>6 DEF gl

\* The two ways in which the code pushes.
LEMMA PushConcat ==
  ASSUME NEW fl \in Lists, NEW c \in Classes, NEW t \in Seq(Nat)
  PROVE  Pushed(fl, [fl EXCEPT ![c] = @ \o t], c, t)
  <1>1. PICK s \in Seq(Nat) : s = fl[c]
    BY DEF Lists
  <1>2. PICK r \in Seq(Nat) : /\ r = s \o t /\ Len(r) = Len(s) + Len(t)
                              /\ \A i \in 1 .. Len(s) : r[i] = s[i]
                              /\ \A i \in 1 .. Len(t) : r[Len(s) + i] = t[i]
    <2>1. PICK r : r = s \o t
      OBVIOUS
    <2>2. r \in Seq(Nat) /\ Len(r) = Len(s) + Len(t)
      BY <2>1
    <2>3. \A i \in 1 .. Len(s) : r[i] = s[i]
      BY <2>1
    <2>4. \A i \in 1 .. Len(t) : r[Len(s) + i] = t[i]
      BY <2>1
    <2> QED
      BY <2>1, <2>2, <2>3, <2>4
  <1>3. PICK gl : gl = [fl EXCEPT ![c] = @ \o t]
    OBVIOUS
  <1>4. gl \in Lists /\ gl[c] = r /\ \A d \in Classes : d # c => gl[d] = fl[d]
    BY <1>1, <1>2, <1>3 DEF Lists
  <1>5. Pushed(fl, gl, c, t)
    BY <1>1, <1>2, <1>4 DEF Pushed
  <1> QED
    BY <1>3, <1>5

LEMMA PushAppend ==
  ASSUME NEW fl \in Lists, NEW c \in Classes, NEW a \in Nat
  PROVE  Pushed(fl, [fl EXCEPT ![c] = Append(@, a)], c, <<a>>)
  <1>1. PICK s \in Seq(Nat) : s = fl[c]
    BY DEF Lists
  <1>2. PICK r \in Seq(Nat) : /\ r = Append(s, a) /\ Len(r) = Len(s) + 1
                              /\ \A i \in 1 .. Len(s) : r[i] = s[i]
                              /\ r[Len(s) + 1] = a
    <2>1. PICK r : r = Append(s, a)
      OBVIOUS
    <2>2. r \in Seq(Nat) /\ Len(r) = Len(s) + 1
      BY <2>1
    <2>3. \A i \in 1 .. Len(s) : r[i] = s[i]
      BY <2>1
    <2>4. r[Len(s) + 1] = a
      BY <2>1
    <2> QED
      BY <2>1, <2>2, <2>3, <2>4
  <1>3. PICK gl : gl = [fl EXCEPT ![c] = Append(@, a)]
    OBVIOUS
  <1>4. gl \in Lists /\ gl[c] = r /\ \A d \in Classes : d # c => gl[d] = fl[d]
    BY <1>1, <1>2, <1>3 DEF Lists
  <1>5. PICK t \in Seq(Nat) : t = <<a>> /\ Len(t) = 1 /\ \A i \in 1 .. Len(t) : i = 1 /\ t[i] = a
    <2>1. <<a>> \in Seq(Nat) /\ Len(<<a>>) = 1 /\ <<a>>[1] = a /\ \A i \in 1 .. 1 : i = 1
      OBVIOUS
    <2> QED
      BY <2>1
  <1>6. Pushed(fl, gl, c, t)
    BY <1>1, <1>2, <1>4, <1>5 DEF Pushed
  <1> QED
    BY <1>3, <1>5, <1>6

\* The bytes of a block.
LEMMA CoverDef ==
  ASSUME NEW a \in Nat, NEW c \in Classes, NEW t, NEW u
  PROVE  u \in Cover(<<a, c, t>>) <=> u \in Nat /\ a <= u /\ u < a + Size(c)
  <1>1. PICK z \in Nat : z = Size(c)
    BY SizeDef
  <1>2. Cover(<<a, c, t>>) = a .. a + z - 1
    BY <1>1 DEF Cover, Bytes, Size
  <1>3. u \in a .. a + z - 1 <=> u \in Nat /\ a <= u /\ u < a + z
    OBVIOUS
  <1> QED
    BY <1>1, <1>2, <1>3

\* The two halves of a buffer tile it.
LEMMA Halves ==
  ASSUME NEW a \in Nat, NEW c \in Classes, c - 1 \in Classes, NEW t, NEW i, NEW j, i # j
  PROVE  /\ Size(c) \div 2 \in Nat
         /\ Tiling({<<a, c - 1, <<i>>>>, <<a + Size(c) \div 2, c - 1, <<j>>>>}, Cover(<<a, c, t>>))
  <1>1. PICK h \in Nat : h = Size(c - 1) /\ Size(c) = 2 * h /\ Size(c) \div 2 = h
    <2>1. (c - 1) + 1 = c /\ c - 1 \in Nat
      BY HugeAssumption DEF Classes
    <2>2. Size(c) = 2 * Size(c - 1) /\ Size(c - 1) \in Nat
      BY <2>1, SizeDef
    <2>3. \A h \in Nat : (2 * h) \div 2 = h
      OBVIOUS
    <2> QED
      BY <2>2, <2>3
  <1>2. PICK x, y : x = <<a, c - 1, <<i>>>> /\ y = <<a + h, c - 1, <<j>>>>
    OBVIOUS
  <1>3. x # y
    BY <1>2
  <1>4. \A u : u \in Cover(x) <=> u \in Nat /\ a <= u /\ u < a + h
    BY <1>1, <1>2, CoverDef
  <1>5. \A u : u \in Cover(y) <=> u \in Nat /\ a + h <= u /\ u < a + h + h
    <2>1. a + h \in Nat
      OBVIOUS
    <2>2. \A u : u \in Cover(y) <=> u \in Nat /\ a + h <= u /\ u < (a + h) + h
      BY <1>1, <1>2, <2>1, CoverDef
    <2> QED
      BY <2>2
  <1>6. PICK V : V = Cover(<<a, c, t>>) /\ \A u : u \in V <=> u \in Nat /\ a <= u /\ u < a + 2 * h
    BY <1>1, CoverDef
  <1>7. ASSUME NEW u
        PROVE  /\ ~(u \in Cover(x) /\ u \in Cover(y))
               /\ u \in V <=> u \in Cover(x) \/ u \in Cover(y)
    BY <1>4, <1>5, <1>6
  <1>8. Tiling({x, y}, V)
    BY <1>7 DEF Tiling
  <1> QED
    BY <1>1, <1>2, <1>6, <1>8

\* One step of the loop of alloc.
LEMMA SplitStep ==
  ASSUME NEW fl \in Lists, NEW c \in Classes, c - 1 \in Classes, fl[c] # <<>>,
         NEW mb, NEW U, Tiling(FreeBlocks(fl) \cup UsedBlocks(mb), U)
  PROVE  /\ split(fl, c) \in Lists
         /\ Tiling(FreeBlocks(split(fl, c)) \cup UsedBlocks(mb), U)
         /\ split(fl, c)[c - 1] # <<>>
         /\ \A d \in Classes : d # c /\ d # c - 1 => split(fl, c)[d] = fl[d]
  <1>1. PICK b \in Nat : b = fl[c][Len(fl[c])]
    BY PopPushed
  <1>2. PICK h \in Nat : h = Size(c) \div 2
    BY <1>1, Halves
  <1>3. PICK gl \in Lists : gl = Pop(fl, c)
    BY PopPushed
  <1>4. PICK t \in Seq(Nat) : t = <<b, b + h>> /\ Len(t) = 2 /\ t[1] = b /\ t[2] = b + h
    <2>1. /\ <<b, b + h>> \in Seq(Nat) /\ Len(<<b, b + h>>) = 2
          /\ <<b, b + h>>[1] = b /\ <<b, b + h>>[2] = b + h
      OBVIOUS
    <2> QED
      BY <2>1
  <1>5. PICK hl : hl = [gl EXCEPT ![c - 1] = @ \o t]
    OBVIOUS
  <1>6. split(fl, c) = hl
    <2>1. c \in Int /\ c # c - 1
      BY HugeAssumption DEF Classes
    <2> QED
      BY <1>1, <1>2, <1>3, <1>4, <1>5, <2>1 DEF split, Pop, Size, Lists
  <1>7. Pushed(gl, hl, c - 1, t)
    BY <1>5, PushConcat
  <1>8. FreeBlocks(hl) = FreeBlocks(gl) \cup PushedBlocks(gl, c - 1, t)
    BY <1>7, PushBlocks
  <1>9. PICK n \in Nat : n = Len(gl[c - 1])
    BY DEF Lists
  <1>10. PushedBlocks(gl, c - 1, t) = {<<b, c - 1, <<n + 1>>>>, <<b + h, c - 1, <<n + 2>>>>}
    <2>1. 1 .. Len(t) = {1, 2}
      BY <1>4
    <2> QED
      BY <1>4, <1>9, <2>1 DEF PushedBlocks
  <1>11. PICK x : /\ x = Last(fl, c) /\ x \in FreeBlocks(fl) /\ x = <<b, c, <<Len(fl[c])>>>>
                  /\ FreeBlocks(gl) = FreeBlocks(fl) \ {x}
    BY <1>1, <1>3, PopBlocks
  <1>12. Tiling(PushedBlocks(gl, c - 1, t), Cover(x))
    <2>1. n + 1 # n + 2
      OBVIOUS
    <2>2. PICK i, j, k : i = n + 1 /\ j = n + 2 /\ k = <<Len(fl[c])>> /\ i # j
      BY <2>1
    <2>3. Tiling({<<b, c - 1, <<i>>>>, <<b + Size(c) \div 2, c - 1, <<j>>>>}, Cover(<<b, c, k>>))
      BY <2>2, Halves
    <2> QED
      BY <1>2, <1>10, <1>11, <2>2, <2>3
  <1>13. x \notin UsedBlocks(mb)
    <2>1. PICK i : x = FreeBlock(fl, c, i)
      BY <1>11 DEF Last
    <2> QED
      BY <2>1, InUsed, FreeNotUsed
  <1>14. PICK B : B = FreeBlocks(fl) \cup UsedBlocks(mb) /\ Tiling(B, U) /\ x \in B
    BY <1>11
  <1>15. Tiling((B \ {x}) \cup PushedBlocks(gl, c - 1, t), U)
    BY <1>12, <1>14, TileReplace
  <1>16. (B \ {x}) \cup PushedBlocks(gl, c - 1, t) = FreeBlocks(hl) \cup UsedBlocks(mb)
    BY <1>8, <1>11, <1>13, <1>14
  <1>17. hl \in Lists /\ hl[c - 1] # <<>> /\ \A d \in Classes : d # c /\ d # c - 1 => hl[d] = fl[d]
    <2>1. hl \in Lists /\ Len(hl[c - 1]) = n + 2 /\ \A d \in Classes : d # c - 1 => hl[d] = gl[d]
      BY <1>4, <1>7, <1>9 DEF Pushed
    <2>2. \A d \in Classes : d # c => gl[d] = fl[d]
      BY <1>3 DEF Pop, Lists
    <2>3. n + 2 # 0 /\ Len(<<>>) = 0
      OBVIOUS
    <2> QED
      BY <2>1, <2>2, <2>3
  <1> QED
    BY <1>6, <1>15, <1>16, <1>17

\* SplitDown is a function on c .. next, whose value at d is what the loop has
\* made of the freelists when it has come down to d.
LEMMA SplitDownDef ==
  ASSUME NEW fl, NEW next \in Nat, NEW c \in Nat, c <= next
  PROVE  /\ SplitDown(fl, next, c)[next] = fl
         /\ \A d \in c .. next - 1 :
               SplitDown(fl, next, c)[d] = split(SplitDown(fl, next, c)[d + 1], d + 1)
  <1> DEFINE P(k, g) == /\ g = [d \in next - k .. next |-> g[d]]
                        /\ g[next] = fl
                        /\ \A d \in next - k .. next - 1 : g[d] = split(g[d + 1], d + 1)
             S == {k \in Nat : \E g : P(k, g)}
  <1>1. 0 \in S
    <2>1. next - 0 .. next = {next} /\ next - 0 .. next - 1 = {}
      OBVIOUS
    <2>2. P(0, [d \in {next} |-> fl])
      BY <2>1
    <2> QED
      BY <2>2
  <1>2. ASSUME NEW k \in Nat, k \in S
        PROVE  k + 1 \in S
    <2>1. PICK g : P(k, g)
      BY <1>2
    <2>2. PICK e \in Int : /\ e = next - (k + 1) /\ next - k = e + 1 /\ e + 1 <= next
                           /\ e .. next = {e} \cup (e + 1 .. next)
                           /\ e .. next - 1 = {e} \cup (e + 1 .. next - 1)
                           /\ e \notin e + 1 .. next
                           /\ \A d \in e .. next - 1 : d + 1 \in e + 1 .. next
                           /\ next \in e + 1 .. next
      OBVIOUS
    <2>3. PICK h : h = [d \in e .. next |-> IF d = e THEN split(g[d + 1], d + 1) ELSE g[d]]
      OBVIOUS
    <2>4. h[e] = split(g[e + 1], e + 1) /\ \A d \in e + 1 .. next : h[d] = g[d]
      BY <2>2, <2>3
    <2>5. h = [d \in e .. next |-> h[d]]
      BY <2>3
    <2>6. h[next] = fl
      BY <2>1, <2>2, <2>4
    <2>7. ASSUME NEW d \in e .. next - 1
          PROVE  h[d] = split(h[d + 1], d + 1)
      <3>1. h[d + 1] = g[d + 1]
        BY <2>2, <2>4
      <3>2. CASE d = e
        BY <2>4, <3>1, <3>2
      <3>3. CASE d # e
        <4>1. d \in e + 1 .. next - 1 /\ d \in e + 1 .. next
          BY <2>2, <3>3
        <4>2. g[d] = split(g[d + 1], d + 1)
          BY <2>1, <2>2, <4>1
        <4> QED
          BY <2>4, <3>1, <4>1, <4>2
      <3> QED
        BY <3>2, <3>3
    <2>8. P(k + 1, h)
      <3>1. /\ h = [d \in next - (k + 1) .. next |-> h[d]]
            /\ \A d \in next - (k + 1) .. next - 1 : h[d] = split(h[d + 1], d + 1)
        BY <2>2, <2>5, <2>7
      <3> QED
        BY <2>6, <3>1
    <2> HIDE DEF P
    <2> QED
      BY <2>8
  <1>3. \A k \in Nat : k \in S
    <2> HIDE DEF S
    <2> QED
      BY <1>1, <1>2, Induction
  <1>4. next - c \in Nat /\ next - (next - c) = c
    OBVIOUS
  <1>5. PICK g : P(next - c, g)
    BY <1>3, <1>4
  <1>6. g = [d \in c .. next |-> IF d = next THEN fl ELSE split(g[d + 1], d + 1)]
    <2>1. \A d \in c .. next : d # next => d \in c .. next - 1
      OBVIOUS
    <2>2. \A d \in c .. next : g[d] = IF d = next THEN fl ELSE split(g[d + 1], d + 1)
      BY <1>4, <1>5, <2>1
    <2>3. g = [d \in c .. next |-> g[d]]
      BY <1>4, <1>5
    <2> QED
      BY <2>2, <2>3
  <1> DEFINE f == CHOOSE f : f = [d \in c .. next |-> IF d = next THEN fl ELSE split(f[d + 1], d + 1)]
  <1>7. f = [d \in c .. next |-> IF d = next THEN fl ELSE split(f[d + 1], d + 1)]
    BY <1>6
  <1>8. SplitDown(fl, next, c) = f
    BY DEF SplitDown
  <1> HIDE DEF f
  <1>9. f[next] = fl /\ \A d \in c .. next - 1 : f[d] = split(f[d + 1], d + 1)
    <2>1. next \in c .. next /\ \A d \in c .. next - 1 : d \in c .. next /\ d # next
      OBVIOUS
    <2> QED
      BY <1>7, <2>1
  <1> QED
    BY <1>8, <1>9

\* What the loop keeps at class d on its way down to c.
Going(f, d, c, mb, U) ==
    /\ f \in Lists /\ f[d] # <<>>
    /\ \A e \in c .. d - 1 : f[e] = <<>>
    /\ Tiling(FreeBlocks(f) \cup UsedBlocks(mb), U)

\* One turn of the loop, and all of it.
LEMMA GoingDown ==
  ASSUME NEW f, NEW d \in Nat, NEW c \in Nat, c < d, d \in Classes, NEW mb, NEW U,
         Going(f, d, c, mb, U)
  PROVE  Going(split(f, d), d - 1, c, mb, U) /\ f[d] # <<>> /\ f[d - 1] = <<>>
  <1>1. d - 1 \in Classes /\ d - 1 \in c .. d - 1
    BY HugeAssumption DEF Classes
  <1>2. f \in Lists /\ f[d] # <<>> /\ Tiling(FreeBlocks(f) \cup UsedBlocks(mb), U)
    BY DEF Going
  <1>3. /\ split(f, d) \in Lists
        /\ Tiling(FreeBlocks(split(f, d)) \cup UsedBlocks(mb), U)
        /\ split(f, d)[d - 1] # <<>>
        /\ \A e \in Classes : e # d /\ e # d - 1 => split(f, d)[e] = f[e]
    BY <1>1, <1>2, SplitStep
  <1>4. ASSUME NEW e \in c .. (d - 1) - 1
        PROVE  split(f, d)[e] = <<>>
    <2>1. e \in c .. d - 1 /\ e \in Classes /\ e # d /\ e # d - 1
      BY HugeAssumption DEF Classes
    <2>2. f[e] = <<>>
      BY <2>1 DEF Going
    <2> QED
      BY <1>3, <2>1, <2>2
  <1>5. f[d - 1] = <<>>
    BY <1>1 DEF Going
  <1> QED
    BY <1>2, <1>3, <1>4, <1>5 DEF Going

LEMMA GoneDown ==
  ASSUME NEW fl, NEW next \in Classes, NEW c \in Classes, c <= next, NEW mb, NEW U,
         Going(fl, next, c, mb, U)
  PROVE  /\ Going(SplitDown(fl, next, c)[c], c, c, mb, U)
         /\ split_asserts(fl, next, c)
  <1>1. next \in Nat /\ c \in Nat
    BY SizeDef
  <1>2. PICK f : f = SplitDown(fl, next, c)
    OBVIOUS
  <1>3. f[next] = fl /\ \A d \in c .. next - 1 : f[d] = split(f[d + 1], d + 1)
    BY <1>1, <1>2, SplitDownDef
  <1> DEFINE S == {k \in Nat : next - k >= c => Going(f[next - k], next - k, c, mb, U)}
  <1>4. 0 \in S
    BY <1>1, <1>3
  <1>5. ASSUME NEW k \in Nat, k \in S
        PROVE  k + 1 \in S
    <2> SUFFICES ASSUME next - (k + 1) >= c
                 PROVE  Going(f[next - (k + 1)], next - (k + 1), c, mb, U)
      OBVIOUS
    <2>1. PICK d \in Nat : /\ d = next - k /\ next - (k + 1) = d - 1 /\ c < d /\ d \in Classes
                           /\ d - 1 \in c .. next - 1 /\ (d - 1) + 1 = d
      BY <1>1, HugeAssumption DEF Classes
    <2>2. Going(f[d], d, c, mb, U)
      BY <1>5, <2>1
    <2>3. f[d - 1] = split(f[d], d)
      BY <1>3, <2>1
    <2>4. Going(split(f[d], d), d - 1, c, mb, U)
      BY <1>1, <2>1, <2>2, GoingDown
    <2> QED
      BY <2>1, <2>3, <2>4
  <1>6. \A k \in Nat : k \in S
    <2> HIDE DEF S
    <2> QED
      BY <1>4, <1>5, Induction
  <1>7. ASSUME NEW d \in c .. next
        PROVE  Going(f[d], d, c, mb, U)
    <2>1. next - d \in Nat /\ next - (next - d) = d /\ d >= c
      BY <1>1
    <2> QED
      BY <1>6, <2>1
  <1> HIDE DEF S
  <1>8. ASSUME NEW d \in c + 1 .. next
        PROVE  f[d][d] # <<>> /\ f[d][d - 1] = <<>>
    <2>1. d \in Nat /\ c < d /\ d \in Classes /\ d \in c .. next
      BY <1>1, HugeAssumption DEF Classes
    <2>2. Going(f[d], d, c, mb, U)
      BY <1>7, <2>1
    <2> QED
      BY <1>1, <2>1, <2>2, GoingDown
  <1>9. split_asserts(fl, next, c)
    BY <1>2, <1>8 DEF split_asserts
  <1>10. c \in c .. next
    BY <1>1
  <1> QED
    BY <1>2, <1>7, <1>9, <1>10

-----------------------------------------------------------------------------
(* A new region *)

\* The bytes of a region are tiled by its buffers, of the largest class.
RegionBytes(R, n) == R .. R + n * k_max_class_size - 1
RegionBlocks(R, n, l) ==
    {<<R + (i - 1) * k_max_class_size, k_num_classes - 1, <<l + i>>>> : i \in 1 .. n}

LEMMA RegionTiles ==
  ASSUME NEW R \in Nat, NEW n \in Nat, NEW l \in Nat
  PROVE  Tiling(RegionBlocks(R, n, l), RegionBytes(R, n))
  <1>1. PICK K \in Nat \ {0}, T \in Classes : /\ K = k_max_class_size /\ T = k_num_classes - 1
                                              /\ Size(T) = K
    BY HugeAssumption, SizeDef DEF Classes, k_max_class_size, Size
  <1> DEFINE B(i) == <<R + (i - 1) * K, T, <<l + i>>>>
  <1>2. ASSUME NEW i \in 1 .. n, NEW u
        PROVE  u \in Cover(B(i)) <=> u \in Nat /\ R + (i - 1) * K <= u /\ u < R + i * K
    <2>1. PICK a \in Nat : a = (i - 1) * K /\ i * K = a + K
      <3>1. i - 1 \in Nat /\ i \in Nat
        OBVIOUS
      <3>2. (i - 1) * K \in Nat /\ i * K = (i - 1) * K + K
        BY <3>1
      <3> QED
        BY <3>2
    <2>2. R + a \in Nat
      OBVIOUS
    <2>3. u \in Cover(<<R + a, T, <<l + i>>>>) <=> u \in Nat /\ R + a <= u /\ u < (R + a) + K
      BY <1>1, <2>2, CoverDef
    <2> QED
      BY <2>1, <2>3
  <1>3. PICK N \in Nat : N = n * K
    OBVIOUS
  <1>4. ASSUME NEW u
        PROVE  u \in RegionBytes(R, n) <=> u \in Nat /\ R <= u /\ u < R + N
    BY <1>1, <1>3 DEF RegionBytes
  <1>5. \A x : x \in RegionBlocks(R, n, l) <=> \E i \in 1 .. n : x = B(i)
    BY <1>1 DEF RegionBlocks
  <1>6. ASSUME NEW i \in 1 .. n, NEW j \in 1 .. n, NEW u, u \in Cover(B(i)), u \in Cover(B(j)), i < j
        PROVE  FALSE
    <2>1. PICK a \in Nat, b \in Nat : a = i * K /\ b = (j - 1) * K
      <3>1. i \in Nat /\ j - 1 \in Nat
        OBVIOUS
      <3> QED
        BY <3>1
    <2>2. a <= b
      <3>1. i \in Nat /\ j - 1 \in Nat /\ i <= j - 1
        BY <1>6
      <3> QED
        BY <2>1, <3>1, TimesMono
    <2>3. u \in Nat /\ u < R + a /\ R + b <= u
      BY <1>2, <1>6, <2>1
    <2> QED
      BY <2>2, <2>3
  <1>7. ASSUME NEW x \in RegionBlocks(R, n, l), NEW y \in RegionBlocks(R, n, l), NEW u,
               u \in Cover(x), u \in Cover(y)
        PROVE  x = y
    <2>1. PICK i \in 1 .. n, j \in 1 .. n : x = B(i) /\ y = B(j)
      BY <1>5
    <2>2. ~(i < j) /\ ~(j < i)
      BY <1>6, <1>7, <2>1
    <2>3. i = j
      BY <2>2
    <2> QED
      BY <2>1, <2>3
  <1>8. ASSUME NEW u, u \in RegionBytes(R, n)
        PROVE  \E x \in RegionBlocks(R, n, l) : u \in Cover(x)
    <2>1. PICK v \in Nat : u = R + v /\ v < N /\ u \in Nat
      <3>1. u \in Nat /\ R <= u /\ u < R + N
        BY <1>4, <1>8
      <3>2. u - R \in Nat /\ u = R + (u - R) /\ u - R < N
        BY <3>1
      <3> QED
        BY <3>1, <3>2
    <2>2. PICK k \in Nat : k = v \div K
      BY DivLess
    <2>3. k < n
      BY <1>3, <2>1, <2>2, DivLess
    <2>4. v < (k + 1) * K
      <3>1. k + 1 \in Nat /\ k < k + 1
        OBVIOUS
      <3> QED
        BY <2>2, <3>1, DivLess
    <2>5. k * K <= v
      <3>1. ~(v < k * K)
        <4>1. ~(k < k)
          OBVIOUS
        <4> QED
          BY <2>2, <4>1, DivLess
      <3>2. k * K \in Nat
        OBVIOUS
      <3> QED
        BY <3>1, <3>2
    <2>6. PICK i \in 1 .. n : i = k + 1 /\ i - 1 = k
      BY <2>3
    <2>7. PICK a \in Nat, b \in Nat : a = (i - 1) * K /\ b = i * K /\ a <= v /\ v < b
      <3>1. k * K \in Nat /\ (k + 1) * K \in Nat
        OBVIOUS
      <3> QED
        BY <2>4, <2>5, <2>6, <3>1
    <2>8. u \in Cover(B(i))
      <3>1. u \in Nat /\ R + a <= u /\ u < R + b
        BY <2>1, <2>7
      <3> QED
        BY <1>2, <2>7, <3>1
    <2> QED
      BY <1>5, <2>8
  <1>9. ASSUME NEW x \in RegionBlocks(R, n, l), NEW u, u \in Cover(x)
        PROVE  u \in RegionBytes(R, n)
    <2>1. PICK i \in 1 .. n : x = B(i)
      BY <1>5
    <2>2. PICK a \in Nat, b \in Nat : a = (i - 1) * K /\ b = i * K /\ b <= N
      <3>1. i - 1 \in Nat /\ i \in Nat /\ i <= n
        OBVIOUS
      <3>2. i * K <= n * K /\ i * K \in Nat /\ (i - 1) * K \in Nat
        BY <3>1, TimesMono
      <3> QED
        BY <1>3, <3>2
    <2>3. u \in Nat /\ R + a <= u /\ u < R + b
      BY <1>2, <1>9, <2>1, <2>2
    <2>4. R <= u /\ u < R + N
      BY <2>2, <2>3
    <2> QED
      BY <1>4, <2>3, <2>4
  <1> QED
    BY <1>7, <1>8, <1>9 DEF Tiling

RegionOf == [base : Nat, size : Nat, registered : BOOLEAN, carved : BOOLEAN]

\* No byte of a region cut into buffers is in another one, and such a region is
\* registered.
Separate(sl) == /\ CarvedIn(sl) \cap RawIn(sl) = {}
                /\ \A i \in 1 .. Len(sl) : sl[i].carved => sl[i].registered
Below(sl, R) == /\ sl \in Seq(RegionOf) /\ R \in Nat
                /\ \A i \in 1 .. Len(sl) : sl[i].base + sl[i].size <= R
                /\ Separate(sl)
Held(m) == /\ m \in MsgBuf /\ m.max_data # 0
           /\ m.num_pkts = data_size_to_num_pkts(m.max_data)
           /\ m.max_data + m.num_pkts * kPktHdr <= Size(m.class)
Tiled(fl, sl, mb) == Tiling(FreeBlocks(fl) \cup UsedBlocks(mb), CarvedIn(sl))
Doubled(pv) == \E n \in Nat \ {0} : pv = n * k_max_class_size

\* Membership in the regions of one kind.
LEMMA InBytes ==
  ASSUME NEW sl, NEW k, NEW u
  PROVE  u \in BytesIn(sl, k) <=>
            \E i \in 1 .. Len(sl) : /\ sl[i].carved = k
                                    /\ u \in sl[i].base .. sl[i].base + sl[i].size - 1
  BY DEF BytesIn

\* The bytes of every region lie below the end of the last one.
LEMMA BytesBelow ==
  ASSUME NEW sl, NEW R, Below(sl, R), NEW k
  PROVE  \A u \in BytesIn(sl, k) : u \in Nat /\ u < R
  <1> SUFFICES ASSUME NEW u \in BytesIn(sl, k)
               PROVE  u \in Nat /\ u < R
    OBVIOUS
  <1>1. PICK i \in 1 .. Len(sl) : u \in sl[i].base .. sl[i].base + sl[i].size - 1
    BY InBytes
  <1>2. PICK b \in Nat, s \in Nat : b = sl[i].base /\ s = sl[i].size /\ b + s <= R
    <2>1. sl[i] \in RegionOf /\ sl[i].base + sl[i].size <= R
      BY DEF Below
    <2>2. sl[i].base \in Nat /\ sl[i].size \in Nat
      BY <2>1 DEF RegionOf
    <2> QED
      BY <2>1, <2>2
  <1>3. R \in Nat
    BY DEF Below
  <1> QED
    BY <1>1, <1>2, <1>3

LEMMA CarvedBelow ==
  ASSUME NEW sl, NEW R, Below(sl, R)
  PROVE  \A u \in CarvedIn(sl) : u \in Nat /\ u < R
  BY BytesBelow DEF CarvedIn

\* A new region behind the others.
Mapped(sl, tl, R, z, f, g) ==
    tl = Append(sl, [base |-> R, size |-> z, registered |-> f, carved |-> g])

LEMMA RegionAdded ==
  ASSUME NEW sl, NEW R, Below(sl, R), NEW z \in Nat, NEW f \in BOOLEAN, NEW g \in BOOLEAN,
         g => f, NEW tl, Mapped(sl, tl, R, z, f, g)
  PROVE  /\ Below(tl, R + z)
         /\ tl # <<>> /\ tl[Len(tl)].base = R /\ tl[Len(tl)].size = z
         /\ CarvedIn(tl) = CarvedIn(sl) \cup (IF g THEN R .. R + z - 1 ELSE {})
  <1>0. R \in Nat /\ sl \in Seq(RegionOf)
    BY DEF Below
  <1>1. PICK r \in RegionOf :
          /\ r = [base |-> R, size |-> z, registered |-> f, carved |-> g]
          /\ r.base = R /\ r.size = z /\ r.registered = f /\ r.carved = g
    <2>1. [base |-> R, size |-> z, registered |-> f, carved |-> g] \in RegionOf
      BY <1>0, Zenon DEF RegionOf
    <2> QED
      BY <2>1, Zenon
  <1>2. PICK n \in Nat : n = Len(sl)
    BY <1>0
  <1>3. /\ tl \in Seq(RegionOf) /\ Len(tl) = n + 1 /\ tl[n + 1] = r
        /\ \A i \in 1 .. n : tl[i] = sl[i]
    <2>1. tl = Append(sl, [base |-> R, size |-> z, registered |-> f, carved |-> g])
      BY DEF Mapped
    <2>2. Append(sl, [base |-> R, size |-> z, registered |-> f, carved |-> g]) = Append(sl, r)
      BY <1>1
    <2>3. tl = Append(sl, r)
      BY ONLY <2>1, <2>2
    <2> QED
      BY ONLY <1>0, <1>2, <2>3, AppendProperties, r \in RegionOf
  <1>4. 1 .. n + 1 = (1 .. n) \cup {n + 1}
    OBVIOUS
  <1>6. ASSUME NEW u, NEW k
        PROVE  u \in BytesIn(tl, k) <=>
                  u \in BytesIn(sl, k) \/ (g = k /\ u \in R .. R + z - 1)
    <2>1. u \in BytesIn(tl, k) <=>
            \E i \in 1 .. n + 1 : tl[i].carved = k /\ u \in tl[i].base .. tl[i].base + tl[i].size - 1
      <3>1. u \in BytesIn(tl, k) <=>
              \E i \in 1 .. Len(tl) : tl[i].carved = k
                                     /\ u \in tl[i].base .. tl[i].base + tl[i].size - 1
        BY InBytes, Zenon
      <3> QED
        BY <1>3, <3>1
    <2>2. u \in BytesIn(sl, k) <=>
            \E i \in 1 .. n : sl[i].carved = k /\ u \in sl[i].base .. sl[i].base + sl[i].size - 1
      BY <1>2, InBytes
    <2> QED
      BY <1>1, <1>3, <1>4, <2>1, <2>2
  <1>8. Separate(tl)
    <2>1. ASSUME NEW u, u \in CarvedIn(tl), u \in RawIn(tl)
          PROVE  FALSE
      <3>1. u \in CarvedIn(sl) \/ (g = TRUE /\ u \in R .. R + z - 1)
        BY <1>6, <2>1 DEF CarvedIn
      <3>2. u \in RawIn(sl) \/ (g = FALSE /\ u \in R .. R + z - 1)
        BY <1>6, <2>1 DEF RawIn
      <3>3. u \in CarvedIn(sl) \/ u \in RawIn(sl) => ~(u \in R .. R + z - 1)
        <4>1. u \in CarvedIn(sl) \/ u \in RawIn(sl) => u \in Nat /\ u < R
          BY BytesBelow DEF CarvedIn, RawIn
        <4> QED
          BY <1>0, <4>1
      <3>4. ~(u \in CarvedIn(sl) /\ u \in RawIn(sl))
        BY DEF Below, Separate
      <3> QED
        BY <3>1, <3>2, <3>3, <3>4
    <2>2. ASSUME NEW i \in 1 .. n + 1, tl[i].carved
          PROVE  tl[i].registered
      <3>1. CASE i = n + 1
        BY <1>1, <1>3, <2>2, <3>1
      <3>2. CASE i \in 1 .. n
        BY <1>2, <1>3, <2>2, <3>2 DEF Below, Separate
      <3> QED
        BY <1>4, <3>1, <3>2
    <2> QED
      BY <1>3, <2>1, <2>2 DEF Separate
  <1>5. Below(tl, R + z)
    <2>1. ASSUME NEW i \in 1 .. n
          PROVE  tl[i].base + tl[i].size <= R + z
      <3>1. PICK b \in Nat, s \in Nat : b = sl[i].base /\ s = sl[i].size /\ b + s <= R
        <4>1. sl[i] \in RegionOf /\ sl[i].base + sl[i].size <= R
          BY <1>2 DEF Below
        <4>2. sl[i].base \in Nat /\ sl[i].size \in Nat
          BY <4>1 DEF RegionOf
        <4> QED
          BY <4>1, <4>2
      <3> QED
        BY <1>0, <1>3, <3>1
    <2>2. tl[n + 1].base + tl[n + 1].size <= R + z
      BY <1>0, <1>1, <1>3
    <2>3. R + z \in Nat
      BY <1>0
    <2> QED
      BY <1>3, <1>4, <1>8, <2>1, <2>2, <2>3 DEF Below
  <1>7. tl # <<>> /\ Len(tl) = n + 1
    BY <1>3
  <1>9. CarvedIn(tl) = CarvedIn(sl) \cup (IF g THEN R .. R + z - 1 ELSE {})
    <2>1. ASSUME NEW u
          PROVE  u \in CarvedIn(tl) <=> u \in CarvedIn(sl) \/ (g = TRUE /\ u \in R .. R + z - 1)
      BY <1>6 DEF CarvedIn
    <2>2. CASE g = TRUE
      BY <2>1, <2>2
    <2>3. CASE g = FALSE
      BY <2>1, <2>3
    <2> QED
      BY <2>2, <2>3
  <1> QED
    BY <1>1, <1>3, <1>5, <1>7, <1>9

\* The bytes of one buffer are as many as its size.
LEMMA BytesCount ==
  ASSUME NEW a \in Nat, NEW c \in Classes
  PROVE  IsFiniteSet(Bytes(a, c)) /\ Cardinality(Bytes(a, c)) = Size(c)
  <1>1. PICK z \in Nat : z = Size(c) /\ z # 0
    BY SizeDef
  <1>2. Bytes(a, c) = a .. a + z - 1
    BY <1>1 DEF Bytes, Size
  <1>3. PICK b \in Int : b = a + z - 1 /\ b - a + 1 = z /\ a <= b /\ a \in Int
    BY <1>1
  <1>4. IsFiniteSet(a .. b) /\ Cardinality(a .. b) = b - a + 1
    BY <1>3, FS_Interval
  <1> QED
    BY <1>1, <1>2, <1>3, <1>4

\* The bytes in use.
LEMMA UsedCover ==
  ASSUME NEW m
  PROVE  Cover(UsedBlock(m)) = Bytes(m.buf, m.class)
  <1>1. UsedBlock(m)[1] = m.buf /\ UsedBlock(m)[2] = m.class
    BY DEF UsedBlock
  <1> QED
    BY <1>1 DEF Cover

LEMMA InUsedBytes ==
  ASSUME NEW mb, NEW u
  PROVE  u \in UsedBytes(mb) <=> \E m \in mb : u \in Cover(UsedBlock(m))
  <1>1. u \in UsedBytes(mb) <=> \E m \in mb : u \in Bytes(m.buf, m.class)
    BY DEF UsedBytes
  <1> QED
    BY <1>1, UsedCover

LEMMA UsedFinite ==
  ASSUME NEW fl, NEW sl, NEW mb, NEW R, Tiled(fl, sl, mb), Below(sl, R)
  PROVE  IsFiniteSet(UsedBytes(mb))
  <1>1. R \in Nat
    BY DEF Below
  <1>2. UsedBytes(mb) \subseteq 0 .. R - 1
    <2> SUFFICES ASSUME NEW u \in UsedBytes(mb)
                 PROVE  u \in 0 .. R - 1
      OBVIOUS
    <2>1. PICK m \in mb : u \in Cover(UsedBlock(m))
      BY InUsedBytes
    <2>2. UsedBlock(m) \in UsedBlocks(mb)
      BY InUsed
    <2>3. u \in CarvedIn(sl)
      BY <2>1, <2>2 DEF Tiled, Tiling
    <2>4. u \in Nat /\ u < R
      BY <2>3, CarvedBelow
    <2> QED
      BY <1>1, <2>4
  <1>3. IsFiniteSet(0 .. R - 1)
    <2>1. 0 \in Int /\ R - 1 \in Int
      BY <1>1
    <2> QED
      BY <2>1, FS_Interval
  <1> QED
    BY <1>2, <1>3, FS_Subset

\* The bytes of a MsgBuffer apart from the others add up.
LEMMA UsedAdds ==
  ASSUME NEW mb, NEW m, Held(m), IsFiniteSet(UsedBytes(mb)),
         \A k \in mb : \A u : ~(u \in Cover(UsedBlock(k)) /\ u \in Cover(UsedBlock(m)))
  PROVE  /\ Cardinality(UsedBytes(mb \cup {m})) = Cardinality(UsedBytes(mb)) + Size(m.class)
         /\ Cardinality(UsedBytes(mb)) \in Nat
  <1>1. m.buf \in Nat /\ m.class \in Classes
    BY DEF Held, MsgBuf
  <1>2. PICK V : /\ V = Bytes(m.buf, m.class) /\ V = Cover(UsedBlock(m))
                 /\ IsFiniteSet(V) /\ Cardinality(V) = Size(m.class)
    BY <1>1, BytesCount, UsedCover
  <1>3. PICK W : W = UsedBytes(mb) /\ IsFiniteSet(W)
    OBVIOUS
  <1>4. UsedBytes(mb \cup {m}) = W \cup V
    <2>1. \A u : u \in UsedBytes(mb \cup {m}) <=> u \in W \/ u \in V
      BY <1>2, <1>3, InUsedBytes
    <2> QED
      BY <2>1
  <1>5. W \cap V = {}
    BY <1>2, <1>3, InUsedBytes
  <1>6. Cardinality(W \cup V) = Cardinality(W) + Cardinality(V) - Cardinality(W \cap V)
    BY <1>2, <1>3, FS_Union
  <1>7. Cardinality(W \cap V) = 0
    BY <1>5, FS_EmptySet
  <1>8. PICK a \in Nat, b \in Nat : a = Cardinality(W) /\ b = Cardinality(V)
    BY <1>2, <1>3, FS_CardinalityType
  <1>9. a + b - 0 = a + b
    OBVIOUS
  <1> QED
    BY <1>2, <1>3, <1>4, <1>6, <1>7, <1>8, <1>9

\* What the allocator keeps: tot counts the bytes in use.
Kept(fl, sl, mb, tot, R) ==
    /\ fl \in Lists /\ Below(sl, R) /\ Tiled(fl, sl, mb)
    /\ tot = Cardinality(UsedBytes(mb))
    /\ \A m \in mb : Held(m)

\* The block of a MsgBuffer determines it.
LEMMA UsedSame ==
  ASSUME NEW m \in MsgBuf, NEW k \in MsgBuf, UsedBlock(m) = UsedBlock(k)
  PROVE  m = k
  <1>1. /\ UsedBlock(m)[1] = m.buf /\ UsedBlock(m)[2] = m.class
        /\ UsedBlock(m)[3][1] = m.max_data /\ UsedBlock(m)[3][2] = m.num_pkts
        /\ UsedBlock(k)[1] = k.buf /\ UsedBlock(k)[2] = k.class
        /\ UsedBlock(k)[3][1] = k.max_data /\ UsedBlock(k)[3][2] = k.num_pkts
    BY DEF UsedBlock
  <1>2. m.buf = k.buf /\ m.class = k.class /\ m.max_data = k.max_data /\ m.num_pkts = k.num_pkts
    BY <1>1
  <1> QED
    BY <1>2 DEF MsgBuf

\* One block tiles itself.
LEMMA Only ==
  ASSUME NEW x
  PROVE  Tiling({x}, Cover(x))
  BY DEF Tiling

\* alloc_from_class takes the last buffer of a class and makes a MsgBuffer of it.
LEMMA Taken ==
  ASSUME NEW fl, NEW sl, NEW mb, NEW tot, NEW R, Kept(fl, sl, mb, tot, R),
         NEW g, NEW c \in Classes, Going(g, c, c, mb, CarvedIn(sl)),
         NEW m, Held(m), m.buf = g[c][Len(g[c])], m.class = c
  PROVE  Kept(Pop(g, c), sl, mb \cup {m}, tot + Size(c), R)
  <1>1. g \in Lists /\ g[c] # <<>> /\ Tiling(FreeBlocks(g) \cup UsedBlocks(mb), CarvedIn(sl))
    BY DEF Going
  <1>2. PICK x : /\ x = Last(g, c) /\ x \in FreeBlocks(g) /\ x = <<g[c][Len(g[c])], c, <<Len(g[c])>>>>
                 /\ FreeBlocks(Pop(g, c)) = FreeBlocks(g) \ {x} /\ Pop(g, c) \in Lists
    BY <1>1, PopBlocks, PopPushed
  <1>3. PICK y : y = UsedBlock(m) /\ Cover(y) = Cover(x)
    <2>1. Cover(x) = Bytes(m.buf, m.class)
      <3>1. x[1] = m.buf /\ x[2] = m.class
        BY <1>2
      <3> QED
        BY <3>1 DEF Cover
    <2> QED
      BY <2>1, UsedCover
  <1>4. x \notin UsedBlocks(mb)
    <2>1. PICK i : x = FreeBlock(g, c, i)
      BY <1>2 DEF Last
    <2> QED
      BY <2>1, InUsed, FreeNotUsed
  <1>5. UsedBlocks(mb \cup {m}) = UsedBlocks(mb) \cup {y}
    <2>1. \A z : z \in UsedBlocks(mb \cup {m}) <=> z \in UsedBlocks(mb) \/ z = y
      BY <1>3, InUsed
    <2> QED
      BY <2>1
  <1>6. PICK B, U : /\ B = FreeBlocks(g) \cup UsedBlocks(mb) /\ U = CarvedIn(sl)
                    /\ Tiling(B, U) /\ x \in B
    BY <1>1, <1>2
  <1>7. Tiling((B \ {x}) \cup {y}, U)
    <2>1. Tiling({y}, Cover(x))
      BY <1>3, Only
    <2> QED
      BY <1>6, <2>1, TileReplace
  <1>8. (B \ {x}) \cup {y} = FreeBlocks(Pop(g, c)) \cup UsedBlocks(mb \cup {m})
    BY <1>2, <1>4, <1>5, <1>6
  <1>9. Tiled(Pop(g, c), sl, mb \cup {m})
    BY <1>6, <1>7, <1>8 DEF Tiled
  <1>10. tot + Size(c) = Cardinality(UsedBytes(mb \cup {m}))
    <2>1. ASSUME NEW k \in mb, NEW u, u \in Cover(UsedBlock(k)), u \in Cover(y)
          PROVE  FALSE
      <3>1. UsedBlock(k) \in UsedBlocks(mb)
        BY InUsed
      <3>2. UsedBlock(k) \in B /\ UsedBlock(k) # x /\ u \in Cover(x)
        BY <1>3, <1>4, <1>6, <2>1, <3>1
      <3> QED
        BY <1>6, <2>1, <3>2 DEF Tiling
    <2>2. IsFiniteSet(UsedBytes(mb))
      BY UsedFinite DEF Kept
    <2>3. \A k \in mb : \A u : ~(u \in Cover(UsedBlock(k)) /\ u \in Cover(UsedBlock(m)))
      BY <1>3, <2>1
    <2>4. Cardinality(UsedBytes(mb \cup {m})) = Cardinality(UsedBytes(mb)) + Size(m.class)
      BY <2>2, <2>3, UsedAdds
    <2> QED
      BY <2>4 DEF Kept
  <1> QED
    BY <1>2, <1>9, <1>10 DEF Kept

\* free_buf puts the buffer of a MsgBuffer at the back of its class.
LEMMA Freed ==
  ASSUME NEW fl, NEW sl, NEW mb, NEW tot, NEW R, Kept(fl, sl, mb, tot, R), NEW m \in mb,
         NEW gl, gl = [fl EXCEPT ![m.class] = Append(@, m.buf)]
  PROVE  Kept(gl, sl, mb \ {m}, tot - Size(m.class), R)
  <1>1. /\ fl \in Lists /\ Below(sl, R) /\ Tiling(FreeBlocks(fl) \cup UsedBlocks(mb), CarvedIn(sl))
        /\ Held(m) /\ m.buf \in Nat /\ m.class \in Classes /\ m \in MsgBuf
        /\ \A k \in mb : k \in MsgBuf
    BY DEF Kept, Tiled, Held, MsgBuf
  <1>2. PICK t : t = <<m.buf>> /\ Pushed(fl, gl, m.class, t)
    BY <1>1, PushAppend
  <1>3. FreeBlocks(gl) = FreeBlocks(fl) \cup PushedBlocks(fl, m.class, t) /\ gl \in Lists
    <2>1. gl \in Lists
      BY <1>2 DEF Pushed
    <2> QED
      BY <1>2, <2>1, PushBlocks
  <1>4. PICK y : /\ PushedBlocks(fl, m.class, t) = {y} /\ Cover(y) = Cover(UsedBlock(m))
    <2>1. 1 .. Len(t) = {1} /\ t[1] = m.buf
      BY <1>2
    <2>2. PICK y : y = <<m.buf, m.class, <<Len(fl[m.class]) + 1>>>>
      OBVIOUS
    <2>3. PushedBlocks(fl, m.class, t) = {y}
      BY <2>1, <2>2 DEF PushedBlocks
    <2>4. y[1] = m.buf /\ y[2] = m.class
      BY <2>2
    <2>5. Cover(y) = Bytes(m.buf, m.class)
      BY <2>4 DEF Cover
    <2> QED
      BY <2>3, <2>5, UsedCover
  <1>5. PICK x : x = UsedBlock(m) /\ x \in UsedBlocks(mb) /\ x \notin FreeBlocks(fl)
    <2>1. UsedBlock(m) \in UsedBlocks(mb)
      BY InUsed
    <2>2. UsedBlock(m) \notin FreeBlocks(fl)
      BY InFree, FreeNotUsed
    <2> QED
      BY <2>1, <2>2
  <1>6. UsedBlocks(mb \ {m}) = UsedBlocks(mb) \ {x}
    <2>1. ASSUME NEW z, z \in UsedBlocks(mb \ {m})
          PROVE  z \in UsedBlocks(mb) /\ z # x
      <3>1. PICK k \in mb \ {m} : z = UsedBlock(k)
        BY <2>1, InUsed
      <3>2. z # x
        BY <1>1, <1>5, <3>1, UsedSame
      <3> QED
        BY <3>1, <3>2, InUsed
    <2>2. ASSUME NEW z, z \in UsedBlocks(mb), z # x
          PROVE  z \in UsedBlocks(mb \ {m})
      <3>1. PICK k \in mb : z = UsedBlock(k)
        BY <2>2, InUsed
      <3>2. k \in mb \ {m}
        BY <1>5, <2>2, <3>1
      <3> QED
        BY <3>1, <3>2, InUsed
    <2> QED
      BY <2>1, <2>2
  <1>7. PICK B, U : /\ B = FreeBlocks(fl) \cup UsedBlocks(mb) /\ U = CarvedIn(sl)
                    /\ Tiling(B, U) /\ x \in B
    BY <1>1, <1>5
  <1>8. Tiling((B \ {x}) \cup {y}, U)
    <2>1. Tiling({y}, Cover(x))
      BY <1>4, <1>5, Only
    <2> QED
      BY <1>7, <2>1, TileReplace
  <1>9. (B \ {x}) \cup {y} = FreeBlocks(gl) \cup UsedBlocks(mb \ {m})
    BY <1>3, <1>4, <1>5, <1>6, <1>7
  <1>10. Tiled(gl, sl, mb \ {m})
    BY <1>7, <1>8, <1>9 DEF Tiled
  <1>11. tot - Size(m.class) = Cardinality(UsedBytes(mb \ {m}))
    <2>1. PICK mc : mc = mb \ {m} /\ mb = mc \cup {m}
      OBVIOUS
    <2>2. ASSUME NEW k \in mc, NEW u, u \in Cover(UsedBlock(k)), u \in Cover(UsedBlock(m))
          PROVE  FALSE
      <3>1. UsedBlock(k) \in UsedBlocks(mb) /\ UsedBlock(k) # x
        BY <1>1, <1>5, <2>1, InUsed, UsedSame
      <3> QED
        BY <1>5, <1>7, <2>2, <3>1 DEF Tiling
    <2>3. IsFiniteSet(UsedBytes(mc))
      BY <1>1, <1>10, <2>1, UsedFinite
    <2>4. \A k \in mc : \A u : ~(u \in Cover(UsedBlock(k)) /\ u \in Cover(UsedBlock(m)))
      BY <2>2
    <2>5. PICK a \in Nat, z \in Nat : /\ a = Cardinality(UsedBytes(mc)) /\ z = Size(m.class)
                                      /\ Cardinality(UsedBytes(mc \cup {m})) = a + z
      BY <1>1, <2>3, <2>4, UsedAdds, SizeDef
    <2>6. tot = a + z
      BY <2>1, <2>5 DEF Kept
    <2>7. (a + z) - z = a
      OBVIOUS
    <2> QED
      BY <2>1, <2>5, <2>6, <2>7
  <1>12. \A k \in mb \ {m} : Held(k)
    BY DEF Kept
  <1> QED
    BY <1>1, <1>3, <1>10, <1>11, <1>12 DEF Kept

\* reserve_hugepages cuts a new region into buffers of the largest class.
Reserves(fl, gl, sl, tl, R, n) ==
    /\ gl = [fl EXCEPT ![k_num_classes - 1] =
                @ \o [i \in 1 .. n |-> R + (i - 1) * k_max_class_size]]
    /\ tl = Append(sl, [base |-> R, size |-> n * k_max_class_size, registered |-> TRUE,
                      carved |-> TRUE])

LEMMA Reserved ==
  ASSUME NEW fl, NEW sl, NEW mb, NEW tot, NEW R, Kept(fl, sl, mb, tot, R),
         NEW n \in Nat \ {0}, NEW gl, NEW tl, Reserves(fl, gl, sl, tl, R, n)
  PROVE  /\ Kept(gl, tl, mb, tot, R + n * k_max_class_size)
         /\ gl[k_num_classes - 1] # <<>>
         /\ \A d \in Classes : d # k_num_classes - 1 => gl[d] = fl[d]
         /\ tl # <<>> /\ tl[Len(tl)].base = R /\ tl[Len(tl)].size = n * k_max_class_size
  <1>1. PICK K \in Nat \ {0}, T \in Classes : K = k_max_class_size /\ T = k_num_classes - 1
    BY HugeAssumption, SizeDef DEF Classes, k_max_class_size, Size
  <1>2. PICK z \in Nat : z = n * K
    OBVIOUS
  <1>3. R \in Nat /\ fl \in Lists /\ Below(sl, R)
    BY DEF Kept, Below
  <1>0. PICK t : /\ t = [i \in 1 .. n |-> R + (i - 1) * k_max_class_size]
                 /\ gl = [fl EXCEPT ![k_num_classes - 1] = @ \o t]
    BY DEF Reserves
  <1>4. t \in Seq(Nat) /\ Len(t) = n /\ \A i \in 1 .. n : t[i] = R + (i - 1) * K
    <2>1. ASSUME NEW i \in 1 .. n
          PROVE  R + (i - 1) * K \in Nat
      <3>1. i - 1 \in Nat
        OBVIOUS
      <3>2. (i - 1) * K \in Nat
        BY <3>1
      <3> QED
        BY <1>3, <3>2
    <2>2. t \in [1 .. n -> Nat]
      BY <1>0, <1>1, <2>1
    <2>3. t \in Seq(Nat)
      BY <2>2
    <2>4. DOMAIN t = 1 .. n /\ DOMAIN t = 1 .. Len(t) /\ Len(t) \in Nat
      BY <2>2, <2>3
    <2>5. Len(t) = n
      BY <2>4
    <2>6. \A i \in 1 .. n : t[i] = R + (i - 1) * K
      BY <1>0, <1>1
    <2> QED
      BY <2>3, <2>5, <2>6
  <1>5. Pushed(fl, gl, T, t)
    BY <1>0, <1>1, <1>3, <1>4, PushConcat
  <1>6. FreeBlocks(gl) = FreeBlocks(fl) \cup PushedBlocks(fl, T, t) /\ gl \in Lists
    <2>1. gl \in Lists
      BY <1>5 DEF Pushed
    <2> QED
      BY ONLY <1>5, <2>1, PushBlocks
  <1>7. PICK l \in Nat : l = Len(fl[T])
    BY <1>3 DEF Lists
  <1>8. PushedBlocks(fl, T, t) = RegionBlocks(R, n, l)
    BY <1>1, <1>4, <1>7 DEF PushedBlocks, RegionBlocks
  <1>9. /\ Below(tl, R + z) /\ tl # <<>> /\ tl[Len(tl)].base = R /\ tl[Len(tl)].size = z
        /\ CarvedIn(tl) = CarvedIn(sl) \cup (R .. R + z - 1)
    <2>1. PICK g \in BOOLEAN : g = TRUE
      OBVIOUS
    <2>2. Mapped(sl, tl, R, z, g, g)
      BY <1>1, <1>2, <2>1 DEF Mapped, Reserves
    <2>3. CarvedIn(tl) = CarvedIn(sl) \cup (IF g THEN R .. R + z - 1 ELSE {})
      BY ONLY <1>3, <2>2, RegionAdded, z \in Nat, g \in BOOLEAN
    <2>4. Below(tl, R + z) /\ tl # <<>> /\ tl[Len(tl)].base = R /\ tl[Len(tl)].size = z
      BY ONLY <1>3, <2>2, RegionAdded, z \in Nat, g \in BOOLEAN
    <2> QED
      BY <2>1, <2>3, <2>4
  <1>10. PICK V : V = RegionBytes(R, n) /\ V = R .. R + z - 1
    BY <1>1, <1>2 DEF RegionBytes
  <1>11. CarvedIn(sl) \cap V = {}
    <2>1. \A u \in CarvedIn(sl) : u \in Nat /\ u < R
      BY <1>3, CarvedBelow
    <2> QED
      BY <1>3, <1>10, <2>1
  <1>12. Tiled(gl, tl, mb)
    <2>1. PICK B, U, N : /\ B = FreeBlocks(fl) \cup UsedBlocks(mb) /\ U = CarvedIn(sl)
                         /\ N = RegionBlocks(R, n, l) /\ Tiling(B, U)
      BY DEF Kept, Tiled
    <2>2. Tiling(N, V)
      BY <1>3, <1>10, <2>1, RegionTiles
    <2>3. Tiling(B \cup N, U \cup V)
      BY <1>11, <2>1, <2>2, TileAdd
    <2>4. B \cup N = FreeBlocks(gl) \cup UsedBlocks(mb) /\ U \cup V = CarvedIn(tl)
      BY <1>6, <1>8, <1>9, <1>10, <2>1
    <2> QED
      BY <2>3, <2>4 DEF Tiled
  <1>13. gl[T] # <<>> /\ \A d \in Classes : d # T => gl[d] = fl[d]
    <2>1. Len(gl[T]) = l + n /\ \A d \in Classes : d # T => gl[d] = fl[d]
      BY <1>4, <1>5, <1>7 DEF Pushed
    <2>2. l + n # 0 /\ Len(<<>>) = 0
      OBVIOUS
    <2> QED
      BY <2>1, <2>2
  <1>14. Kept(gl, tl, mb, tot, R + z)
    BY <1>6, <1>9, <1>12 DEF Kept
  <1> QED
    BY <1>1, <1>2, <1>9, <1>13, <1>14

\* The inductive invariant of the allocator.
HugeInv ==
    /\ Kept(freelist, shm_list, msg_bufs, user_alloc_tot, shm_reserved)
    /\ Doubled(prev_alloc_size)
    /\ huge_bad = FALSE /\ abort_size \in Nat /\ abort_size <= Size(0)

\* A new allocator.
LEMMA NewKept ==
  ASSUME NEW fl, fl = [c \in Classes |-> <<>>]
  PROVE  Kept(fl, <<>>, {}, 0, 0)
  <1>1. fl \in Lists
    BY DEF Lists
  <1>2. FreeBlocks(fl) = {}
    <2>1. \A c \in Classes : 1 .. Len(fl[c]) = {}
      <3>1. \A c \in Classes : Len(fl[c]) = 0
        OBVIOUS
      <3> QED
        BY <3>1
    <2> QED
      BY <2>1, InFree
  <1>3. UsedBlocks({}) = {} /\ UsedBytes({}) = {}
    BY DEF UsedBlocks, UsedBytes
  <1>4. CarvedIn(<<>>) = {} /\ Separate(<<>>)
    <2>1. 1 .. Len(<<>>) = {}
      OBVIOUS
    <2>2. CarvedIn(<<>>) = {}
      BY <2>1, InBytes DEF CarvedIn
    <2> QED
      BY <2>1, <2>2 DEF Separate
  <1>5. Tiled(fl, <<>>, {})
    BY <1>2, <1>3, <1>4 DEF Tiled, Tiling
  <1>6. Below(<<>>, 0)
    <2>1. <<>> \in Seq(RegionOf) /\ 1 .. Len(<<>>) = {}
      OBVIOUS
    <2> QED
      BY <1>4, <2>1 DEF Below
  <1>7. 0 = Cardinality(UsedBytes({}))
    BY <1>3, FS_EmptySet
  <1> QED
    BY <1>1, <1>5, <1>6, <1>7 DEF Kept

LEMMA NewDoubled == Doubled(HugeNew.prev)
  <1>1. PICK K \in Nat \ {0} : K = k_max_class_size
    BY HugeAssumption, SizeDef DEF Classes, k_max_class_size, Size
  <1>2. kInitialSize \in Nat /\ kInitialSize % K = 0
    BY <1>1, HugeAssumption
  <1>3. HugeNew.prev = IF kInitialSize < K THEN K ELSE kInitialSize
    BY <1>1 DEF HugeNew
  <1>4. CASE kInitialSize < K
    <2>1. K = 1 * K
      OBVIOUS
    <2> QED
      BY <1>1, <1>3, <1>4, <2>1 DEF Doubled
  <1>5. CASE ~(kInitialSize < K)
    <2>1. PICK q \in Nat : q = kInitialSize \div K /\ kInitialSize = K * q + (kInitialSize % K)
      BY <1>2
    <2>2. kInitialSize = q * K
      BY <1>2, <2>1
    <2>3. q # 0
      BY <1>2, <1>5, <2>2
    <2> QED
      BY <1>1, <1>3, <1>5, <2>2, <2>3 DEF Doubled
  <1> QED
    BY <1>4, <1>5

\* A reservation is a whole number of the largest buffers, and undoing the
\* doubling gives back the size before it.
LEMMA Aligned ==
  ASSUME Doubled(prev_alloc_size)
  PROVE  /\ prev_alloc_size \in Nat /\ (2 * prev_alloc_size) \div 2 = prev_alloc_size
         /\ \E n \in Nat \ {0} : /\ 2 * prev_alloc_size = n * k_max_class_size
                                 /\ (2 * prev_alloc_size) \div k_max_class_size = n
         /\ Doubled(2 * prev_alloc_size)
  <1>1. PICK K \in Nat \ {0} : K = k_max_class_size
    BY HugeAssumption, SizeDef DEF Classes, k_max_class_size, Size
  <1>2. PICK n \in Nat \ {0} : prev_alloc_size = n * K
    BY <1>1 DEF Doubled
  <1>3. PICK p \in Nat : p = n * K /\ (2 * p) \div 2 = p
    <2>1. n * K \in Nat /\ \A p \in Nat : (2 * p) \div 2 = p
      OBVIOUS
    <2> QED
      BY <2>1
  <1>4. PICK m \in Nat \ {0} : m = 2 * n /\ 2 * p = m * K
    <2>1. 2 * n \in Nat \ {0} /\ 2 * (n * K) = (2 * n) * K
      OBVIOUS
    <2> QED
      BY <1>3, <2>1
  <1>5. (m * K) \div K = m
    <2>1. PICK q \in Nat : q = (m * K) \div K
      BY DivLess
    <2>2. m * K \in Nat /\ m + 1 \in Nat
      OBVIOUS
    <2>3. ~(q < m)
      <3>1. ~(m * K < m * K)
        BY <2>2
      <3> QED
        BY <2>1, <2>2, <3>1, DivLess
    <2>4. q < m + 1
      <3>1. m * K < (m + 1) * K
        OBVIOUS
      <3> QED
        BY <2>1, <2>2, <3>1, DivLess
    <2> QED
      BY <2>1, <2>3, <2>4
  <1> QED
    BY <1>1, <1>2, <1>3, <1>4, <1>5 DEF Doubled

\* The size of the least class.
LEMMA LeastSize == 0 \in Classes /\ Size(0) \in Nat \ {0}
  BY HugeAssumption, SizeDef DEF Classes

LEMMA HugeInitInv == HugeInit => HugeInv
  <1> SUFFICES ASSUME HugeInit
               PROVE  HugeInv
    OBVIOUS
  <1>1. /\ freelist = [c \in Classes |-> <<>>] /\ shm_list = <<>> /\ msg_bufs = {}
        /\ user_alloc_tot = 0 /\ huge_bad = FALSE /\ prev_alloc_size = HugeNew.prev
        /\ abort_size = 0
    BY DEF HugeInit, HugeNew
  <1>2. shm_reserved = 0
    BY <1>1 DEF shm_reserved
  <1>3. Kept(freelist, <<>>, {}, 0, 0)
    BY <1>1, NewKept
  <1> QED
    BY <1>1, <1>2, <1>3, NewDoubled, LeastSize DEF HugeInv

\* Steps of the allocator.
LEMMA RawStep ==
  ASSUME HugeInv, NEW size \in kRawSizes, NEW do_register \in BOOLEAN,
         alloc_raw(size, do_register)
  PROVE  HugeInv'
  <1>1. PICK R : R = shm_reserved
    OBVIOUS
  <1>0. PICK z \in Nat : z = size
    BY HugeAssumption
  <1>2. PICK g \in BOOLEAN : g = FALSE
    OBVIOUS
  <1>3. Kept(freelist, shm_list, msg_bufs, user_alloc_tot, R) /\ Below(shm_list, R)
    BY <1>1 DEF HugeInv, Kept
  <1>4. PICK tl : tl = shm_list' /\ Mapped(shm_list, tl, R, z, do_register, g)
    BY <1>0, <1>1, <1>2 DEF alloc_raw, Region, Mapped
  <1>10. g => do_register
    BY <1>2
  <1>5. /\ Below(tl, R + z) /\ tl # <<>> /\ tl[Len(tl)].base = R /\ tl[Len(tl)].size = z
        /\ CarvedIn(tl) = CarvedIn(shm_list) \cup (IF g THEN R .. R + z - 1 ELSE {})
    BY ONLY <1>3, <1>4, <1>10, RegionAdded, z \in Nat, g \in BOOLEAN, do_register \in BOOLEAN
  <1>6. shm_reserved' = R + z
    BY <1>4, <1>5 DEF shm_reserved
  <1>7. CarvedIn(tl) = CarvedIn(shm_list)
    BY <1>2, <1>5
  <1>8. Kept(freelist, tl, msg_bufs, user_alloc_tot, R + z)
    BY <1>3, <1>5, <1>7 DEF Kept, Tiled
  <1>9. UNCHANGED <<freelist, prev_alloc_size, user_alloc_tot, msg_bufs, huge_bad, abort_size>>
    BY DEF alloc_raw
  <1> QED
    BY <1>4, <1>6, <1>8, <1>9 DEF HugeInv

\* The size of a MsgBuffer is positive and at most that of the largest class.
LEMMA PktsOf ==
  ASSUME NEW data \in kDataSizes,
         data + data_size_to_num_pkts(data) * kPktHdr <= k_max_class_size
  PROVE  /\ data \in Nat \ {0} /\ data_size_to_num_pkts(data) \in Nat \ {0}
         /\ data + data_size_to_num_pkts(data) * kPktHdr \in 1 .. k_max_class_size
  <1>1. PICK P \in Nat \ {0}, d \in Nat \ {0}, H \in Nat : P = kMaxDataPerPkt /\ d = data /\ H = kPktHdr
    BY HugeAssumption
  <1>2. data_size_to_num_pkts(data) = IF d <= P THEN 1 ELSE (d + P - 1) \div P
    BY <1>1 DEF data_size_to_num_pkts
  <1>3. PICK a \in Nat : a = d + P - 1 /\ ~(a < P)
    OBVIOUS
  <1>4. PICK q \in Nat : q = a \div P /\ ~(q < 1)
    <2>1. 1 * P = P
      OBVIOUS
    <2> QED
      BY <1>3, <2>1, DivLess
  <1>5. PICK n \in Nat \ {0} : n = data_size_to_num_pkts(data)
    BY <1>2, <1>3, <1>4
  <1>6. n * H \in Nat
    OBVIOUS
  <1>7. k_max_class_size \in Nat
    BY HugeAssumption, SizeDef DEF Classes, k_max_class_size, Size
  <1> QED
    BY <1>1, <1>5, <1>6, <1>7

\* alloc_from_class, once the loop has come down to the class asked for.
LEMMA AllocStep ==
  ASSUME NEW fl, NEW sl, NEW R, NEW next \in Classes, NEW data \in kDataSizes, NEW c,
         data + data_size_to_num_pkts(data) * kPktHdr <= k_max_class_size,
         c \in get_class(data + data_size_to_num_pkts(data) * kPktHdr), c \in Classes, c <= next,
         Kept(fl, sl, msg_bufs, user_alloc_tot, R),
         fl[next] # <<>>, \A e \in c .. next - 1 : fl[e] = <<>>,
         alloc_from_class(SplitDown(fl, next, c)[c], c, data, data_size_to_num_pkts(data))
  PROVE  Kept(freelist', sl, msg_bufs', user_alloc_tot', R) /\ split_asserts(fl, next, c)
  <1>1. PICK n \in Nat \ {0} : n = data_size_to_num_pkts(data)
    BY PktsOf
  <1>2. c \in Classes /\ data + n * kPktHdr <= Size(c)
    <2>1. PICK z \in 1 .. k_max_class_size : z = data + n * kPktHdr
      BY <1>1, PktsOf
    <2>2. z <= Size(c)
      BY <1>1, <2>1, ClassHolds
    <2> QED
      BY <2>1, <2>2
  <1>3. Going(fl, next, c, msg_bufs, CarvedIn(sl))
    BY DEF Kept, Tiled, Going
  <1>4. PICK g : g = SplitDown(fl, next, c)[c] /\ Going(g, c, c, msg_bufs, CarvedIn(sl))
    BY <1>2, <1>3, GoneDown
  <1>5. split_asserts(fl, next, c)
    BY <1>2, <1>3, GoneDown
  <1>6. g \in Lists /\ g[c] # <<>>
    BY <1>4 DEF Going
  <1>7. g[c][Len(g[c])] \in Nat
    BY <1>2, <1>6, PopPushed
  <1>8. PICK m : m = [buf |-> g[c][Len(g[c])], class |-> c, max_data |-> data, num_pkts |-> n]
    OBVIOUS
  <1>9. data \in Nat \ {0}
    BY PktsOf
  <1>10. m.buf = g[c][Len(g[c])] /\ m.class = c /\ m.max_data = data /\ m.num_pkts = n /\ m \in MsgBuf
    BY <1>2, <1>7, <1>8, <1>9 DEF MsgBuf
  <1>11. Held(m)
    BY <1>1, <1>2, <1>9, <1>10 DEF Held
  <1>12. /\ freelist' = Pop(g, c) /\ user_alloc_tot' = user_alloc_tot + Size(c)
         /\ msg_bufs' = msg_bufs \cup {m}
    BY <1>1, <1>4, <1>8 DEF alloc_from_class, Pop, Size
  <1>13. Kept(Pop(g, c), sl, msg_bufs \cup {m}, user_alloc_tot + Size(c), R)
    BY <1>2, <1>4, <1>10, <1>11, Taken
  <1> QED
    BY <1>5, <1>12, <1>13

\* When alloc finds no class with a buffer, all of them are empty.
LEMMA NoneLeft ==
  ASSUME NEW c \in Classes, FirstNonEmpty(c) = {}
  PROVE  \A e \in c .. k_num_classes - 1 : freelist[e] = <<>>
  <1> SUFFICES ASSUME NEW d \in c .. k_num_classes - 1, freelist[d] # <<>>
               PROVE  FALSE
    OBVIOUS
  <1>0. c \in Nat /\ k_num_classes - 1 \in Nat
    BY HugeAssumption DEF Classes
  <1> DEFINE S == {e \in Nat : e \in c .. k_num_classes - 1 /\ freelist[e] # <<>>}
  <1>1. S \in SUBSET Nat /\ S # {}
    <2>1. d \in Nat
      BY <1>0
    <2> QED
      BY <2>1
  <1>2. PICK n \in S : \A m \in S : n <= m
    <2> HIDE DEF S
    <2> QED
      BY <1>1, LeastNatural
  <1>3. ASSUME NEW e \in c .. n - 1
        PROVE  freelist[e] = <<>>
    <2>1. e \in Nat /\ ~(n <= e) /\ e \in c .. k_num_classes - 1
      BY <1>0, <1>2
    <2> QED
      BY <1>2, <2>1
  <1>4. n \in c .. k_num_classes - 1 /\ freelist[n] # <<>>
    BY <1>2
  <1>5. n \in FirstNonEmpty(c)
    BY <1>3, <1>4 DEF FirstNonEmpty
  <1> QED
    BY <1>5

\* alloc takes from a class that is not empty, splitting on the way, or from
\* a region it reserves, or fails.
LEMMA SplitAlloc ==
  ASSUME HugeInv, NEW data \in kDataSizes,
         data + data_size_to_num_pkts(data) * kPktHdr <= k_max_class_size,
         NEW c \in Classes, c \in get_class(data + data_size_to_num_pkts(data) * kPktHdr),
         alloc_split(c, data, data_size_to_num_pkts(data))
  PROVE  HugeInv'
  <1>2. PICK next \in FirstNonEmpty(c) :
          /\ alloc_from_class(SplitDown(freelist, next, c)[c], c, data, data_size_to_num_pkts(data))
          /\ huge_bad' = (huge_bad \/ ~split_asserts(freelist, next, c))
          /\ UNCHANGED <<shm_list, prev_alloc_size, abort_size>>
    BY DEF alloc_split
  <1>3. /\ next \in Classes /\ c <= next /\ freelist[next] # <<>>
        /\ \A e \in c .. next - 1 : freelist[e] = <<>>
    BY HugeAssumption DEF FirstNonEmpty, Classes
  <1>4. PICK R : R = shm_reserved /\ Kept(freelist, shm_list, msg_bufs, user_alloc_tot, R)
    BY DEF HugeInv
  <1>5. Kept(freelist', shm_list, msg_bufs', user_alloc_tot', R) /\ split_asserts(freelist, next, c)
    BY <1>2, <1>3, <1>4, AllocStep
  <1>6. huge_bad' = FALSE
    BY <1>2, <1>5 DEF HugeInv
  <1>7. shm_reserved' = R /\ shm_list' = shm_list /\ prev_alloc_size' = prev_alloc_size
        /\ abort_size' = abort_size
    BY <1>2, <1>4 DEF shm_reserved
  <1> QED
    BY <1>5, <1>6, <1>7 DEF HugeInv

LEMMA ReserveAlloc ==
  ASSUME HugeInv, NEW data \in kDataSizes,
         data + data_size_to_num_pkts(data) * kPktHdr <= k_max_class_size,
         NEW c \in Classes, c \in get_class(data + data_size_to_num_pkts(data) * kPktHdr),
         alloc_reserve(c, data, data_size_to_num_pkts(data))
  PROVE  HugeInv'
  <1>2. PICK size, fl, T : size = 2 * prev_alloc_size /\ fl = reserve_hugepages(freelist, size)
                           /\ T = k_num_classes - 1
    OBVIOUS
  <1>3. /\ FirstNonEmpty(c) = {}
        /\ prev_alloc_size' = size
        /\ shm_list' = Append(shm_list, Region(size, TRUE, TRUE))
        /\ alloc_from_class(SplitDown(fl, T, c)[c], c, data, data_size_to_num_pkts(data))
        /\ huge_bad' = (huge_bad \/ ~split_asserts(fl, T, c))
        /\ abort_size' = abort_size
    BY <1>2 DEF alloc_reserve
  <1>4. PICK R : R = shm_reserved /\ Kept(freelist, shm_list, msg_bufs, user_alloc_tot, R)
    BY DEF HugeInv
  <1>5. PICK n \in Nat \ {0} : /\ size = n * k_max_class_size
                               /\ size \div k_max_class_size = n
    BY <1>2, Aligned DEF HugeInv
  <1>8. PICK tl : /\ tl = shm_list' /\ Reserves(freelist, fl, shm_list, tl, R, n)
    BY <1>2, <1>3, <1>4, <1>5 DEF Region, reserve_hugepages, Reserves
  <1>9. /\ Kept(fl, tl, msg_bufs, user_alloc_tot, R + size)
        /\ fl[T] # <<>> /\ \A d \in Classes : d # T => fl[d] = freelist[d]
        /\ tl # <<>> /\ tl[Len(tl)].base = R /\ tl[Len(tl)].size = size
    BY <1>2, <1>4, <1>5, <1>8, Reserved
  <1>10. shm_reserved' = R + size
    BY <1>8, <1>9 DEF shm_reserved
  <1>11. T \in Classes /\ c <= T /\ \A e \in c .. T - 1 : e \in Classes /\ e # T /\ e \in c .. T
    BY <1>2, HugeAssumption DEF Classes
  <1>12. \A e \in c .. T - 1 : fl[e] = <<>>
    BY <1>2, <1>3, <1>9, <1>11, NoneLeft
  <1>13. Kept(freelist', tl, msg_bufs', user_alloc_tot', R + size) /\ split_asserts(fl, T, c)
    <2>1. PICK Q : Q = R + size
      OBVIOUS
    <2> QED
      BY <1>3, <1>9, <1>11, <1>12, <2>1, AllocStep
  <1>14. huge_bad' = FALSE
    BY <1>3, <1>13 DEF HugeInv
  <1>15. Doubled(size)
    BY <1>2, Aligned DEF HugeInv
  <1> QED
    BY <1>3, <1>8, <1>10, <1>13, <1>14, <1>15 DEF HugeInv

LEMMA FailStep ==
  ASSUME HugeInv, NEW c, alloc_fails(c)
  PROVE  HugeInv'
  <1>1. /\ prev_alloc_size' = (2 * prev_alloc_size) \div 2
        /\ freelist' = freelist /\ shm_list' = shm_list /\ user_alloc_tot' = user_alloc_tot
        /\ msg_bufs' = msg_bufs /\ huge_bad' = huge_bad /\ abort_size' = abort_size
    BY DEF alloc_fails
  <1>2. prev_alloc_size' = prev_alloc_size
    BY <1>1, Aligned DEF HugeInv
  <1>3. shm_reserved' = shm_reserved
    BY <1>1 DEF shm_reserved
  <1> QED
    BY <1>1, <1>2, <1>3 DEF HugeInv

\* An assertion about the class of a size fails only up to the least class.
LEMMA AssertStep ==
  ASSUME HugeInv, NEW size \in 1 .. k_max_class_size, ~(size > Size(0)), class_assert(size)
  PROVE  HugeInv'
  <1>1. /\ freelist' = freelist /\ shm_list' = shm_list /\ user_alloc_tot' = user_alloc_tot
        /\ msg_bufs' = msg_bufs /\ huge_bad' = huge_bad /\ prev_alloc_size' = prev_alloc_size
        /\ abort_size' = size
    BY DEF class_assert
  <1>2. shm_reserved' = shm_reserved
    BY <1>1 DEF shm_reserved
  <1>3. k_max_class_size \in Nat
    BY HugeAssumption, SizeDef DEF Classes, k_max_class_size, Size
  <1>4. size \in Nat /\ size <= Size(0)
    BY <1>3, LeastSize
  <1> QED
    BY <1>1, <1>2, <1>4 DEF HugeInv

\* free_buf, and the destructor.
LEMMA FreeStep ==
  ASSUME HugeInv, NEW m \in msg_bufs, free_msg_buffer(m)
  PROVE  HugeInv'
  <1>1. PICK R : R = shm_reserved /\ Kept(freelist, shm_list, msg_bufs, user_alloc_tot, R)
    BY DEF HugeInv
  <1>2. PICK d \in Classes : d = m.class
    BY <1>1 DEF Kept, Held, MsgBuf
  <1>3. PICK c \in get_class(class_max_size(m.class)) :
          \/ /\ c = m.class
             /\ freelist' = [freelist EXCEPT ![c] = Append(@, m.buf)]
             /\ user_alloc_tot' = user_alloc_tot - class_max_size(m.class)
             /\ msg_bufs' = msg_bufs \ {m}
             /\ UNCHANGED <<shm_list, prev_alloc_size, huge_bad, abort_size>>
          \/ c # m.class /\ class_assert(class_max_size(m.class))
    BY DEF free_msg_buffer
  <1>4. CASE c = m.class
    <2>1. PICK gl : gl = [freelist EXCEPT ![m.class] = Append(@, m.buf)]
      OBVIOUS
    <2>2. /\ freelist' = gl /\ user_alloc_tot' = user_alloc_tot - Size(m.class)
          /\ msg_bufs' = msg_bufs \ {m} /\ shm_list' = shm_list /\ prev_alloc_size' = prev_alloc_size
          /\ huge_bad' = huge_bad /\ abort_size' = abort_size
      BY <1>3, <1>4, <2>1 DEF Size
    <2>3. Kept(gl, shm_list, msg_bufs \ {m}, user_alloc_tot - Size(m.class), R)
      BY <1>1, <2>1, Freed
    <2>4. shm_reserved' = R
      BY <1>1, <2>2 DEF shm_reserved
    <2> QED
      BY <2>2, <2>3, <2>4 DEF HugeInv
  <1>5. CASE c # m.class
    <2>1. PICK z \in 1 .. k_max_class_size : z = Size(d) /\ Fits(z, d)
      BY FitsOwn
    <2>2. z \in Nat
      BY <2>1, SizeDef
    <2>3. ASSUME z > Size(0)
          PROVE  FALSE
      <3>1. PICK n \in Classes : get_class(z) = {n} /\ Fits(z, n)
        BY <2>3, ClassFits
      <3>2. n = d
        BY <2>1, <2>2, <3>1, FitsUnique
      <3>3. c \in get_class(z)
        BY <1>2, <2>1 DEF Size
      <3> QED
        BY <1>2, <1>5, <3>1, <3>2, <3>3
    <2>4. class_assert(z)
      BY <1>2, <1>3, <1>5, <2>1 DEF Size
    <2> QED
      BY <2>3, <2>4, AssertStep
  <1> QED
    BY <1>4, <1>5

LEMMA DtorStep ==
  ASSUME HugeInv, huge_dtor
  PROVE  HugeInv'
  <1>1. /\ freelist' = [c \in Classes |-> <<>>] /\ shm_list' = <<>> /\ msg_bufs' = {}
        /\ user_alloc_tot' = 0 /\ huge_bad' = FALSE /\ prev_alloc_size' = HugeNew.prev
        /\ abort_size' = abort_size
    BY DEF huge_dtor, HugeNew, HugeInv
  <1>2. shm_reserved' = 0
    BY <1>1 DEF shm_reserved
  <1>3. PICK fl : fl = freelist' /\ fl = [c \in Classes |-> <<>>]
    BY <1>1
  <1>4. Kept(fl, <<>>, {}, 0, 0)
    BY <1>3, NewKept
  <1> QED
    BY <1>1, <1>2, <1>3, <1>4, NewDoubled DEF HugeInv

LEMMA HugeStep == HugeInv /\ [HugeNext]_hugevars => HugeInv'
  <1> SUFFICES ASSUME HugeInv, [HugeNext]_hugevars
               PROVE  HugeInv'
    OBVIOUS
  <1>1. ASSUME NEW size \in kRawSizes, NEW do_register \in BOOLEAN, alloc_raw(size, do_register)
        PROVE  HugeInv'
    BY <1>1, RawStep
  <1>2. ASSUME NEW data \in kDataSizes, alloc_msg_buffer(data)
        PROVE  HugeInv'
    <2>1. PICK n, z : n = data_size_to_num_pkts(data) /\ z = data + n * kPktHdr
      OBVIOUS
    <2>2. z <= k_max_class_size
      BY <1>2, <2>1 DEF alloc_msg_buffer
    <2>3. PICK c \in get_class(z) :
            \/ /\ c \in Classes
               /\ alloc_split(c, data, n) \/ alloc_reserve(c, data, n) \/ alloc_fails(c)
            \/ c \notin Classes /\ class_assert(z)
      BY <1>2, <2>1 DEF alloc_msg_buffer
    <2>4. CASE c \in Classes /\ alloc_split(c, data, n)
      BY <2>1, <2>2, <2>4, SplitAlloc
    <2>5. CASE c \in Classes /\ alloc_reserve(c, data, n)
      BY <2>1, <2>2, <2>5, ReserveAlloc
    <2>6. CASE alloc_fails(c)
      BY <2>6, FailStep
    <2>7. CASE c \notin Classes /\ class_assert(z)
      <3>1. z \in 1 .. k_max_class_size
        BY <2>1, <2>2, PktsOf
      <3>2. ASSUME z > Size(0)
            PROVE  FALSE
        BY <2>7, <3>1, <3>2, ClassFits
      <3> QED
        BY <2>7, <3>1, <3>2, AssertStep
    <2> QED
      BY <2>3, <2>4, <2>5, <2>6, <2>7
  <1>3. ASSUME NEW m \in msg_bufs, free_msg_buffer(m)
        PROVE  HugeInv'
    BY <1>3, FreeStep
  <1>4. CASE huge_dtor
    BY <1>4, DtorStep
  <1>5. CASE UNCHANGED hugevars
    <2>1. /\ freelist' = freelist /\ shm_list' = shm_list /\ user_alloc_tot' = user_alloc_tot
          /\ msg_bufs' = msg_bufs /\ huge_bad' = huge_bad /\ prev_alloc_size' = prev_alloc_size
          /\ abort_size' = abort_size
      BY <1>5 DEF hugevars
    <2>2. shm_reserved' = shm_reserved
      BY <2>1 DEF shm_reserved
    <2> QED
      BY <2>1, <2>2 DEF HugeInv
  <1> QED
    BY <1>1, <1>2, <1>3, <1>4, <1>5 DEF HugeNext

(***************************************************************************)
(* HugeInv is an invariant of the allocator: it is true initially, and     *)
(* alloc_raw, alloc_msg_buffer, free_msg_buffer and the destructor keep    *)
(* it, whatever the kernel answers to a reservation.                       *)
(***************************************************************************)
THEOREM HugeInvariant == HugeSpec => []HugeInv
  BY HugeInitInv, HugeStep, PTL DEF HugeSpec

LEMMA InvTiles == HugeInv => BuffersTile
  <1> SUFFICES ASSUME HugeInv
               PROVE  BuffersTile
    OBVIOUS
  <1>1. Tiling(Blocks, CarvedIn(shm_list))
    BY DEF HugeInv, Kept, Tiled, Blocks
  <1>2. PICK B, U : B = Blocks /\ U = CarvedIn(shm_list) /\ Tiling(B, U)
    BY <1>1
  <1>3. \A x, y \in B : x # y => Cover(x) \cap Cover(y) = {}
    BY <1>2 DEF Tiling
  <1>4. UNION {Cover(x) : x \in B} = U
    BY <1>2 DEF Tiling
  <1>5. user_alloc_tot = Cardinality(UsedBytes(msg_bufs))
    BY DEF HugeInv, Kept
  <1>6. HugeAsserts
    BY ClassesAgreeHolds DEF HugeAsserts, HugeInv, Size
  <1>7. Separate(shm_list)
    BY DEF HugeInv, Kept, Below
  <1>8. /\ CarvedIn(shm_list) \cap RawIn(shm_list) = {}
        /\ \A i \in 1 .. Len(shm_list) : shm_list[i].carved => shm_list[i].registered
    BY <1>7 DEF Separate
  <1> QED
    BY <1>2, <1>3, <1>4, <1>5, <1>6, <1>8 DEF BuffersTile, Cover

(***************************************************************************)
(* The buffers of the allocator, free and in use, tile the regions that    *)
(* are reserved for them and lie in no other region, the statistics count  *)
(* the bytes in use, and the asserts of split hold, whatever bsrl leaves   *)
(* for 0; the asserts about a size class fail for no size above the least  *)
(* class, where the two computations of a class agree (huge_alloc.h,       *)
(* huge_alloc.cc).                                                         *)
(***************************************************************************)
THEOREM BuffersTiled == HugeSpec => []BuffersTile
  BY HugeInvariant, InvTiles, PTL

Multiple(x) == \E k \in Nat : x = k * kAlign

\* Multiples of the alignment: the sizes of all classes are.
LEMMA MultipleOf ==
  ASSUME NEW x \in Nat, x % kAlign = 0
  PROVE  Multiple(x)
  <1>1. PICK A \in Nat \ {0} : A = kAlign
    BY HugeAssumption
  <1>2. PICK q \in Nat : q = x \div A /\ x = A * q + (x % A)
    OBVIOUS
  <1>3. x = q * A
    BY <1>1, <1>2
  <1> QED
    BY <1>1, <1>3 DEF Multiple

LEMMA SizeMultiple == \A c \in Classes : Multiple(Size(c))
  <1>1. PICK A \in Nat \ {0}, s \in Nat : A = kAlign /\ s = k_min_class_bit_shift
    BY HugeAssumption
  <1> DEFINE S == {n \in Nat : Multiple(Pow(s + n))}
  <1>2. 0 \in S
    <2>1. s + 0 \in Nat /\ Pow(s + 0) = class_max_size(0)
      BY <1>1 DEF Pow, class_max_size
    <2>2. Pow(s + 0) \in Nat
      BY <2>1, PowDef
    <2> QED
      BY <2>1, <2>2, HugeAssumption, MultipleOf
  <1>3. ASSUME NEW n \in Nat, n \in S
        PROVE  n + 1 \in S
    <2>1. s + n \in Nat /\ s + (n + 1) = (s + n) + 1
      OBVIOUS
    <2>2. PICK k \in Nat : Pow(s + n) = k * A
      BY <1>1, <1>3 DEF Multiple
    <2>3. Pow((s + n) + 1) = 2 * (k * A)
      BY <2>1, <2>2, PowDef
    <2>4. 2 * (k * A) = (2 * k) * A /\ 2 * k \in Nat
      OBVIOUS
    <2>5. Multiple(Pow(s + (n + 1)))
      BY <1>1, <2>1, <2>3, <2>4 DEF Multiple
    <2> QED
      BY <2>5
  <1>4. \A n \in Nat : n \in S
    <2> HIDE DEF S
    <2> QED
      BY <1>2, <1>3, Induction
  <1>5. ASSUME NEW c \in Classes
        PROVE  Multiple(Size(c))
    <2>1. Size(c) = Pow(s + c) /\ c \in Nat
      BY <1>1, SizeDef
    <2> QED
      BY <1>4, <2>1
  <1> QED
    BY <1>5

\* RoundUp gives the least multiple that is not less.
LEMMA RoundsUp ==
  ASSUME NEW x \in Nat \ {0}, NEW k \in Nat, x <= k * kAlign
  PROVE  RoundUp(x) \in Nat /\ x <= RoundUp(x) /\ RoundUp(x) <= k * kAlign
  <1>1. PICK A \in Nat \ {0} : A = kAlign
    BY HugeAssumption
  <1>2. PICK a \in Nat : a = x + A - 1
    OBVIOUS
  <1>3. PICK q \in Nat : q = a \div A
    BY DivLess
  <1>4. PICK r \in Nat : r = q * A
    OBVIOUS
  <1>5. RoundUp(x) = r
    BY <1>1, <1>2, <1>3, <1>4 DEF RoundUp
  <1>6. x <= r
    <2>1. q + 1 \in Nat /\ q < q + 1 /\ (q + 1) * A = q * A + A
      OBVIOUS
    <2>2. a < (q + 1) * A
      BY <1>3, <2>1, DivLess
    <2>3. a < r + A
      BY <1>4, <2>1, <2>2
    <2> QED
      BY ONLY <1>2, <2>3, x \in Nat, a \in Nat, r \in Nat, A \in Nat
  <1>7. r <= k * A
    <2>1. PICK p \in Nat : p = k * A /\ (k + 1) * A = p + A /\ k + 1 \in Nat
      <3>1. k * A \in Nat /\ (k + 1) * A = k * A + A /\ k + 1 \in Nat
        OBVIOUS
      <3> QED
        BY <3>1
    <2>2. a < p + A
      BY <1>1, <1>2, <2>1
    <2>3. q < k + 1
      BY <1>3, <2>1, <2>2, DivLess
    <2>4. q <= k
      BY <2>3
    <2> QED
      BY <1>4, <2>4, TimesMono
  <1> QED
    BY <1>1, <1>5, <1>6, <1>7

\* The rounded data and the headers of a MsgBuffer fit where the data and the
\* headers do, because classes and headers are multiples of the alignment.
LEMMA RoundedFits ==
  ASSUME NEW m, Held(m)
  PROVE  /\ RoundUp(m.max_data) \in Nat /\ m.max_data <= RoundUp(m.max_data)
         /\ RoundUp(m.max_data) + m.num_pkts * kPktHdr <= Size(m.class)
  <1>1. PICK A \in Nat \ {0}, H \in Nat, h \in Nat : A = kAlign /\ H = kPktHdr /\ H = h * A
    <2>1. kPktHdr \in Nat /\ kPktHdr % kAlign = 0 /\ kAlign \in Nat \ {0}
      BY HugeAssumption
    <2>2. Multiple(kPktHdr)
      BY <2>1, MultipleOf
    <2> QED
      BY <2>1, <2>2 DEF Multiple
  <1>2. PICK d \in Nat \ {0}, n \in Nat : d = m.max_data /\ n = m.num_pkts
    BY DEF Held, MsgBuf
  <1>3. m.class \in Classes
    BY DEF Held, MsgBuf
  <1>4. PICK z \in Nat, k \in Nat : z = Size(m.class) /\ z = k * A
    <2>1. Size(m.class) \in Nat /\ Multiple(Size(m.class))
      BY <1>3, SizeMultiple, SizeDef
    <2> QED
      BY <1>1, <2>1 DEF Multiple
  <1>5. d + n * H <= z
    BY <1>1, <1>2, <1>4 DEF Held
  <1>6. PICK e \in Nat : e = n * h /\ n * H = e * A
    <2>1. n * h \in Nat /\ n * (h * A) = (n * h) * A
      OBVIOUS
    <2> QED
      BY <1>1, <2>1
  <1>7. e <= k
    <2> SUFFICES ASSUME k <= e
                 PROVE  FALSE
      OBVIOUS
    <2>1. PICK p \in Nat, r \in Nat : p = e * A /\ r = k * A /\ r <= p
      BY TimesMono
    <2> QED
      BY <1>4, <1>5, <1>6, <2>1
  <1>8. PICK j \in Nat : j = k - e /\ k = j + e
    BY <1>7
  <1>9. PICK p \in Nat, r \in Nat : p = j * A /\ r = e * A /\ k * A = p + r
    <2>1. (j + e) * A = j * A + e * A /\ j * A \in Nat /\ e * A \in Nat
      OBVIOUS
    <2> QED
      BY <1>8, <2>1
  <1>10. d <= p
    BY <1>4, <1>5, <1>6, <1>9
  <1>11. RoundUp(d) \in Nat /\ d <= RoundUp(d) /\ RoundUp(d) <= p
    BY <1>1, <1>9, <1>10, RoundsUp
  <1>12. RoundUp(d) + r <= p + r
    BY <1>11
  <1> QED
    BY <1>1, <1>2, <1>4, <1>6, <1>9, <1>11, <1>12

LEMMA InvFits == HugeInv => MsgBufferFits
  <1> SUFFICES ASSUME HugeInv, NEW m \in msg_bufs
               PROVE  /\ DataBytes(m) \subseteq Bytes(m.buf, m.class)
                      /\ \A n \in 0 .. m.num_pkts - 1 :
                            /\ get_pkthdr_n(m, n) \subseteq Bytes(m.buf, m.class)
                            /\ get_pkthdr_n(m, n) \cap DataBytes(m) = {}
                            /\ \A k \in 0 .. n - 1 : get_pkthdr_n(m, k) \cap get_pkthdr_n(m, n) = {}
    BY DEF MsgBufferFits
  <1>1. Held(m)
    BY DEF HugeInv, Kept
  <1>2. m.class \in Classes /\ Size(m.class) \in Nat
    BY <1>1, SizeDef DEF Held, MsgBuf
  <1>3. PICK H \in Nat \ {0}, b \in Nat, d \in Nat \ {0}, N \in Nat \ {0}, z \in Nat, r \in Nat :
          /\ H = kPktHdr /\ b = m.buf /\ d = m.max_data /\ N = m.num_pkts
          /\ z = Size(m.class) /\ r = RoundUp(m.max_data) /\ d <= r /\ r + N * H <= z
    <2>1. m.buf \in Nat /\ m.max_data \in Nat \ {0} /\ m.num_pkts \in Nat
      BY <1>1 DEF Held, MsgBuf
    <2>2. m.num_pkts # 0
      <3>1. PICK P \in Nat \ {0}, x \in Nat \ {0} : P = kMaxDataPerPkt /\ x = m.max_data
        BY <2>1, HugeAssumption
      <3>2. m.num_pkts = IF x <= P THEN 1 ELSE (x + P - 1) \div P
        BY <1>1, <3>1 DEF Held, data_size_to_num_pkts
      <3>3. PICK a \in Nat : a = x + P - 1 /\ ~(a < P)
        OBVIOUS
      <3>4. ~(a \div P < 1) /\ a \div P \in Nat
        <4>1. 1 * P = P
          OBVIOUS
        <4> QED
          BY <3>3, <4>1, DivLess
      <3> QED
        BY <3>2, <3>3, <3>4
    <2>3. kPktHdr \in Nat \ {0}
      BY HugeAssumption
    <2> QED
      BY <1>1, <1>2, <2>1, <2>2, <2>3, RoundedFits
  <1> DEFINE at(n) == IF n = 0 THEN b ELSE b + H + r + (n - 1) * H
  <1>4. \A n : get_pkthdr_n(m, n) = at(n) .. at(n) + H - 1
    BY <1>3 DEF get_pkthdr_n
  <1>5. DataBytes(m) = b + H .. b + H + d - 1
    BY <1>3 DEF DataBytes
  <1>6. Bytes(m.buf, m.class) = b .. b + z - 1
    BY <1>3 DEF Bytes, Size
  <1>7. PICK q \in Nat : q = N * H /\ H <= q /\ r + q <= z
    <2>1. 1 * H <= N * H /\ N * H \in Nat /\ 1 * H = H
      <3>1. 1 \in Nat /\ 1 <= N
        OBVIOUS
      <3> QED
        BY <3>1, TimesMono
    <2> QED
      BY <1>3, <2>1
  <1>8. ASSUME NEW n \in 0 .. N - 1
        PROVE  \E p \in Nat : /\ p = at(n) /\ b <= p /\ p + H <= b + z
                              /\ n = 0 => p + H = b + H
                              /\ n # 0 => b + H + r <= p
    <2>1. CASE n = 0
      BY <1>7, <2>1
    <2>2. CASE n # 0
      <3>1. PICK w \in Nat : w = (n - 1) * H /\ w + H + H <= q
        <4>1. n - 1 \in Nat /\ n + 1 \in Nat /\ n + 1 <= N
          BY <2>2
        <4>2. (n - 1) * H \in Nat /\ (n + 1) * H = (n - 1) * H + H + H /\ (n + 1) * H <= N * H
          BY <4>1, TimesMono
        <4> QED
          BY <1>7, <4>2
      <3>2. at(n) = b + H + r + w
        BY <2>2, <3>1
      <3>3. b + H + r + w \in Nat /\ b <= b + H + r + w /\ b + H + r + w + H <= b + z
            /\ b + H + r <= b + H + r + w
        BY <1>7, <3>1
      <3> QED
        BY <2>2, <3>2, <3>3
    <2> QED
      BY <2>1, <2>2
  <1>9. ASSUME NEW n \in 0 .. N - 1, NEW k \in 0 .. n - 1
        PROVE  at(k) \in Nat /\ at(n) \in Nat /\ at(k) + H <= at(n)
    <2>1. n # 0 /\ k \in 0 .. N - 1
      OBVIOUS
    <2>2. PICK p \in Nat : p = at(n) /\ b + H + r <= p
      BY <1>8, <2>1
    <2>3. CASE k = 0
      BY <2>2, <2>3
    <2>4. CASE k # 0
      <3>1. PICK v \in Nat, w \in Nat : v = (k - 1) * H /\ w = (n - 1) * H /\ v + H <= w
        <4>1. k - 1 \in Nat /\ k \in Nat /\ n - 1 \in Nat /\ k <= n - 1
          BY <2>4
        <4>2. /\ (k - 1) * H \in Nat /\ k * H = (k - 1) * H + H /\ k * H <= (n - 1) * H
              /\ (n - 1) * H \in Nat
          BY <4>1, TimesMono
        <4> QED
          BY <4>2
      <3>2. at(k) = b + H + r + v /\ at(n) = b + H + r + w
        BY <2>1, <2>4, <3>1
      <3>3. /\ b + H + r + v \in Nat /\ b + H + r + w \in Nat
            /\ (b + H + r + v) + H <= b + H + r + w
        BY <3>1
      <3> HIDE DEF at
      <3> QED
        BY <3>2, <3>3
    <2> QED
      BY <2>3, <2>4
  <1> HIDE DEF at
  <1>10. DataBytes(m) \subseteq Bytes(m.buf, m.class)
    <2>1. b + H + d <= b + z /\ b <= b + H
      BY <1>3, <1>7
    <2>2. b + H .. b + H + d - 1 \subseteq b .. b + z - 1
      BY <2>1
    <2> QED
      BY <1>5, <1>6, <2>2
  <1>11. ASSUME NEW n \in 0 .. N - 1
         PROVE  /\ get_pkthdr_n(m, n) \subseteq Bytes(m.buf, m.class)
                /\ get_pkthdr_n(m, n) \cap DataBytes(m) = {}
    <2>1. PICK p \in Nat : /\ p = at(n) /\ b <= p /\ p + H <= b + z
                           /\ n = 0 => p + H = b + H
                           /\ n # 0 => b + H + r <= p
      BY <1>8
    <2>2. get_pkthdr_n(m, n) = p .. p + H - 1
      BY <1>4, <2>1
    <2>3. p + H <= b + H \/ b + H + d <= p
      BY <1>3, <2>1
    <2> QED
      BY <1>5, <1>6, <2>1, <2>2, <2>3, SMTT(30)
  <1>12. ASSUME NEW n \in 0 .. N - 1, NEW k \in 0 .. n - 1
         PROVE  get_pkthdr_n(m, k) \cap get_pkthdr_n(m, n) = {}
    <2>1. PICK p \in Nat, o \in Nat : p = at(n) /\ o = at(k) /\ o + H <= p
      BY <1>9
    <2>2. get_pkthdr_n(m, n) = p .. p + H - 1 /\ get_pkthdr_n(m, k) = o .. o + H - 1
      BY <1>4, <2>1
    <2> QED
      BY <2>1, <2>2
  <1> QED
    BY <1>3, <1>10, <1>11, <1>12

(***************************************************************************)
(* The packet headers and the data of every MsgBuffer stay in its buffer   *)
(* and apart, although alloc_msg_buffer asks for a size without the        *)
(* rounding that get_pkthdr_n adds (rpc.h:146-147, msg_buffer.h:41-46).    *)
(***************************************************************************)
THEOREM MsgBuffersFit == HugeSpec => []MsgBufferFits
  BY HugeInvariant, InvFits, PTL
=============================================================================
