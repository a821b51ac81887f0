------------------------- MODULE TimingWheelProofs -------------------------
(***************************************************************************)
(* Proofs about the timing wheel, for any number of sessions, credits and  *)
(* slots, any rates and any bucket size.                                   *)
(*                                                                         *)
(* The invariant WheelInv says that                                        *)
(*   - the slots' times increase by one slot width from the current slot   *)
(*     on, through every turn of the wheel (Timed);                        *)
(*   - an entry wants a time in its slot's interval (Precise);             *)
(*   - no entry wants a later time than the last one its session was given *)
(*     (Recent), so that the next one goes behind it;                      *)
(*   - a session whose last time lies ahead has entries that account for   *)
(*     it, at most kMaxDelta each (Spaced): as an entry holds a credit,    *)
(*     the credits bound how far ahead a session gets;                     *)
(*   - the entries of a session leave in the order of their numbers, with  *)
(*     none missing (FifoOf);                                              *)
(*   - every bucket is in the pool or in a chain (Buckets).                *)
(*                                                                         *)
(* Two hypotheses on the constants are needed.  SlotsCover: the slots span *)
(* the horizon in cycles, which truncating the slot width to whole cycles  *)
(* can break.  PacketsTakeTime: at full rate a packet takes a cycle or     *)
(* more; two packets of one session with the same desired time could       *)
(* otherwise end up in a slot and in an earlier one.                       *)
(*                                                                         *)
(* The lemmas on induction and recursion are those of HugeAllocProofs.     *)
(***************************************************************************)
EXTENDS HugeAllocProofs, TimingWheel, FunctionTheorems

-----------------------------------------------------------------------------
(***************************************************************************)
(* Remainders and the turn of the wheel.                                   *)
(***************************************************************************)

\* The number of slots and the width of one.
N == kWheelNumWslots
W == wslot_width_tsc

\* The sizes that the constants give the wheel.
LEMMA WheelSizes ==
  /\ N \in Nat \ {0} /\ W \in Nat \ {0} /\ Wslots = 0 .. N - 1
  /\ kWheelHorizon \in Nat /\ N - 1 = CeilDiv(kWheelHorizon, kWheelSlotWidth)
  <1>1. PICK c \in Nat, r \in Nat \ {0} : c = kSessionCredits * kMTU /\ r = kMinRate
    <2>1. kSessionCredits \in Nat /\ kMTU \in Nat /\ kMinRate \in Nat \ {0}
      BY WheelAssumption
    <2>2. kSessionCredits * kMTU \in Nat
      BY <2>1
    <2> QED
      BY <2>1, <2>2
  <1>2. PICK h \in Nat : h = kWheelHorizon
    BY <1>1, DivLess DEF kWheelHorizon
  <1>3. PICK s \in Nat \ {0} : s = kWheelSlotWidth
    BY WheelAssumption
  <1>4. PICK a \in Nat : a = h + s - 1
    OBVIOUS
  <1>5. PICK d \in Nat : d = a \div s
    BY DivLess
  <1>6. CeilDiv(kWheelHorizon, kWheelSlotWidth) = d
    BY <1>2, <1>3, <1>4, <1>5 DEF CeilDiv
  <1>7. N = 1 + d
    BY <1>6 DEF N, kWheelNumWslots
  <1>8. W \in Nat
    <2>1. PICK f \in Nat, g \in Nat \ {0} : f = kWheelSlotWidth * FreqNum /\ g = FreqDen
      <3>1. kWheelSlotWidth \in Nat /\ FreqNum \in Nat /\ FreqDen \in Nat \ {0}
        BY WheelAssumption
      <3>2. kWheelSlotWidth * FreqNum \in Nat
        BY <3>1
      <3> QED
        BY <3>1, <3>2
    <2> QED
      BY <2>1, DivLess DEF W, wslot_width_tsc, us_to_cycles
  <1>9. W > 0
    BY WheelAssumption DEF W
  <1> QED
    BY <1>2, <1>6, <1>7, <1>8, <1>9 DEF Wslots, N

-----------------------------------------------------------------------------
(* Remainders *)

\* A remainder, from a quotient.
LEMMA ModIs ==
  ASSUME NEW d \in Nat \ {0}, NEW n \in Nat, NEW q \in Int, NEW m \in 0 .. d - 1, n = d * q + m
  PROVE  n % d = m
  OBVIOUS

\* What a remainder is.
LEMMA ModOf ==
  ASSUME NEW d \in Nat \ {0}, NEW n \in Nat
  PROVE  /\ n % d \in 0 .. d - 1
         /\ \E q \in Nat : n = q * d + (n % d)
         /\ n < d => n % d = n
  <1>1. n \div d \in Nat /\ n % d \in 0 .. d - 1 /\ n = d * (n \div d) + (n % d)
    OBVIOUS
  <1>2. d * (n \div d) = (n \div d) * d
    BY <1>1
  <1>3. ASSUME n < d
        PROVE  n % d = n
    <2>1. n = d * 0 + n /\ n \in 0 .. d - 1
      BY <1>3
    <2> QED
      BY <2>1, ModIs
  <1> QED
    BY <1>1, <1>2, <1>3

\* Multiples of the divisor do not change a remainder.
LEMMA ModAdd ==
  ASSUME NEW d \in Nat \ {0}, NEW n \in Nat, NEW q \in Nat
  PROVE  (n + q * d) % d = n % d
  <1>1. PICK p \in Nat : n = p * d + (n % d)
    BY ModOf
  <1>2. PICK m \in 0 .. d - 1 : m = n % d
    BY ModOf
  <1>3. p * d \in Nat /\ q * d \in Nat /\ (p + q) * d = p * d + q * d /\ d * (p + q) = (p + q) * d
    OBVIOUS
  <1>4. n + q * d = d * (p + q) + m /\ n + q * d \in Nat /\ p + q \in Int
    BY <1>1, <1>2, <1>3
  <1>5. PICK a \in Nat, b \in Int : a = n + q * d /\ b = p + q /\ a = d * b + m
    BY <1>4
  <1> QED
    BY <1>2, <1>5, ModIs

\* Numbers with the same remainder differ by a multiple of the divisor.
LEMMA ModSame ==
  ASSUME NEW d \in Nat \ {0}, NEW a \in Nat, NEW b \in Nat, a % d = b % d, a <= b
  PROVE  \E q \in Nat : b = a + q * d
  <1>1. PICK p \in Nat, r \in Nat, m \in Nat : a = p * d + m /\ b = r * d + m
    <2>1. PICK m \in Nat : m = a % d /\ m = b % d
      BY ModOf
    <2>2. PICK p \in Nat : a = p * d + m
      BY <2>1, ModOf
    <2>3. PICK r \in Nat : b = r * d + m
      BY <2>1, ModOf
    <2> QED
      BY <2>2, <2>3
  <1>2. p <= r
    <2> SUFFICES ASSUME r < p
                 PROVE  FALSE
      OBVIOUS
    <2>1. r + 1 <= p /\ r + 1 \in Nat
      OBVIOUS
    <2>2. (r + 1) * d <= p * d /\ (r + 1) * d = r * d + d /\ r * d \in Nat /\ p * d \in Nat
      BY <2>1, TimesMono
    <2> QED
      BY <1>1, <2>2
  <1>3. PICK q \in Nat : q = r - p /\ r = p + q
    BY <1>2
  <1>4. (p + q) * d = p * d + q * d /\ p * d \in Nat /\ q * d \in Nat
    OBVIOUS
  <1> QED
    BY <1>1, <1>3, <1>4

\* Remainders of a sum.
LEMMA ModSum ==
  ASSUME NEW d \in Nat \ {0}, NEW a \in Nat, NEW b \in Nat
  PROVE  ((a % d) + b) % d = (a + b) % d
  <1>0. PICK m \in Nat : m = a % d
    BY ModOf
  <1>1. PICK q \in Nat : m = a % d /\ a = q * d + m
    BY <1>0, ModOf
  <1>2. q * d \in Nat /\ a + b = (m + b) + q * d /\ m + b \in Nat
    BY <1>1
  <1>3. ((m + b) + q * d) % d = (m + b) % d
    BY <1>2, ModAdd
  <1> QED
    BY <1>1, <1>2, <1>3

-----------------------------------------------------------------------------
(* The slots in turn *)

\* Slot times increase by a slot's width from the current slot on.
Timed(tx, cur) ==
    /\ tx \in [Wslots -> Int] /\ cur \in Wslots
    /\ \A n \in 0 .. N - 1 : tx[(cur + n) % N] = tx[cur] + n * W

\* Every slot is met exactly once in a turn that starts at cur.
LEMMA InTurn ==
  ASSUME NEW cur \in Wslots
  PROVE  /\ cur \in Nat /\ cur < N
         /\ \A i \in Wslots : \E n \in 0 .. N - 1 : (cur + n) % N = i
         /\ \A n \in 0 .. N - 1, m \in 0 .. N - 1 : (cur + n) % N = (cur + m) % N => n = m
         /\ \A n \in Nat : (cur + n) % N \in Wslots
  <1>1. PICK d \in Nat \ {0} : d = N /\ Wslots = 0 .. d - 1
    BY WheelSizes
  <1>2. ASSUME NEW i \in Wslots
        PROVE  \E n \in 0 .. d - 1 : (cur + n) % d = i
    <2>1. CASE cur <= i
      <3>1. i - cur \in 0 .. d - 1 /\ cur + (i - cur) = i /\ i \in Nat /\ i < d
        BY <1>1, <2>1
      <3> QED
        BY <3>1, ModOf
    <2>2. CASE i < cur
      <3>1. PICK n \in 0 .. d - 1 : n = i - cur + d /\ cur + n = d * 1 + i /\ cur + n \in Nat /\ i \in 0 .. d - 1
        BY <1>1, <2>2
      <3>2. (cur + n) % d = i
        <4>1. PICK x \in Nat : x = cur + n
          BY <3>1
        <4> QED
          BY <3>1, <4>1, ModIs
      <3> QED
        BY <3>2
    <2> QED
      BY <1>1, <2>1, <2>2
  <1>3. ASSUME NEW n \in 0 .. d - 1, NEW m \in 0 .. d - 1, (cur + n) % d = (cur + m) % d, n <= m
        PROVE  n = m
    <2>1. PICK a \in Nat, b \in Nat : a = cur + n /\ b = cur + m /\ a <= b
      BY <1>1, <1>3
    <2>2. PICK q \in Nat : b = a + q * d
      BY <1>3, <2>1, ModSame
    <2>0. cur \in Nat /\ n \in Nat /\ m \in Nat /\ m < d
      BY <1>1
    <2>3. CASE q = 0
      <3>1. a = b
        BY <2>2, <2>3
      <3> QED
        BY <2>0, <2>1, <3>1
    <2>4. CASE q # 0
      <3>1. PICK e \in Nat : e = q * d /\ d <= e
        <4>1. 1 \in Nat /\ 1 <= q
          BY <2>4
        <4>2. 1 * d <= q * d /\ q * d \in Nat /\ 1 * d = d
          BY <4>1, TimesMono
        <4> QED
          BY <4>2
      <3> QED
        BY <2>0, <2>1, <2>2, <3>1
    <2> QED
      BY <2>3, <2>4
  <1>4. ASSUME NEW n \in 0 .. d - 1, NEW m \in 0 .. d - 1, (cur + n) % d = (cur + m) % d
        PROVE  n = m
    <2>1. n <= m \/ m <= n
      OBVIOUS
    <2> QED
      BY <1>3, <1>4, <2>1
  <1>5. ASSUME NEW n \in Nat
        PROVE  (cur + n) % d \in Wslots
    <2>1. cur + n \in Nat
      BY <1>1
    <2> QED
      BY <1>1, <2>1, ModOf
  <1>6. cur \in Nat /\ cur < d
    BY <1>1
  <1> QED
    BY <1>1, <1>2, <1>4, <1>5, <1>6

\* How far reap goes.
LEMMA ReapsTo ==
  ASSUME Timed(tx_tsc, cur_wslot)
  PROVE  /\ ReapCount \in Nat /\ tx_tsc[cur_wslot] \in Int
         /\ \A n \in Nat : n < ReapCount <=> tx_tsc[cur_wslot] + n * W <= 0
         /\ tx_tsc[cur_wslot] + ReapCount * W > 0
         /\ tx_tsc[cur_wslot] <= W => tx_tsc[cur_wslot] + ReapCount * W <= W
  <1>1. PICK t \in Int, w \in Nat \ {0} : t = tx_tsc[cur_wslot] /\ w = W
    BY WheelSizes DEF Timed
  <1>2. ReapCount = IF t > 0 THEN 0 ELSE 1 + (-t) \div w
    BY <1>1 DEF ReapCount, W
  <1>3. CASE t > 0
    <2>1. \A n \in Nat : n * w \in Nat /\ ~(t + n * w <= 0) /\ ~(n < 0)
      BY <1>3
    <2>2. 0 * w = 0
      OBVIOUS
    <2> QED
      BY <1>1, <1>2, <1>3, <2>1, <2>2
  <1>4. CASE ~(t > 0)
    <2>1. PICK a \in Nat : a = -t
      BY <1>4
    <2>2. PICK q \in Nat : q = a \div w
      BY DivLess
    <2>3. ReapCount = 1 + q /\ 1 + q \in Nat
      BY <1>2, <1>4, <2>1, <2>2
    <2>4. ASSUME NEW n \in Nat
          PROVE  n < 1 + q <=> t + n * w <= 0
      <3>1. q < n <=> a < n * w
        BY <2>2, DivLess
      <3>2. n * w \in Nat
        OBVIOUS
      <3> QED
        BY <2>1, <3>1, <3>2
    <2>5. t + (1 + q) * w > 0
      <3>1. (1 + q) * w \in Nat /\ ~(1 + q < 1 + q)
        BY <2>3
      <3>2. ~(t + (1 + q) * w <= 0)
        BY <2>3, <2>4, <3>1
      <3> QED
        BY <3>1, <3>2
    <2>6. t + (1 + q) * w <= w
      <3>1. q < 1 + q /\ q * w \in Nat /\ (1 + q) * w = w + q * w
        OBVIOUS
      <3>2. t + q * w <= 0
        BY <2>4, <3>1
      <3> QED
        BY <3>1, <3>2
    <2> QED
      BY <1>1, <2>3, <2>4, <2>5, <2>6
  <1> QED
    BY <1>3, <1>4

\* The slots that reap takes are those whose time has come.
LEMMA ReapedSlots ==
  ASSUME Timed(tx_tsc, cur_wslot)
  PROVE  /\ Reaped \subseteq Wslots
         /\ \A i \in Reaped : tx_tsc[i] <= 0
         /\ \A i \in Wslots \ Reaped : tx_tsc[i] > 0 /\ ReapedTimes(i) = 0
         /\ \A n \in 0 .. N - 1 : (cur_wslot + n) % N \in Reaped <=> n < ReapCount
  <1>1. PICK d \in Nat \ {0}, c \in Wslots, R \in Nat, t \in Int, w \in Nat \ {0} :
          /\ d = N /\ c = cur_wslot /\ R = ReapCount /\ t = tx_tsc[cur_wslot] /\ w = W
    BY WheelSizes, ReapsTo DEF Timed
  <1>2. /\ c \in Nat /\ c < d
        /\ \A i \in Wslots : \E n \in 0 .. d - 1 : (c + n) % d = i
        /\ \A n \in 0 .. d - 1, m \in 0 .. d - 1 : (c + n) % d = (c + m) % d => n = m
        /\ \A n \in Nat : (c + n) % d \in Wslots
    BY <1>1, InTurn
  <1>3. \A i : i \in Reaped <=> \E k \in 0 .. R - 1 : (c + k) % d = i
    BY <1>1 DEF Reaped, NthWslot, N
  <1>4. ASSUME NEW n \in 0 .. d - 1
        PROVE  (c + n) % d \in Reaped <=> n < R
    <2>1. ASSUME n < R
          PROVE  (c + n) % d \in Reaped
      <3>1. n \in 0 .. R - 1
        BY <2>1
      <3> QED
        BY <1>3, <3>1
    <2>2. ASSUME NEW k \in 0 .. R - 1, (c + k) % d = (c + n) % d, ~(n < R)
          PROVE  FALSE
      <3>1. k \in 0 .. d - 1 /\ k # n
        BY <2>2
      <3> QED
        BY <1>2, <2>2, <3>1
    <2> QED
      BY <1>3, <2>1, <2>2
  <1>5. ASSUME NEW i \in Reaped
        PROVE  i \in Wslots
    <2>1. PICK k \in 0 .. R - 1 : (c + k) % d = i
      BY <1>3
    <2>2. k \in Nat
      OBVIOUS
    <2> QED
      BY <1>2, <2>1, <2>2
  <1>6. \A n \in 0 .. d - 1 : n < R <=> t + n * w <= 0
    BY <1>1, ReapsTo
  <1>7. \A n \in 0 .. d - 1 : tx_tsc[(c + n) % d] = t + n * w
    BY <1>1 DEF Timed
  <1>8. ASSUME NEW i \in Reaped
        PROVE  tx_tsc[i] <= 0
    <2>1. PICK n \in 0 .. d - 1 : (c + n) % d = i
      BY <1>2, <1>5
    <2> QED
      BY <1>4, <1>6, <1>7, <2>1
  <1>9. ASSUME NEW i \in Wslots \ Reaped
        PROVE  tx_tsc[i] > 0 /\ ReapedTimes(i) = 0
    <2>1. PICK n \in 0 .. d - 1 : (c + n) % d = i
      BY <1>2
    <2>2. ~(t + n * w <= 0) /\ tx_tsc[i] = t + n * w
      BY <1>4, <1>6, <1>7, <2>1
    <2>3. {k \in 0 .. R - 1 : (c + k) % d = i} = {}
      BY <1>3
    <2>4. ReapedTimes(i) = 0
      BY <1>1, <2>3, FS_EmptySet DEF ReapedTimes, NthWslot, N
    <2>5. n * w \in Nat
      OBVIOUS
    <2> QED
      BY <2>2, <2>4, <2>5
  <1> QED
    BY <1>1, <1>4, <1>5, <1>8, <1>9

\* How often slot i of d is passed in R steps from c.
Passed(d, c, R, i) == Cardinality({k \in 0 .. R - 1 : (c + k) % d = i})

\* After R steps from c, the n-th slot from there has been passed as often as
\* R + n holds d.
LEMMA TurnCount ==
  ASSUME NEW d \in Nat \ {0}, NEW c \in Nat, NEW R \in Nat, NEW n \in 0 .. d - 1
  PROVE  \E q \in Nat, m \in 0 .. d - 1 :
            /\ Passed(d, c, R, (c + (R + n)) % d) = q
            /\ R + n = m + q * d
  <1>1. PICK x \in Nat : x = R + n
    OBVIOUS
  <1>2. PICK m \in 0 .. d - 1 : m = x % d
    BY ModOf
  <1>3. PICK q \in Nat : x = q * d + m
    BY <1>2, ModOf
  <1>4. m \in Nat /\ m < d /\ q * d \in Nat /\ \A l \in Nat : l * d \in Nat
    OBVIOUS
  <1> DEFINE S == {k \in 0 .. R - 1 : (c + k) % d = (c + x) % d}
             f == [l \in 0 .. q - 1 |-> m + l * d]
  <1>5. ASSUME NEW l \in 0 .. q - 1
        PROVE  m + l * d \in S
    <2>1. l \in Nat /\ l + 1 <= q /\ l + 1 \in Nat
      OBVIOUS
    <2>2. PICK e \in Nat : e = l * d /\ e + d <= q * d
      <3>1. (l + 1) * d <= q * d /\ (l + 1) * d = l * d + d /\ l * d \in Nat
        BY <2>1, TimesMono
      <3> QED
        BY <3>1
    <2>3. m + e \in 0 .. R - 1
      BY <1>1, <1>3, <1>4, <2>2
    <2>4. PICK j \in Nat : j = q - l /\ q = l + j
      BY <2>1
    <2>5. q * d = l * d + j * d /\ j * d \in Nat
      BY <2>1, <2>4
    <2>6. PICK a \in Nat : a = c + (m + e) /\ c + x = a + j * d
      BY <1>3, <1>4, <2>2, <2>5
    <2>7. (a + j * d) % d = a % d
      BY ModAdd
    <2> QED
      BY <2>2, <2>3, <2>6, <2>7
  <1>6. ASSUME NEW k \in S
        PROVE  \E l \in 0 .. q - 1 : k = m + l * d
    <2>1. k \in Nat /\ k < x /\ c + k \in Nat /\ c + x \in Nat /\ c + k <= c + x
      BY <1>1
    <2>2. PICK a \in Nat, b \in Nat : a = c + k /\ b = c + x /\ a % d = b % d /\ a <= b
      BY <2>1
    <2>3. PICK j \in Nat : b = a + j * d
      BY <2>2, ModSame
    <2>4. PICK e \in Nat : e = j * d /\ x = k + e
      BY <1>4, <2>1, <2>2, <2>3
    <2>5. j # 0
      BY <2>1, <2>4
    <2>6. j <= q
      <3> SUFFICES ASSUME q + 1 <= j
                   PROVE  FALSE
        OBVIOUS
      <3>1. (q + 1) * d <= j * d /\ (q + 1) * d = q * d + d
        BY TimesMono
      <3> QED
        BY <1>3, <1>4, <2>1, <2>4, <3>1
    <2>7. PICK l \in 0 .. q - 1 : l = q - j /\ q = l + j /\ l \in Nat
      BY <2>5, <2>6
    <2>8. q * d = l * d + j * d /\ l * d \in Nat
      BY <2>7
    <2>9. k = m + l * d
      BY <1>3, <1>4, <2>1, <2>4, <2>8
    <2> QED
      BY <2>9
  <1>7. ASSUME NEW l \in 0 .. q - 1, NEW j \in 0 .. q - 1, m + l * d = m + j * d
        PROVE  l = j
    <2>1. l * d = j * d
      <3>1. l * d \in Nat /\ j * d \in Nat
        OBVIOUS
      <3> QED
        BY <1>4, <1>7, <3>1
    <2>2. ASSUME NEW a \in Nat, NEW b \in Nat, a * d = b * d, a < b
          PROVE  FALSE
      <3>1. a + 1 \in Nat /\ a + 1 <= b
        BY <2>2
      <3>2. (a + 1) * d <= b * d /\ (a + 1) * d = a * d + d /\ a * d \in Nat
        BY <3>1, TimesMono
      <3> QED
        BY <2>2, <3>2
    <2> QED
      BY <2>1, <2>2
  <1>8. f \in Bijection(0 .. q - 1, S)
    <2>1. f \in [0 .. q - 1 -> S]
      BY <1>5
    <2>2. \A l, j \in 0 .. q - 1 : f[l] = f[j] => l = j
      BY <1>7
    <2>3. \A k \in S : \E l \in 0 .. q - 1 : f[l] = k
      BY <1>6
    <2> HIDE DEF f, S
    <2> QED
      BY <2>1, <2>2, <2>3, Fun_IsBij
  <1>9. IsFiniteSet(0 .. q - 1) /\ Cardinality(0 .. q - 1) = q
    <2>1. 0 \in Int /\ q - 1 \in Int
      OBVIOUS
    <2>2. IsFiniteSet(0 .. q - 1) /\ Cardinality(0 .. q - 1) = IF 0 > q - 1 THEN 0 ELSE (q - 1) - 0 + 1
      BY <2>1, FS_Interval
    <2> QED
      BY <2>2
  <1>10. Cardinality(S) = q
    <2> HIDE DEF f, S
    <2> QED
      BY <1>8, <1>9, FS_Bijection DEF ExistsBijection
  <1>11. R + n = m + q * d
    BY <1>1, <1>3, <1>4
  <1>12. Passed(d, c, R, (c + (R + n)) % d) = q
    BY <1>1, <1>10 DEF Passed
  <1> QED
    BY <1>11, <1>12

\* The slots' times after reap.
LEMMA ReapTimed ==
  ASSUME Timed(tx_tsc, cur_wslot)
  PROVE  /\ Timed(reap.tx_tsc, reap.cur)
         /\ reap.tx_tsc[reap.cur] = tx_tsc[cur_wslot] + ReapCount * W
         /\ \A i \in Wslots \ Reaped : reap.tx_tsc[i] = tx_tsc[i]
  <1>1. PICK d \in Nat \ {0}, c \in Wslots, R \in Nat, t \in Int, w \in Nat \ {0} :
          /\ d = N /\ c = cur_wslot /\ R = ReapCount /\ t = tx_tsc[cur_wslot] /\ w = W
    BY WheelSizes, ReapsTo DEF Timed
  <1>2. /\ c \in Nat /\ c < d
        /\ \A i \in Wslots : \E n \in 0 .. d - 1 : (c + n) % d = i
        /\ \A n \in Nat : (c + n) % d \in Wslots
    BY <1>1, InTurn
  <1>3. PICK e \in Wslots : e = (c + R) % d /\ e = reap.cur /\ e \in Nat
    <2>1. (c + R) % d \in Wslots /\ (c + R) % d = reap.cur
      BY <1>1, <1>2 DEF reap, NthWslot, N
    <2> QED
      BY <2>1, WheelSizes
  <1>4. \A i \in Wslots : reap.tx_tsc[i] = tx_tsc[i] + ReapedTimes(i) * w * d
    BY <1>1 DEF reap, N, W
  <1>5. ASSUME NEW n \in 0 .. d - 1
        PROVE  /\ (e + n) % d \in Wslots
               /\ reap.tx_tsc[(e + n) % d] = t + (R + n) * w
    <2>1. PICK i \in Wslots : i = (e + n) % d
      BY <1>2, <1>3, InTurn, <1>1
    <2>2. i = (c + (R + n)) % d
      <3>1. PICK a \in Nat, b \in Nat : a = c + R /\ b = n /\ a + b = c + (R + n)
        BY <1>2
      <3>2. ((a % d) + b) % d = (a + b) % d
        BY ModSum
      <3> QED
        BY <1>3, <2>1, <3>1, <3>2
    <2>3. PICK q \in Nat, m \in 0 .. d - 1 :
            /\ Passed(d, c, R, (c + (R + n)) % d) = q
            /\ R + n = m + q * d
      <3>1. c \in Nat /\ d \in Nat \ {0} /\ R \in Nat /\ n \in 0 .. d - 1
        BY <1>2
      <3> QED
        BY ONLY <3>1, TurnCount, ZenonT(60)
    <2>4. ReapedTimes(i) = q
      BY <1>1, <2>2, <2>3 DEF ReapedTimes, NthWslot, N, Passed
    <2>5. i = (c + m) % d
      <3>1. PICK a \in Nat : a = c + m /\ c + (R + n) = a + q * d
        <4>1. q * d \in Nat
          OBVIOUS
        <4> QED
          BY <1>2, <2>3, <4>1
      <3>2. (a + q * d) % d = a % d
        BY ModAdd
      <3> QED
        BY <2>2, <3>1, <3>2
    <2>6. tx_tsc[i] = t + m * w
      BY <1>1, <2>5 DEF Timed
    <2>7. (R + n) * w = m * w + q * w * d
      <3>1. (m + q * d) * w = m * w + q * w * d
        OBVIOUS
      <3> QED
        BY <2>3, <3>1
    <2>8. t + m * w + q * w * d = t + (R + n) * w
      BY <2>7
    <2> QED
      BY <1>4, <2>1, <2>4, <2>6, <2>8
  <1>6. reap.tx_tsc[e] = t + R * w
    <2>1. 0 \in 0 .. d - 1 /\ e + 0 = e /\ R + 0 = R /\ e < d
      BY <1>1, <1>3, WheelSizes
    <2>2. (e + 0) % d = e
      BY <1>3, <2>1, ModOf
    <2> QED
      BY <1>5, <2>1, <2>2
  <1>7. \A n \in 0 .. d - 1 : reap.tx_tsc[(e + n) % d] = reap.tx_tsc[e] + n * w
    <2> SUFFICES ASSUME NEW n \in 0 .. d - 1
                 PROVE  reap.tx_tsc[(e + n) % d] = reap.tx_tsc[e] + n * w
      OBVIOUS
    <2>1. t + (R + n) * w = (t + R * w) + n * w
      OBVIOUS
    <2> QED
      BY <1>5, <1>6, <2>1
  <1>8. reap.tx_tsc \in [Wslots -> Int]
    <2>1. ASSUME NEW i \in Wslots
          PROVE  reap.tx_tsc[i] \in Int
      <3>0. \A j \in Wslots : \E n \in 0 .. d - 1 : (e + n) % d = j
        BY <1>1, InTurn
      <3>1. PICK n \in 0 .. d - 1 : (e + n) % d = i
        BY <3>0
      <3>2. t + (R + n) * w \in Int
        OBVIOUS
      <3> QED
        BY <1>5, <3>1, <3>2
    <2>2. reap.tx_tsc = [i \in Wslots |-> reap.tx_tsc[i]]
      BY DEF reap
    <2> HIDE DEF reap
    <2> QED
      BY <2>1, <2>2
  <1>9. ASSUME NEW i \in Wslots \ Reaped
        PROVE  reap.tx_tsc[i] = tx_tsc[i]
    <2>1. ReapedTimes(i) = 0 /\ tx_tsc[i] \in Int
      BY ReapedSlots DEF Timed
    <2>2. 0 * w * d = 0
      OBVIOUS
    <2> QED
      BY <1>4, <2>1, <2>2
  <1> QED
    BY <1>1, <1>3, <1>6, <1>7, <1>8, <1>9 DEF Timed

\* The slots that reap takes, in turn.
LEMMA ReapedInTurn ==
  ASSUME Timed(tx_tsc, cur_wslot)
  PROVE  /\ Cardinality(Reaped) \in Nat /\ IsFiniteSet(Reaped)
         /\ \A n \in 1 .. Cardinality(Reaped) : NthWslot(n - 1) \in Reaped
         /\ \A i \in Reaped : \E n \in 1 .. Cardinality(Reaped) : NthWslot(n - 1) = i
         /\ \A n, m \in 1 .. Cardinality(Reaped) :
               n < m => tx_tsc[NthWslot(n - 1)] < tx_tsc[NthWslot(m - 1)]
  <1>1. PICK d \in Nat \ {0}, c \in Wslots, R \in Nat, t \in Int, w \in Nat \ {0} :
          /\ d = N /\ c = cur_wslot /\ R = ReapCount /\ t = tx_tsc[cur_wslot] /\ w = W
    BY WheelSizes, ReapsTo DEF Timed
  <1>2. PICK C \in Nat : C <= R /\ C <= d /\ (C = R \/ C = d)
    <2>1. R <= d \/ d <= R
      OBVIOUS
    <2> QED
      BY <2>1
  <1>3. /\ c \in Nat /\ c < d
        /\ \A i \in Wslots : \E n \in 0 .. d - 1 : (c + n) % d = i
        /\ \A n \in 0 .. d - 1, m \in 0 .. d - 1 : (c + n) % d = (c + m) % d => n = m
    BY <1>1, InTurn
  <1>4. \A n \in 0 .. d - 1 : (c + n) % d \in Reaped <=> n < R
    BY <1>1, ReapedSlots
  <1>5. Reaped \subseteq Wslots
    BY ReapedSlots
  <1>6. \A n \in 0 .. d - 1 : NthWslot(n) = (c + n) % d /\ tx_tsc[NthWslot(n)] = t + n * w
    BY <1>1 DEF Timed, NthWslot, N
  <1> DEFINE f == [n \in 1 .. C |-> NthWslot(n - 1)]
  <1>7. ASSUME NEW n \in 1 .. C
        PROVE  n - 1 \in 0 .. d - 1 /\ n - 1 < R /\ f[n] = NthWslot(n - 1) /\ f[n] \in Reaped
               /\ n - 1 \in Nat
    <2>1. n - 1 \in 0 .. d - 1 /\ n - 1 < R /\ n - 1 \in Nat
      BY <1>2
    <2> QED
      BY <1>4, <1>6, <2>1
  <1>8. ASSUME NEW i \in Reaped
        PROVE  \E n \in 1 .. C : f[n] = i
    <2>1. PICK m \in 0 .. d - 1 : (c + m) % d = i
      BY <1>3, <1>5
    <2>2. m < R /\ NthWslot(m) = i
      BY <1>4, <1>6, <2>1
    <2>3. PICK n \in 1 .. C : n = m + 1 /\ n - 1 = m
      BY <1>2, <2>2
    <2> QED
      BY <2>2, <2>3
  <1>9. f \in [1 .. C -> Reaped]
    BY <1>7
  <1>10. ASSUME NEW n \in 1 .. C, NEW m \in 1 .. C, f[n] = f[m]
         PROVE  n = m
    <2>1. PICK a \in 0 .. d - 1, b \in 0 .. d - 1 : a = n - 1 /\ b = m - 1
      BY <1>7
    <2>2. (c + a) % d = (c + b) % d
      BY <1>6, <1>7, <1>10, <2>1
    <2>3. a = b
      BY <1>3, <2>2
    <2> QED
      BY <2>1, <2>3
  <1>11. f \in Bijection(1 .. C, Reaped)
    <2> HIDE DEF f
    <2> QED
      BY <1>8, <1>9, <1>10, Fun_IsBij
  <1>12. IsFiniteSet(1 .. C) /\ Cardinality(1 .. C) = C
    <2>1. IsFiniteSet(1 .. C) /\ Cardinality(1 .. C) = IF 1 > C THEN 0 ELSE C - 1 + 1
      BY FS_Interval
    <2> QED
      BY <2>1
  <1>13. Cardinality(Reaped) = C /\ IsFiniteSet(Reaped)
    <2> HIDE DEF f
    <2> QED
      BY <1>11, <1>12, FS_Bijection DEF ExistsBijection
  <1>14. ASSUME NEW n \in 1 .. C, NEW m \in 1 .. C, n < m
         PROVE  tx_tsc[NthWslot(n - 1)] < tx_tsc[NthWslot(m - 1)]
    <2>1. PICK a \in Nat, b \in Nat : a = n - 1 /\ b = m - 1 /\ a + 1 <= b
      BY <1>7, <1>14
    <2>2. PICK x \in Int, y \in Int : x = t + a * w /\ y = t + b * w /\ x < y
      <3>1. (a + 1) * w <= b * w /\ (a + 1) * w = a * w + w /\ a * w \in Nat /\ b * w \in Nat
        BY <2>1, TimesMono
      <3> QED
        BY <3>1
    <2> QED
      BY <1>6, <1>7, <2>1, <2>2
  <1> QED
    BY <1>7, <1>8, <1>13, <1>14

-----------------------------------------------------------------------------
(***************************************************************************)
(* Flatten: the entries of a chain of buckets, in order.                   *)
(***************************************************************************)

\* The recursion of Flatten.
LEMMA FlattenDef ==
  ASSUME NEW X, NEW chain \in Seq(Seq(X))
  PROVE  \E cat : /\ cat \in [0 .. Len(chain) -> Seq(X)] /\ cat[0] = <<>>
                  /\ \A n \in 0 .. Len(chain) - 1 : cat[n + 1] = cat[n] \o chain[n + 1]
                  /\ Flatten(chain) = cat[Len(chain)]
  <1>1. PICK L \in Nat : L = Len(chain) /\ \A n \in 1 .. L : chain[n] \in Seq(X)
    OBVIOUS
  <1>2. <<>> \in Seq(X)
    OBVIOUS
  <1> DEFINE G == [n \in Nat |-> [q \in Seq(X) |-> IF n + 1 \in 1 .. L THEN q \o chain[n + 1] ELSE q]]
  <1>3. Steps(G, Seq(X))
    <2>1. ASSUME NEW n \in Nat, NEW q \in Seq(X)
          PROVE  (IF n + 1 \in 1 .. L THEN q \o chain[n + 1] ELSE q) \in Seq(X)
      <3>1. CASE n + 1 \in 1 .. L
        <4>1. PICK z \in Seq(X) : z = chain[n + 1]
          BY <1>1, <3>1
        <4>2. q \o z \in Seq(X)
          BY ConcatProperties
        <4> QED
          BY <3>1, <4>1, <4>2
      <3> QED
        BY <3>1
    <2> QED
      BY <2>1 DEF Steps
  <1>4. PICK f : Computes(f, G, Seq(X), <<>>)
    <2> HIDE DEF G
    <2> QED
      BY <1>2, <1>3, Recursion
  <1>5. f \in [Nat -> Seq(X)] /\ f[0] = <<>> /\ \A n \in Nat : f[n + 1] = G[n][f[n]]
    BY <1>4 DEF Computes
  <1> DEFINE g == [n \in 0 .. L |-> f[n]]
  <1>6. ASSUME NEW n \in 0 .. L - 1
        PROVE  g[n + 1] = g[n] \o chain[n + 1]
    <2>1. n \in Nat /\ n \in 0 .. L /\ n + 1 \in 0 .. L /\ n + 1 \in 1 .. L
      OBVIOUS
    <2>2. G[n][f[n]] = f[n] \o chain[n + 1]
      BY <1>5, <2>1
    <2> QED
      BY <1>5, <2>1, <2>2
  <1>7. g \in [0 .. L -> Seq(X)] /\ g[0] = <<>>
    BY <1>5
  <1>8. g = [n \in 0 .. L |-> IF n = 0 THEN <<>> ELSE g[n - 1] \o chain[n]]
    <2>1. ASSUME NEW n \in 0 .. L
          PROVE  g[n] = IF n = 0 THEN <<>> ELSE g[n - 1] \o chain[n]
      <3>1. CASE n = 0
        BY <1>7, <3>1
      <3>2. CASE n # 0
        <4>1. PICK m \in 0 .. L - 1 : m = n - 1 /\ m + 1 = n
          BY <3>2
        <4> HIDE DEF g
        <4> QED
          BY <1>6, <3>2, <4>1
      <3> QED
        BY <3>1, <3>2
    <2>2. g = [n \in 0 .. L |-> g[n]]
      OBVIOUS
    <2> HIDE DEF g
    <2> QED
      BY <2>1, <2>2
  <1> HIDE DEF g
  <1>9. ASSUME NEW h, h = [n \in 0 .. L |-> IF n = 0 THEN <<>> ELSE h[n - 1] \o chain[n]]
        PROVE  h[L] = g[L]
    <2> DEFINE S == {n \in Nat : n <= L => h[n] = g[n]}
    <2>1. 0 \in S
      <3>1. 0 \in 0 .. L
        OBVIOUS
      <3> QED
        BY <1>7, <1>9, <3>1
    <2>2. ASSUME NEW n \in Nat, n \in S
          PROVE  n + 1 \in S
      <3> SUFFICES ASSUME n + 1 <= L
                   PROVE  h[n + 1] = g[n + 1]
        OBVIOUS
      <3>1. n + 1 \in 0 .. L /\ n + 1 # 0 /\ (n + 1) - 1 = n /\ h[n] = g[n] /\ n \in 0 .. L - 1
        BY <2>2
      <3>2. h[n + 1] = h[n] \o chain[n + 1]
        BY <1>9, <3>1
      <3> QED
        BY <1>6, <3>1, <3>2
    <2> HIDE DEF S
    <2>3. \A n \in Nat : n \in S
      BY <2>1, <2>2, Induction
    <2> QED
      BY <2>3 DEF S
  <1>10. Flatten(chain) = g[L]
    <2>1. PICK h : /\ h = [n \in 0 .. L |-> IF n = 0 THEN <<>> ELSE h[n - 1] \o chain[n]]
                   /\ Flatten(chain) = h[L]
      BY <1>1, <1>8 DEF Flatten
    <2> QED
      BY <1>9, <2>1
  <1> QED
    BY <1>1, <1>6, <1>7, <1>10

\* q lists the entries of the first n sequences of chain, one after the other.
Ordered(b, k, c, m) == b < c \/ (b = c /\ k < m)
At(chain, n, u, b, k) == b \in 1 .. n /\ k \in 1 .. Len(chain[b]) /\ u = chain[b][k]
InOrder(chain, n, u, v) ==
    \E b, c, k, m : At(chain, n, u, b, k) /\ At(chain, n, v, c, m) /\ Ordered(b, k, c, m)
Listed(chain, n, q) ==
    /\ \A j \in 1 .. Len(q) : \E b, k : At(chain, n, q[j], b, k)
    /\ \A b \in 1 .. n : \A k \in 1 .. Len(chain[b]) : \E j \in 1 .. Len(q) : q[j] = chain[b][k]
    /\ \A j, l \in 1 .. Len(q) : j < l => InOrder(chain, n, q[j], q[l])

\* The next sequence is listed after the ones before it.
LEMMA ListedNext ==
  ASSUME NEW X, NEW chain \in Seq(Seq(X)), NEW n \in Nat, n + 1 <= Len(chain),
         NEW q \in Seq(X), Listed(chain, n, q)
  PROVE  Listed(chain, n + 1, q \o chain[n + 1])
  <1>1. PICK z \in Seq(X) : z = chain[n + 1]
    <2>1. n + 1 \in 1 .. Len(chain)
      OBVIOUS
    <2> QED
      BY <2>1
  <1>2. PICK a \in Nat, e \in Nat : a = Len(q) /\ e = Len(z)
    OBVIOUS
  <1>3. PICK y \in Seq(X) : /\ y = q \o z /\ Len(y) = a + e
                            /\ \A j \in 1 .. a : y[j] = q[j]
                            /\ \A k \in 1 .. e : y[a + k] = z[k]
    <2>1. /\ q \o z \in Seq(X) /\ Len(q \o z) = Len(q) + Len(z)
          /\ \A i \in 1 .. Len(q) + Len(z) :
               (q \o z)[i] = IF i <= Len(q) THEN q[i] ELSE z[i - Len(q)]
      BY ConcatProperties
    <2>2. \A j \in 1 .. a : j \in 1 .. a + e /\ j <= a
      OBVIOUS
    <2>3. \A k \in 1 .. e : a + k \in 1 .. a + e /\ ~(a + k <= a) /\ (a + k) - a = k
      OBVIOUS
    <2>4. PICK y \in Seq(X) : y = q \o z
      BY <2>1
    <2>5. /\ Len(y) = a + e
          /\ \A i \in 1 .. a + e : y[i] = IF i <= a THEN q[i] ELSE z[i - a]
      BY <1>2, <2>1, <2>4
    <2>6. \A j \in 1 .. a : y[j] = q[j]
      BY <2>2, <2>5
    <2>7. \A k \in 1 .. e : y[a + k] = z[k]
      <3> SUFFICES ASSUME NEW k \in 1 .. e
                   PROVE  y[a + k] = z[k]
        OBVIOUS
      <3>1. PICK i \in 1 .. a + e : i = a + k /\ ~(i <= a) /\ i - a = k
        BY <2>3
      <3> QED
        BY <2>5, <3>1
    <2> QED
      BY <2>4, <2>5, <2>6, <2>7
  <1>4. /\ 1 .. n \subseteq 1 .. n + 1 /\ n + 1 \in 1 .. n + 1
        /\ \A b \in 1 .. n + 1 : b \in 1 .. n \/ b = n + 1
        /\ \A b \in 1 .. n : b < n + 1
    OBVIOUS
  <1>5. /\ \A j \in 1 .. a + e : j \in 1 .. a \/ (\E k \in 1 .. e : j = a + k)
        /\ 1 .. a \subseteq 1 .. a + e
        /\ \A k \in 1 .. e : a + k \in 1 .. a + e
    <2>1. ASSUME NEW j \in 1 .. a + e, ~(j \in 1 .. a)
          PROVE  \E k \in 1 .. e : j = a + k
      <3>1. j - a \in 1 .. e /\ j = a + (j - a)
        BY <2>1
      <3> QED
        BY <3>1
    <2> QED
      BY <2>1
  <1>6. \A u, b, k : At(chain, n, u, b, k) => At(chain, n + 1, u, b, k) /\ b < n + 1 /\ b \in Nat
    BY <1>4 DEF At
  <1>7. \A k \in 1 .. e : At(chain, n + 1, y[a + k], n + 1, k)
    BY <1>1, <1>2, <1>3, <1>4 DEF At
  <1>8. /\ \A j \in 1 .. a : \E b, k : At(chain, n, y[j], b, k)
        /\ \A b \in 1 .. n : \A k \in 1 .. Len(chain[b]) : \E j \in 1 .. a : y[j] = chain[b][k]
        /\ \A j, l \in 1 .. a : j < l => InOrder(chain, n, y[j], y[l])
    BY <1>2, <1>3 DEF Listed
  <1>9. ASSUME NEW j \in 1 .. a + e
        PROVE  \E b, k : At(chain, n + 1, y[j], b, k)
    <2>1. CASE j \in 1 .. a
      BY <1>6, <1>8, <2>1
    <2>2. CASE \E k \in 1 .. e : j = a + k
      BY <1>7, <2>2
    <2> QED
      BY <1>5, <2>1, <2>2
  <1>10. ASSUME NEW b \in 1 .. n + 1, NEW k \in 1 .. Len(chain[b])
         PROVE  \E j \in 1 .. a + e : y[j] = chain[b][k]
    <2>1. CASE b \in 1 .. n
      BY <1>5, <1>8, <2>1
    <2>2. CASE b = n + 1
      <3>1. k \in 1 .. e
        BY <1>1, <1>2, <2>2
      <3> QED
        BY <1>1, <1>3, <1>5, <2>2, <3>1
    <2> QED
      BY <1>4, <2>1, <2>2
  <1>11. ASSUME NEW j \in 1 .. a + e, NEW l \in 1 .. a + e, j < l
         PROVE  InOrder(chain, n + 1, y[j], y[l])
    <2>1. CASE j \in 1 .. a /\ l \in 1 .. a
      <3>1. InOrder(chain, n, y[j], y[l])
        BY <1>8, <1>11, <2>1
      <3> QED
        BY <1>6, <3>1 DEF InOrder
    <2>2. ASSUME j \in 1 .. a, NEW m \in 1 .. e, l = a + m
          PROVE  InOrder(chain, n + 1, y[j], y[l])
      <3>1. PICK b, k : At(chain, n, y[j], b, k)
        BY <1>8, <2>2
      <3>2. At(chain, n + 1, y[j], b, k) /\ b < n + 1 /\ b \in Nat
        BY <1>6, <3>1
      <3>3. Ordered(b, k, n + 1, m)
        BY <3>2 DEF Ordered
      <3>4. At(chain, n + 1, y[l], n + 1, m)
        BY <1>7, <2>2
      <3> QED
        BY <3>2, <3>3, <3>4 DEF InOrder
    <2>3. ASSUME NEW k \in 1 .. e, j = a + k, NEW m \in 1 .. e, l = a + m
          PROVE  InOrder(chain, n + 1, y[j], y[l])
      <3>1. k < m
        BY <1>11, <2>3
      <3>2. Ordered(n + 1, k, n + 1, m)
        BY <3>1 DEF Ordered
      <3>3. At(chain, n + 1, y[j], n + 1, k) /\ At(chain, n + 1, y[l], n + 1, m)
        BY <1>7, <2>3
      <3> QED
        BY <3>2, <3>3 DEF InOrder
    <2>4. ~(~(j \in 1 .. a) /\ l \in 1 .. a)
      BY <1>11
    <2> QED
      BY <1>5, <2>1, <2>2, <2>3, <2>4
  <1>12. Listed(chain, n + 1, y)
    BY <1>3, <1>9, <1>10, <1>11, ZenonT(60) DEF Listed
  <1> QED
    BY <1>1, <1>3, <1>12

\* Flatten lists all the entries of a chain in order.
LEMMA FlattenLists ==
  ASSUME NEW X, NEW chain \in Seq(Seq(X))
  PROVE  Flatten(chain) \in Seq(X) /\ Listed(chain, Len(chain), Flatten(chain))
  <1>1. PICK L \in Nat : L = Len(chain)
    OBVIOUS
  <1>2. PICK cat : /\ cat \in [0 .. L -> Seq(X)] /\ cat[0] = <<>>
                   /\ \A n \in 0 .. L - 1 : cat[n + 1] = cat[n] \o chain[n + 1]
                   /\ Flatten(chain) = cat[L]
    BY <1>1, FlattenDef
  <1> DEFINE S == {n \in Nat : n <= L => Listed(chain, n, cat[n])}
  <1>3. 0 \in S
    <2>1. 1 .. 0 = {} /\ Len(<<>>) = 0
      OBVIOUS
    <2>2. Listed(chain, 0, cat[0])
      BY <1>2, <2>1 DEF Listed
    <2> QED
      BY <2>2
  <1>4. ASSUME NEW n \in Nat, n \in S
        PROVE  n + 1 \in S
    <2> SUFFICES ASSUME n + 1 <= L
                 PROVE  Listed(chain, n + 1, cat[n + 1])
      OBVIOUS
    <2>1. n \in 0 .. L - 1 /\ n \in 0 .. L /\ Listed(chain, n, cat[n])
      BY <1>4
    <2>2. PICK q \in Seq(X) : q = cat[n]
      BY <1>2, <2>1
    <2>3. Listed(chain, n + 1, q \o chain[n + 1])
      BY <1>1, <2>1, <2>2, ListedNext
    <2> QED
      BY <1>2, <2>1, <2>2, <2>3
  <1> HIDE DEF S
  <1>5. \A n \in Nat : n \in S
    BY <1>3, <1>4, Induction
  <1>6. Listed(chain, L, cat[L])
    BY <1>5 DEF S
  <1> QED
    BY <1>1, <1>2, <1>6

-----------------------------------------------------------------------------
(***************************************************************************)
(* The places of a wheel.                                                  *)
(***************************************************************************)

\* The wheels: every chain has at least one bucket.
Wheels == {wh \in [Wslots -> Seq(Seq(WheelEntry))] : \A i \in Wslots : wh[i] # <<>>}

\* The entry at p leaves before that at q, by the slots' times.
Before(tx, p, q) ==
    \/ tx[p[1]] < tx[q[1]]
    \/ p[1] = q[1] /\ Ordered(p[2], p[3], q[2], q[3])

\* The chains and buckets of a wheel are sequences.
LEMMA WheelDef ==
  ASSUME NEW wh \in Wheels, NEW i \in Wslots
  PROVE  /\ wh[i] \in Seq(Seq(WheelEntry)) /\ Len(wh[i]) \in Nat \ {0}
         /\ DOMAIN wh[i] = 1 .. Len(wh[i])
         /\ \A b \in 1 .. Len(wh[i]) : /\ wh[i][b] \in Seq(WheelEntry)
                                       /\ Len(wh[i][b]) \in Nat
                                       /\ DOMAIN wh[i][b] = 1 .. Len(wh[i][b])
  <1>1. PICK c \in Seq(Seq(WheelEntry)) : c = wh[i] /\ c # <<>>
    BY DEF Wheels
  <1>2. Len(c) \in Nat \ {0} /\ DOMAIN c = 1 .. Len(c)
    BY <1>1, EmptySeq
  <1>3. ASSUME NEW b \in 1 .. Len(c)
        PROVE  c[b] \in Seq(WheelEntry) /\ Len(c[b]) \in Nat /\ DOMAIN c[b] = 1 .. Len(c[b])
    <2>1. PICK z \in Seq(WheelEntry) : z = c[b]
      OBVIOUS
    <2>2. Len(z) \in Nat /\ DOMAIN z = 1 .. Len(z)
      OBVIOUS
    <2> QED
      BY <2>1, <2>2
  <1> QED
    BY <1>1, <1>2, <1>3

\* The places of a wheel are those of its buckets' entries.
LEMMA InPlaces ==
  ASSUME NEW wh \in Wheels
  PROVE  /\ \A i \in Wslots : \A b \in 1 .. Len(wh[i]) : \A k \in 1 .. Len(wh[i][b]) :
               <<i, b, k>> \in WheelPlaces(wh)
         /\ \A p \in WheelPlaces(wh) :
               /\ p = <<p[1], p[2], p[3]>> /\ p[1] \in Wslots
               /\ p[2] \in 1 .. Len(wh[p[1]]) /\ p[3] \in 1 .. Len(wh[p[1]][p[2]])
               /\ EntryAt(wh, p) \in WheelEntry
  <1>1. ASSUME NEW i \in Wslots, NEW b \in 1 .. Len(wh[i]), NEW k \in 1 .. Len(wh[i][b])
        PROVE  <<i, b, k>> \in WheelPlaces(wh)
    <2>1. b \in DOMAIN wh[i] /\ k \in DOMAIN wh[i][b]
      BY WheelDef
    <2> QED
      BY <2>1 DEF WheelPlaces
  <1>2. ASSUME NEW p \in WheelPlaces(wh)
        PROVE  \E i \in Wslots : \E b \in 1 .. Len(wh[i]) : \E k \in 1 .. Len(wh[i][b]) : p = <<i, b, k>>
    <2>1. PICK i \in Wslots : p \in UNION {{<<i, b, k>> : k \in DOMAIN wh[i][b]} : b \in DOMAIN wh[i]}
      BY DEF WheelPlaces
    <2>2. PICK b \in DOMAIN wh[i] : p \in {<<i, b, k>> : k \in DOMAIN wh[i][b]}
      BY <2>1
    <2>3. PICK k \in DOMAIN wh[i][b] : p = <<i, b, k>>
      BY <2>2
    <2>4. b \in 1 .. Len(wh[i]) /\ k \in 1 .. Len(wh[i][b])
      BY WheelDef
    <2> QED
      BY <2>3, <2>4
  <1>3. ASSUME NEW p \in WheelPlaces(wh)
        PROVE  /\ p = <<p[1], p[2], p[3]>> /\ p[1] \in Wslots
               /\ p[2] \in 1 .. Len(wh[p[1]]) /\ p[3] \in 1 .. Len(wh[p[1]][p[2]])
               /\ EntryAt(wh, p) \in WheelEntry
    <2>1. PICK i \in Wslots : \E b \in 1 .. Len(wh[i]) : \E k \in 1 .. Len(wh[i][b]) : p = <<i, b, k>>
      BY <1>2
    <2>2. PICK b \in 1 .. Len(wh[i]) : \E k \in 1 .. Len(wh[i][b]) : p = <<i, b, k>>
      BY <2>1
    <2>3. PICK k \in 1 .. Len(wh[i][b]) : p = <<i, b, k>>
      BY <2>2
    <2>4. wh[i][b][k] \in WheelEntry
      BY WheelDef
    <2>5. p[1] = i /\ p[2] = b /\ p[3] = k
      BY <2>3
    <2> QED
      BY <2>3, <2>4, <2>5 DEF EntryAt
  <1> QED
    BY <1>1, <1>3

\* A wheel holds finitely many entries.
LEMMA PlacesFinite ==
  ASSUME NEW wh \in Wheels
  PROVE  IsFiniteSet(WheelPlaces(wh))
  <1>1. ASSUME NEW i \in Wslots
        PROVE  IsFiniteSet(UNION {{<<i, b, k>> : k \in DOMAIN wh[i][b]} : b \in DOMAIN wh[i]})
    <2> DEFINE K(b) == {<<i, b, k>> : k \in DOMAIN wh[i][b]}
               B == {K(b) : b \in DOMAIN wh[i]}
    <2>1. ASSUME NEW b \in DOMAIN wh[i]
          PROVE  IsFiniteSet(K(b))
      <3>1. DOMAIN wh[i][b] = 1 .. Len(wh[i][b]) /\ Len(wh[i][b]) \in Nat
        BY WheelDef
      <3>2. IsFiniteSet(DOMAIN wh[i][b])
        BY <3>1, FS_Interval
      <3>4. PICK f : f = [k \in DOMAIN wh[i][b] |-> <<i, b, k>>]
        OBVIOUS
      <3>5. K(b) = {f[k] : k \in DOMAIN wh[i][b]}
        BY <3>4
      <3>6. f \in [DOMAIN wh[i][b] -> K(b)]
        BY <3>4
      <3>7. f \in Surjection(DOMAIN wh[i][b], K(b))
        BY <3>4, <3>5, <3>6, Fun_IsSurj, ZenonT(60)
      <3> QED
        BY <3>2, <3>7, FS_Surjection
    <2>2. IsFiniteSet(B)
      <3>1. DOMAIN wh[i] = 1 .. Len(wh[i]) /\ Len(wh[i]) \in Nat
        BY WheelDef
      <3>2. IsFiniteSet(DOMAIN wh[i])
        BY <3>1, FS_Interval
      <3>3. PICK f : f = [b \in DOMAIN wh[i] |-> K(b)]
        OBVIOUS
      <3>4. f \in [DOMAIN wh[i] -> B] /\ \A y \in B : \E b \in DOMAIN wh[i] : f[b] = y
        BY <3>3
      <3>5. f \in Surjection(DOMAIN wh[i], B)
        BY <3>4, Fun_IsSurj
      <3> QED
        BY <3>2, <3>5, FS_Surjection
    <2>3. \A y \in B : IsFiniteSet(y)
      BY <2>1
    <2> HIDE DEF B
    <2>4. IsFiniteSet(UNION B)
      BY <2>2, <2>3, FS_UNION
    <2> QED
      BY <2>4 DEF B
  <1> DEFINE P(i) == UNION {{<<i, b, k>> : k \in DOMAIN wh[i][b]} : b \in DOMAIN wh[i]}
             A == {P(i) : i \in Wslots}
  <1>2. \A i \in Wslots : IsFiniteSet(P(i))
    BY <1>1
  <1>3. WheelPlaces(wh) = UNION A
    BY DEF WheelPlaces
  <1> HIDE DEF P
  <1>4. IsFiniteSet(A)
    <2>1. IsFiniteSet(Wslots)
      BY WheelSizes, FS_Interval
    <2>2. PICK f : f = [i \in Wslots |-> P(i)]
      OBVIOUS
    <2>3. f \in [Wslots -> A] /\ \A y \in A : \E i \in Wslots : f[i] = y
      BY <2>2
    <2>4. f \in Surjection(Wslots, A)
      BY <2>3, Fun_IsSurj
    <2> QED
      BY <2>1, <2>4, FS_Surjection
  <1>5. \A y \in A : IsFiniteSet(y)
    BY <1>2
  <1> HIDE DEF A
  <1> QED
    BY <1>3, <1>4, <1>5, FS_UNION

\* A wheel has finitely many chained buckets.
LEMMA ChainedFinite ==
  ASSUME NEW wh \in Wheels, NEW S \in SUBSET Wslots
  PROVE  IsFiniteSet(Chained(wh, S))
  <1> DEFINE K(i) == {<<i, b>> : b \in 2 .. Len(wh[i])}
             A == {K(i) : i \in S}
  <1>1. ASSUME NEW i \in S
        PROVE  IsFiniteSet(K(i))
    <2>1. Len(wh[i]) \in Nat
      BY WheelDef
    <2>2. IsFiniteSet(2 .. Len(wh[i]))
      BY <2>1, FS_Interval
    <2>3. PICK f : f = [b \in 2 .. Len(wh[i]) |-> <<i, b>>]
      OBVIOUS
    <2>4. f \in [2 .. Len(wh[i]) -> K(i)] /\ \A y \in K(i) : \E b \in 2 .. Len(wh[i]) : f[b] = y
      BY <2>3
    <2>5. f \in Surjection(2 .. Len(wh[i]), K(i))
      BY <2>4, Fun_IsSurj
    <2> QED
      BY <2>2, <2>5, FS_Surjection
  <1>2. Chained(wh, S) = UNION A
    BY DEF Chained
  <1> HIDE DEF K
  <1>3. IsFiniteSet(A)
    <2>1. IsFiniteSet(Wslots)
      BY WheelSizes, FS_Interval
    <2>2. IsFiniteSet(S)
      BY <2>1, FS_Subset
    <2>3. PICK f : f = [i \in S |-> K(i)]
      OBVIOUS
    <2>4. f \in [S -> A] /\ \A y \in A : \E i \in S : f[i] = y
      BY <2>3
    <2>5. f \in Surjection(S, A)
      BY <2>4, Fun_IsSurj
    <2> QED
      BY <2>2, <2>5, FS_Surjection
  <1>4. \A y \in A : IsFiniteSet(y)
    BY <1>1
  <1> HIDE DEF A
  <1> QED
    BY <1>2, <1>3, <1>4, FS_UNION

\* The chained buckets.
LEMMA InChained ==
  ASSUME NEW wh, NEW S
  PROVE  \A x : x \in Chained(wh, S) <=> \E i \in S : \E b \in 2 .. Len(wh[i]) : x = <<i, b>>
  BY DEF Chained

-----------------------------------------------------------------------------
(***************************************************************************)
(* reap.                                                                   *)
(***************************************************************************)

\* The wheel after reap.
LEMMA ReapWheel ==
  ASSUME Timed(tx_tsc, cur_wslot), wheel \in Wheels
  PROVE  /\ reap.wheel \in Wheels
         /\ WheelPlaces(reap.wheel) = {p \in WheelPlaces(wheel) : p[1] \notin Reaped}
         /\ \A p \in WheelPlaces(reap.wheel) : EntryAt(reap.wheel, p) = EntryAt(wheel, p)
         /\ Chained(reap.wheel, Wslots) = Chained(wheel, Wslots \ Reaped)
         /\ \A i \in Wslots : \/ reap.wheel[i] = wheel[i]
                              \/ reap.wheel[i] = EmptyChain
  <1>1. /\ EmptyChain \in Seq(Seq(WheelEntry)) /\ EmptyChain # <<>> /\ Len(EmptyChain) = 1
        /\ EmptyChain[1] = <<>>
    <2>1. <<>> \in Seq(WheelEntry)
      OBVIOUS
    <2>2. PICK z \in Seq(WheelEntry) : z = <<>>
      BY <2>1
    <2>3. <<z>> \in Seq(Seq(WheelEntry)) /\ <<z>> # <<>> /\ Len(<<z>>) = 1 /\ <<z>>[1] = z
      OBVIOUS
    <2> QED
      BY <2>2, <2>3 DEF EmptyChain
  <1>2. PICK wh : wh = reap.wheel
    OBVIOUS
  <1>3. wh = [i \in Wslots |-> IF i \in Reaped THEN EmptyChain ELSE wheel[i]]
    BY <1>2 DEF reap
  <1>4. \A i \in Wslots : wheel[i] \in Seq(Seq(WheelEntry)) /\ wheel[i] # <<>>
    BY DEF Wheels
  <1>5. wh \in Wheels
    <2>1. wh \in [Wslots -> Seq(Seq(WheelEntry))] /\ \A i \in Wslots : wh[i] # <<>>
      BY <1>1, <1>3, <1>4
    <2> QED
      BY <2>1 DEF Wheels
  <1>6. /\ \A i \in Wslots : i \in Reaped => wh[i] = EmptyChain
        /\ \A i \in Wslots : i \notin Reaped => wh[i] = wheel[i]
    BY <1>3
  <1>7. ASSUME NEW p \in WheelPlaces(wh)
        PROVE  p \in WheelPlaces(wheel) /\ p[1] \notin Reaped /\ EntryAt(wh, p) = EntryAt(wheel, p)
    <2>1. /\ p = <<p[1], p[2], p[3]>> /\ p[1] \in Wslots
          /\ p[2] \in 1 .. Len(wh[p[1]]) /\ p[3] \in 1 .. Len(wh[p[1]][p[2]])
      BY <1>5, InPlaces
    <2>2. p[1] \notin Reaped
      <3> SUFFICES ASSUME p[1] \in Reaped
                   PROVE  FALSE
        OBVIOUS
      <3>1. wh[p[1]] = EmptyChain
        BY <1>6, <2>1
      <3>2. p[2] = 1
        <4>1. Len(wh[p[1]]) = 1
          BY <1>1, <3>1
        <4>2. p[2] \in 1 .. 1
          BY <2>1, <4>1
        <4> QED
          BY <4>2
      <3>3. p[3] \in 1 .. Len(<<>>) /\ Len(<<>>) = 0
        BY <1>1, <2>1, <3>1, <3>2
      <3> QED
        BY <3>3
    <2>3. wh[p[1]] = wheel[p[1]]
      BY <1>6, <2>1, <2>2
    <2>4. <<p[1], p[2], p[3]>> \in WheelPlaces(wheel)
      BY <2>1, <2>3, InPlaces
    <2> QED
      BY <2>1, <2>2, <2>3, <2>4 DEF EntryAt
  <1>8. ASSUME NEW p \in WheelPlaces(wheel), p[1] \notin Reaped
        PROVE  p \in WheelPlaces(wh)
    <2>1. /\ p = <<p[1], p[2], p[3]>> /\ p[1] \in Wslots
          /\ p[2] \in 1 .. Len(wheel[p[1]]) /\ p[3] \in 1 .. Len(wheel[p[1]][p[2]])
      BY InPlaces
    <2>3. wh[p[1]] = wheel[p[1]]
      BY <1>6, <1>8, <2>1
    <2>4. <<p[1], p[2], p[3]>> \in WheelPlaces(wh)
      BY <1>5, <2>1, <2>3, InPlaces
    <2> QED
      BY <2>1, <2>4
  <1>9. WheelPlaces(wh) = {p \in WheelPlaces(wheel) : p[1] \notin Reaped}
    BY <1>7, <1>8
  <1>10. Chained(wh, Wslots) = Chained(wheel, Wslots \ Reaped)
    <2>1. ASSUME NEW x \in Chained(wh, Wslots)
          PROVE  x \in Chained(wheel, Wslots \ Reaped)
      <3>1. PICK i \in Wslots : \E b \in 2 .. Len(wh[i]) : x = <<i, b>>
        BY <2>1, InChained
      <3>2. i \notin Reaped
        <4>0. 2 .. 1 = {}
          OBVIOUS
        <4>1. i \in Reaped => 2 .. Len(wh[i]) = {}
          BY <1>1, <1>6, <4>0
        <4> QED
          BY <3>1, <4>1
      <3>3. \E b \in 2 .. Len(wheel[i]) : x = <<i, b>>
        BY <1>6, <3>1, <3>2
      <3> QED
        BY <3>2, <3>3, InChained
    <2>2. ASSUME NEW x \in Chained(wheel, Wslots \ Reaped)
          PROVE  x \in Chained(wh, Wslots)
      <3>1. PICK i \in Wslots \ Reaped : \E b \in 2 .. Len(wheel[i]) : x = <<i, b>>
        BY <2>2, InChained
      <3>2. \E b \in 2 .. Len(wh[i]) : x = <<i, b>>
        BY <1>6, <3>1
      <3> QED
        BY <3>2, InChained
    <2> QED
      BY <2>1, <2>2
  <1> QED
    BY <1>2, <1>5, <1>6, <1>7, <1>9, <1>10

\* What reap adds to the ready queue: the entries of the slots it takes, in
\* the order in which they leave.
Drained(wh, tx, S, q) ==
    /\ \A j \in 1 .. Len(q) : \E p \in WheelPlaces(wh) : p[1] \in S /\ q[j] = EntryAt(wh, p)
    /\ \A p \in WheelPlaces(wh) : p[1] \in S => \E j \in 1 .. Len(q) : q[j] = EntryAt(wh, p)
    /\ \A j, l \in 1 .. Len(q) : j < l =>
          \E p, r \in WheelPlaces(wh) : /\ p[1] \in S /\ r[1] \in S /\ Before(tx, p, r)
                                        /\ q[j] = EntryAt(wh, p) /\ q[l] = EntryAt(wh, r)

\* What reap adds to the ready queue are the entries of the slots it takes.
LEMMA ReapReady ==
  ASSUME Timed(tx_tsc, cur_wslot), wheel \in Wheels
  PROVE  \E q \in Seq(WheelEntry) : /\ reap.ready = ready_queue \o q
                                    /\ Drained(wheel, tx_tsc, Reaped, q)
  <1>1. PICK C \in Nat :
          /\ C = Cardinality(Reaped)
          /\ \A n \in 1 .. C : NthWslot(n - 1) \in Reaped
          /\ \A i \in Reaped : \E n \in 1 .. C : NthWslot(n - 1) = i
          /\ \A n, m \in 1 .. C : n < m => tx_tsc[NthWslot(n - 1)] < tx_tsc[NthWslot(m - 1)]
    BY ReapedInTurn
  <1>2. Reaped \subseteq Wslots
    BY ReapedSlots
  <1>3. PICK f : f = [n \in 1 .. C |-> Flatten(wheel[NthWslot(n - 1)])]
    OBVIOUS
  <1>4. ASSUME NEW n \in 1 .. C
        PROVE  /\ f[n] \in Seq(WheelEntry)
               /\ Listed(wheel[NthWslot(n - 1)], Len(wheel[NthWslot(n - 1)]), f[n])
    <2>1. PICK c \in Seq(Seq(WheelEntry)) : c = wheel[NthWslot(n - 1)]
      BY <1>1, <1>2 DEF Wheels
    <2>2. Flatten(c) \in Seq(WheelEntry) /\ Listed(c, Len(c), Flatten(c))
      BY FlattenLists
    <2> QED
      BY <1>3, <2>1, <2>2
  <1>5. f \in Seq(Seq(WheelEntry)) /\ Len(f) = C
    <2>1. f \in [1 .. C -> Seq(WheelEntry)]
      BY <1>3, <1>4
    <2> QED
      BY <2>1
  <1>6. PICK q \in Seq(WheelEntry) : q = Flatten(f) /\ Listed(f, C, q)
    BY <1>5, FlattenLists
  <1>7. reap.ready = ready_queue \o q
    BY <1>1, <1>3, <1>6 DEF reap
  <1>8. ASSUME NEW n \in 1 .. C, NEW b, NEW k, NEW u,
               At(wheel[NthWslot(n - 1)], Len(wheel[NthWslot(n - 1)]), u, b, k)
        PROVE  /\ <<NthWslot(n - 1), b, k>> \in WheelPlaces(wheel)
               /\ u = EntryAt(wheel, <<NthWslot(n - 1), b, k>>)
    <2>1. PICK i \in Wslots : i = NthWslot(n - 1)
      BY <1>1, <1>2
    <2>2. b \in 1 .. Len(wheel[i]) /\ k \in 1 .. Len(wheel[i][b]) /\ u = wheel[i][b][k]
      BY <1>8, <2>1 DEF At
    <2>3. <<i, b, k>> \in WheelPlaces(wheel)
      BY <2>2, InPlaces
    <2>4. EntryAt(wheel, <<i, b, k>>) = wheel[i][b][k]
      BY DEF EntryAt
    <2> QED
      BY <2>1, <2>2, <2>3, <2>4
  <1>9. ASSUME NEW u, NEW n, NEW x, At(f, C, u, n, x)
        PROVE  /\ n \in 1 .. C /\ x \in 1 .. Len(f[n]) /\ u = f[n][x]
               /\ \E b, k : At(wheel[NthWslot(n - 1)], Len(wheel[NthWslot(n - 1)]), u, b, k)
    <2>1. n \in 1 .. C /\ x \in 1 .. Len(f[n]) /\ u = f[n][x]
      BY <1>9 DEF At
    <2>2. Listed(wheel[NthWslot(n - 1)], Len(wheel[NthWslot(n - 1)]), f[n])
      BY <1>4, <2>1
    <2> QED
      BY <2>1, <2>2 DEF Listed
  <1>10. ASSUME NEW j \in 1 .. Len(q)
         PROVE  \E p \in WheelPlaces(wheel) : p[1] \in Reaped /\ q[j] = EntryAt(wheel, p)
    <2>1. PICK n, x : At(f, C, q[j], n, x)
      BY <1>6 DEF Listed
    <2>2. PICK b, k : n \in 1 .. C /\ At(wheel[NthWslot(n - 1)], Len(wheel[NthWslot(n - 1)]), q[j], b, k)
      BY <1>9, <2>1
    <2>3. PICK i : i = NthWslot(n - 1) /\ i \in Reaped
      BY <1>1, <2>2
    <2>4. <<i, b, k>> \in WheelPlaces(wheel) /\ q[j] = EntryAt(wheel, <<i, b, k>>)
      BY <1>8, <2>2, <2>3
    <2>5. <<i, b, k>>[1] = i
      OBVIOUS
    <2> QED
      BY <2>3, <2>4, <2>5
  <1>11. ASSUME NEW p \in WheelPlaces(wheel), p[1] \in Reaped
         PROVE  \E j \in 1 .. Len(q) : q[j] = EntryAt(wheel, p)
    <2>1. PICK n \in 1 .. C : NthWslot(n - 1) = p[1]
      BY <1>1, <1>11
    <2>2. p[2] \in 1 .. Len(wheel[p[1]]) /\ p[3] \in 1 .. Len(wheel[p[1]][p[2]])
      BY InPlaces
    <2>3. PICK x \in 1 .. Len(f[n]) : f[n][x] = wheel[p[1]][p[2]][p[3]]
      <3>1. Listed(wheel[p[1]], Len(wheel[p[1]]), f[n])
        BY <1>4, <2>1
      <3> QED
        BY <2>2, <3>1 DEF Listed
    <2>4. PICK j \in 1 .. Len(q) : q[j] = f[n][x]
      BY <1>6, <2>3 DEF Listed
    <2> QED
      BY <2>3, <2>4 DEF EntryAt
  <1>12. ASSUME NEW j \in 1 .. Len(q), NEW l \in 1 .. Len(q), j < l
         PROVE  \E p, r \in WheelPlaces(wheel) : /\ p[1] \in Reaped /\ r[1] \in Reaped /\ Before(tx_tsc, p, r)
                                                 /\ q[j] = EntryAt(wheel, p) /\ q[l] = EntryAt(wheel, r)
    <2>1. PICK n, m, x, y : At(f, C, q[j], n, x) /\ At(f, C, q[l], m, y) /\ Ordered(n, x, m, y)
      <3>1. InOrder(f, C, q[j], q[l])
        BY <1>6, <1>12 DEF Listed
      <3> QED
        BY <3>1 DEF InOrder
    <2>2. /\ n \in 1 .. C /\ x \in 1 .. Len(f[n]) /\ q[j] = f[n][x]
          /\ m \in 1 .. C /\ y \in 1 .. Len(f[m]) /\ q[l] = f[m][y]
      BY <1>9, <2>1
    <2>3. PICK i, h : /\ i = NthWslot(n - 1) /\ i \in Reaped
                      /\ h = NthWslot(m - 1) /\ h \in Reaped
      BY <1>1, <2>2
    <2> DEFINE Goal(b, k, c, o) == /\ At(wheel[i], Len(wheel[i]), q[j], b, k)
                                   /\ At(wheel[h], Len(wheel[h]), q[l], c, o)
                                   /\ Before(tx_tsc, <<i, b, k>>, <<h, c, o>>)
    <2>4. \E b, k, c, o : Goal(b, k, c, o)
      <3>1. CASE n < m
        <4>1. PICK b, k : At(wheel[i], Len(wheel[i]), q[j], b, k)
          BY <1>9, <2>1, <2>3
        <4>2. PICK c, o : At(wheel[h], Len(wheel[h]), q[l], c, o)
          BY <1>9, <2>1, <2>3
        <4>3. tx_tsc[i] < tx_tsc[h]
          BY <1>1, <2>2, <2>3, <3>1
        <4>4. Before(tx_tsc, <<i, b, k>>, <<h, c, o>>)
          BY <4>3 DEF Before
        <4> QED
          BY <4>1, <4>2, <4>4
      <3>2. CASE n = m /\ x < y
        <4>1. InOrder(wheel[i], Len(wheel[i]), f[n][x], f[n][y])
          BY <1>4, <2>2, <2>3, <3>2 DEF Listed
        <4>2. PICK b, c, k, o : /\ At(wheel[i], Len(wheel[i]), q[j], b, k)
                                /\ At(wheel[i], Len(wheel[i]), q[l], c, o)
                                /\ Ordered(b, k, c, o)
          BY <2>2, <3>2, <4>1 DEF InOrder
        <4>3. i = h
          BY <2>3, <3>2
        <4>4. Before(tx_tsc, <<i, b, k>>, <<h, c, o>>)
          BY <4>2, <4>3 DEF Before
        <4> QED
          BY <4>2, <4>3, <4>4
      <3> QED
        BY <2>1, <3>1, <3>2 DEF Ordered
    <2>5. PICK b, k, c, o : Goal(b, k, c, o)
      BY <2>4
    <2>6. /\ <<i, b, k>> \in WheelPlaces(wheel) /\ q[j] = EntryAt(wheel, <<i, b, k>>)
          /\ <<h, c, o>> \in WheelPlaces(wheel) /\ q[l] = EntryAt(wheel, <<h, c, o>>)
      BY <1>8, <2>2, <2>3, <2>5
    <2>7. <<i, b, k>>[1] = i /\ <<h, c, o>>[1] = h
      OBVIOUS
    <2> QED
      BY <2>3, <2>5, <2>6, <2>7
  <1>13. Drained(wheel, tx_tsc, Reaped, q)
    BY <1>10, <1>11, <1>12 DEF Drained
  <1> QED
    BY <1>7, <1>13

-----------------------------------------------------------------------------
(***************************************************************************)
(* The order of a session's packets.                                       *)
(***************************************************************************)

\* Packet numbers are counted modulo M; the entries of session s in the ready
\* queue q and in the wheel wh, and the age of one when nx holds the sessions'
\* next packet numbers.
M == 2 * kSessionCredits + 1
AgeOf(nx, e) == (nx[e.session] - e.num) % M
OfQueue(q, s) == {k \in 1 .. Len(q) : q[k].session = s}
OfWheel(wh, s) == {p \in WheelPlaces(wh) : EntryAt(wh, p).session = s}
HeldOf(q, wh, s) == {q[k] : k \in OfQueue(q, s)} \cup {EntryAt(wh, p) : p \in OfWheel(wh, s)}

\* The entries of s are in the order of their ages, and none is missing.
Older(nx, e, f) == AgeOf(nx, e) > AgeOf(nx, f)
FifoOf(s, q, wh, tx, nx) ==
    /\ \A k, l \in OfQueue(q, s) : k < l => Older(nx, q[k], q[l])
    /\ \A k \in OfQueue(q, s), p \in OfWheel(wh, s) : Older(nx, q[k], EntryAt(wh, p))
    /\ \A p, r \in OfWheel(wh, s) : Before(tx, p, r) => Older(nx, EntryAt(wh, p), EntryAt(wh, r))
    /\ \A e \in HeldOf(q, wh, s) :
          /\ AgeOf(nx, e) # 0
          /\ \A a \in 1 .. AgeOf(nx, e) : \E f \in HeldOf(q, wh, s) : AgeOf(nx, f) = a

\* The slots of S are taken from the wheel wh, their entries as q.
Reaps(wh, tx, S, q, wh2, tx2) ==
    /\ Drained(wh, tx, S, q)
    /\ WheelPlaces(wh2) = {p \in WheelPlaces(wh) : p[1] \notin S}
    /\ \A p \in WheelPlaces(wh2) : EntryAt(wh2, p) = EntryAt(wh, p)
    /\ \A p \in WheelPlaces(wh2) : tx2[p[1]] = tx[p[1]]
    /\ \A p, r \in WheelPlaces(wh) : p[1] \in S /\ r[1] \notin S => tx[p[1]] < tx[r[1]]

\* The elements of a concatenation.
LEMMA ConcatAt ==
  ASSUME NEW X, NEW q \in Seq(X), NEW y \in Seq(X)
  PROVE  /\ q \o y \in Seq(X)
         /\ \A k \in 1 .. Len(q) : k \in 1 .. Len(q \o y) /\ (q \o y)[k] = q[k]
         /\ \A j \in 1 .. Len(y) : Len(q) + j \in 1 .. Len(q \o y) /\ (q \o y)[Len(q) + j] = y[j]
         /\ \A k \in 1 .. Len(q \o y) : k \in 1 .. Len(q) \/ \E j \in 1 .. Len(y) : k = Len(q) + j
  <1>1. PICK a \in Nat, b \in Nat : a = Len(q) /\ b = Len(y)
    OBVIOUS
  <1>2. /\ q \o y \in Seq(X) /\ Len(q \o y) = Len(q) + Len(y)
        /\ \A i \in 1 .. Len(q) + Len(y) : (q \o y)[i] = IF i <= Len(q) THEN q[i] ELSE y[i - Len(q)]
    BY ConcatProperties
  <1>3. PICK z \in Seq(X) : z = q \o y
    BY <1>2
  <1>4. Len(z) = a + b /\ \A i \in 1 .. a + b : z[i] = IF i <= a THEN q[i] ELSE y[i - a]
    BY <1>1, <1>2, <1>3
  <1>5. \A k \in 1 .. a : k \in 1 .. a + b /\ z[k] = q[k]
    BY <1>4
  <1>6. ASSUME NEW j \in 1 .. b
        PROVE  a + j \in 1 .. a + b /\ z[a + j] = y[j]
    <2>1. PICK i \in 1 .. a + b : i = a + j /\ ~(i <= a) /\ i - a = j
      OBVIOUS
    <2> QED
      BY <1>4, <2>1
  <1>7. ASSUME NEW k \in 1 .. a + b, ~(k \in 1 .. a)
        PROVE  \E j \in 1 .. b : k = a + j
    <2>1. k - a \in 1 .. b /\ k = a + (k - a)
      BY <1>7
    <2> QED
      BY <2>1
  <1> QED
    BY <1>1, <1>2, <1>3, <1>4, <1>5, <1>6, <1>7

\* Taking slots from the wheel in turn keeps a session's entries and their order.
LEMMA ReapsFifo ==
  ASSUME NEW s, NEW q \in Seq(WheelEntry), NEW y \in Seq(WheelEntry), NEW wh, NEW wh2, NEW S,
         NEW tx, NEW tx2, NEW nx, Reaps(wh, tx, S, y, wh2, tx2), FifoOf(s, q, wh, tx, nx)
  PROVE  FifoOf(s, q \o y, wh2, tx2, nx) /\ HeldOf(q \o y, wh2, s) = HeldOf(q, wh, s)
  <1>1. PICK a \in Nat, b \in Nat, z \in Seq(WheelEntry) :
          /\ a = Len(q) /\ b = Len(y) /\ z = q \o y
          /\ \A k \in 1 .. a : k \in 1 .. Len(z) /\ z[k] = q[k]
          /\ \A j \in 1 .. b : a + j \in 1 .. Len(z) /\ z[a + j] = y[j]
          /\ \A k \in 1 .. Len(z) : k \in 1 .. a \/ \E j \in 1 .. b : k = a + j
    <2>1. Len(q) \in Nat /\ Len(y) \in Nat
      OBVIOUS
    <2>2. PICK z \in Seq(WheelEntry) : z = q \o y
      BY ConcatAt
    <2>3. /\ \A k \in 1 .. Len(q) : k \in 1 .. Len(z) /\ z[k] = q[k]
          /\ \A j \in 1 .. Len(y) : Len(q) + j \in 1 .. Len(z) /\ z[Len(q) + j] = y[j]
          /\ \A k \in 1 .. Len(z) : k \in 1 .. Len(q) \/ \E j \in 1 .. Len(y) : k = Len(q) + j
      BY <2>2, ConcatAt
    <2> QED
      BY ONLY <2>1, <2>2, <2>3, ZenonT(60)
  <1>2. /\ \A j \in 1 .. b : \E p \in WheelPlaces(wh) : p[1] \in S /\ y[j] = EntryAt(wh, p)
        /\ \A p \in WheelPlaces(wh) : p[1] \in S => \E j \in 1 .. b : y[j] = EntryAt(wh, p)
        /\ \A j, l \in 1 .. b : j < l =>
              \E p, r \in WheelPlaces(wh) : /\ p[1] \in S /\ r[1] \in S /\ Before(tx, p, r)
                                            /\ y[j] = EntryAt(wh, p) /\ y[l] = EntryAt(wh, r)
    BY <1>1 DEF Reaps, Drained
  <1>3. /\ WheelPlaces(wh2) = {p \in WheelPlaces(wh) : p[1] \notin S}
        /\ \A p \in WheelPlaces(wh2) : EntryAt(wh2, p) = EntryAt(wh, p) /\ tx2[p[1]] = tx[p[1]]
        /\ \A p, r \in WheelPlaces(wh) : p[1] \in S /\ r[1] \notin S => tx[p[1]] < tx[r[1]]
    BY DEF Reaps
  <1>4. /\ \A k, l \in OfQueue(q, s) : k < l => Older(nx, q[k], q[l])
        /\ \A k \in OfQueue(q, s), p \in OfWheel(wh, s) : Older(nx, q[k], EntryAt(wh, p))
        /\ \A p, r \in OfWheel(wh, s) : Before(tx, p, r) => Older(nx, EntryAt(wh, p), EntryAt(wh, r))
    BY DEF FifoOf
  <1>5. \A p \in OfWheel(wh2, s) : p \in OfWheel(wh, s) /\ p[1] \notin S /\ EntryAt(wh2, p) = EntryAt(wh, p)
    BY <1>3 DEF OfWheel
  <1>6. ASSUME NEW k \in OfQueue(z, s)
        PROVE  \/ k \in 1 .. a /\ k \in OfQueue(q, s) /\ z[k] = q[k]
               \/ \E j \in 1 .. b : k = a + j /\ z[k] = y[j] /\ y[j].session = s
    <2>1. k \in 1 .. Len(z) /\ z[k].session = s
      BY DEF OfQueue
    <2> QED
      BY <1>1, <2>1 DEF OfQueue
  <1>7. ASSUME NEW j \in 1 .. b, y[j].session = s
        PROVE  \E p \in OfWheel(wh, s) : p[1] \in S /\ y[j] = EntryAt(wh, p)
    BY <1>2, <1>7 DEF OfWheel
  <1>8. ASSUME NEW k \in OfQueue(z, s), NEW l \in OfQueue(z, s), k < l
        PROVE  Older(nx, z[k], z[l])
    <2>1. CASE k \in OfQueue(q, s) /\ z[k] = q[k] /\ l \in OfQueue(q, s) /\ z[l] = q[l]
      BY <1>4, <1>8, <2>1
    <2>2. ASSUME k \in OfQueue(q, s), z[k] = q[k], NEW j \in 1 .. b, z[l] = y[j], y[j].session = s
          PROVE  Older(nx, z[k], z[l])
      <3>1. PICK p \in OfWheel(wh, s) : y[j] = EntryAt(wh, p)
        BY <1>7, <2>2
      <3> QED
        BY <1>4, <2>2, <3>1
    <2>3. ASSUME NEW i \in 1 .. b, k = a + i, z[k] = y[i], y[i].session = s,
                 NEW j \in 1 .. b, l = a + j, z[l] = y[j], y[j].session = s
          PROVE  Older(nx, z[k], z[l])
      <3>1. i < j
        BY <1>8, <2>3
      <3>2. PICK p \in WheelPlaces(wh), r \in WheelPlaces(wh) :
              Before(tx, p, r) /\ y[i] = EntryAt(wh, p) /\ y[j] = EntryAt(wh, r)
        BY <1>2, <3>1
      <3>3. p \in OfWheel(wh, s) /\ r \in OfWheel(wh, s)
        BY <2>3, <3>2 DEF OfWheel
      <3> QED
        BY <1>4, <2>3, <3>2, <3>3
    <2>4. \A j \in 1 .. b : ~(l \in 1 .. a /\ k = a + j)
      BY <1>8
    <2> QED
      BY <1>6, <2>1, <2>2, <2>3, <2>4
  <1>9. ASSUME NEW k \in OfQueue(z, s), NEW p \in OfWheel(wh2, s)
        PROVE  Older(nx, z[k], EntryAt(wh2, p))
    <2>1. CASE k \in OfQueue(q, s) /\ z[k] = q[k]
      BY <1>4, <1>5, <2>1
    <2>2. ASSUME NEW j \in 1 .. b, z[k] = y[j], y[j].session = s
          PROVE  Older(nx, z[k], EntryAt(wh2, p))
      <3>1. PICK r \in OfWheel(wh, s) : r[1] \in S /\ y[j] = EntryAt(wh, r)
        BY <1>7, <2>2
      <3>2. tx[r[1]] < tx[p[1]]
        BY <1>3, <1>5, <3>1 DEF OfWheel
      <3>3. Before(tx, r, p)
        BY <3>2 DEF Before
      <3> QED
        BY <1>4, <1>5, <2>2, <3>1, <3>3
    <2> QED
      BY <1>6, <2>1, <2>2
  <1>10. ASSUME NEW p \in OfWheel(wh2, s), NEW r \in OfWheel(wh2, s), Before(tx2, p, r)
         PROVE  Older(nx, EntryAt(wh2, p), EntryAt(wh2, r))
    <2>1. p \in WheelPlaces(wh2) /\ r \in WheelPlaces(wh2)
      BY DEF OfWheel
    <2>2. Before(tx, p, r)
      BY <1>3, <1>10, <2>1 DEF Before
    <2> QED
      BY <1>4, <1>5, <2>2
  <1>11. HeldOf(z, wh2, s) = HeldOf(q, wh, s)
    <2>1. ASSUME NEW e \in HeldOf(z, wh2, s)
          PROVE  e \in HeldOf(q, wh, s)
      <3>1. CASE \E p \in OfWheel(wh2, s) : e = EntryAt(wh2, p)
        BY <1>5, <3>1 DEF HeldOf
      <3>2. ASSUME NEW k \in OfQueue(z, s), e = z[k]
            PROVE  e \in HeldOf(q, wh, s)
        BY <1>6, <1>7, <3>2 DEF HeldOf
      <3> QED
        BY <3>1, <3>2 DEF HeldOf
    <2>2. ASSUME NEW e \in HeldOf(q, wh, s)
          PROVE  e \in HeldOf(z, wh2, s)
      <3>1. ASSUME NEW k \in OfQueue(q, s), e = q[k]
            PROVE  e \in HeldOf(z, wh2, s)
        <4>1. k \in OfQueue(z, s) /\ e = z[k]
          BY <1>1, <3>1 DEF OfQueue
        <4> QED
          BY <4>1 DEF HeldOf
      <3>2. ASSUME NEW p \in OfWheel(wh, s), e = EntryAt(wh, p), p[1] \in S
            PROVE  e \in HeldOf(z, wh2, s)
        <4>1. PICK j \in 1 .. b : y[j] = e
          BY <1>2, <3>2 DEF OfWheel
        <4>2. PICK k \in 1 .. Len(z) : z[k] = e
          BY <1>1, <4>1
        <4>3. k \in OfQueue(z, s)
          BY <3>2, <4>2 DEF OfQueue, OfWheel
        <4> QED
          BY <4>2, <4>3 DEF HeldOf
      <3>3. ASSUME NEW p \in OfWheel(wh, s), e = EntryAt(wh, p), p[1] \notin S
            PROVE  e \in HeldOf(z, wh2, s)
        <4>1. p \in OfWheel(wh2, s) /\ e = EntryAt(wh2, p)
          BY <1>3, <3>3 DEF OfWheel
        <4> QED
          BY <4>1 DEF HeldOf
      <3> QED
        BY <3>1, <3>2, <3>3 DEF HeldOf
    <2> QED
      BY <2>1, <2>2
  <1>12. \A e \in HeldOf(z, wh2, s) :
          /\ AgeOf(nx, e) # 0
          /\ \A i \in 1 .. AgeOf(nx, e) : \E f \in HeldOf(z, wh2, s) : AgeOf(nx, f) = i
    BY <1>11 DEF FifoOf
  <1>13. FifoOf(s, z, wh2, tx2, nx)
    BY <1>8, <1>9, <1>10, <1>12 DEF FifoOf
  <1> QED
    BY <1>1, <1>11, <1>13

\* Transmitting everything in the ready queue.
LEMMA SentFifo ==
  ASSUME NEW s, NEW q, NEW wh, NEW tx, NEW nx, FifoOf(s, q, wh, tx, nx),
         \A p \in OfWheel(wh, s) : AgeOf(nx, EntryAt(wh, p)) \in Nat
  PROVE  FifoOf(s, <<>>, wh, tx, nx)
  <1>1. OfQueue(<<>>, s) = {}
    <2>1. 1 .. Len(<<>>) = {}
      OBVIOUS
    <2> QED
      BY <2>1 DEF OfQueue
  <1>2. HeldOf(<<>>, wh, s) = {EntryAt(wh, p) : p \in OfWheel(wh, s)}
    BY <1>1 DEF HeldOf
  <1>3. /\ \A k \in OfQueue(q, s), p \in OfWheel(wh, s) : Older(nx, q[k], EntryAt(wh, p))
        /\ \A p, r \in OfWheel(wh, s) : Before(tx, p, r) => Older(nx, EntryAt(wh, p), EntryAt(wh, r))
        /\ \A e \in HeldOf(q, wh, s) :
              /\ AgeOf(nx, e) # 0
              /\ \A i \in 1 .. AgeOf(nx, e) : \E f \in HeldOf(q, wh, s) : AgeOf(nx, f) = i
    BY DEF FifoOf
  <1>4. ASSUME NEW p \in OfWheel(wh, s)
        PROVE  /\ AgeOf(nx, EntryAt(wh, p)) # 0
               /\ \A i \in 1 .. AgeOf(nx, EntryAt(wh, p)) :
                     \E r \in OfWheel(wh, s) : AgeOf(nx, EntryAt(wh, r)) = i
    <2>1. EntryAt(wh, p) \in HeldOf(q, wh, s)
      BY DEF HeldOf
    <2>2. ASSUME NEW i \in 1 .. AgeOf(nx, EntryAt(wh, p))
          PROVE  \E r \in OfWheel(wh, s) : AgeOf(nx, EntryAt(wh, r)) = i
      <3>1. PICK f \in HeldOf(q, wh, s) : AgeOf(nx, f) = i
        BY <1>3, <2>1
      <3>2. PICK a \in Nat : a = AgeOf(nx, EntryAt(wh, p)) /\ i <= a /\ i \in Nat
        OBVIOUS
      <3>3. ASSUME NEW k \in OfQueue(q, s), f = q[k]
            PROVE  FALSE
        <4>1. AgeOf(nx, q[k]) > AgeOf(nx, EntryAt(wh, p))
          BY <1>3 DEF Older
        <4> QED
          BY <3>1, <3>2, <3>3, <4>1
      <3> QED
        BY <3>1, <3>3 DEF HeldOf
    <2> QED
      BY <1>3, <2>1, <2>2
  <1>5. \A e \in HeldOf(<<>>, wh, s) :
          /\ AgeOf(nx, e) # 0
          /\ \A i \in 1 .. AgeOf(nx, e) : \E f \in HeldOf(<<>>, wh, s) : AgeOf(nx, f) = i
    BY <1>2, <1>4
  <1> QED
    BY <1>1, <1>3, <1>5 DEF FifoOf

-----------------------------------------------------------------------------
(***************************************************************************)
(* insert_into_wslot.                                                      *)
(***************************************************************************)

\* The wheel after insert_into_wslot, and the place of the new entry.
LastBkt(wh, i) == wh[i][Len(wh[i])]
Full(wh, ws) == Len(LastBkt(wh, ws)) + 1 = kWheelBucketCap
NewPlace(wh, ws) == <<ws, Len(wh[ws]), Len(LastBkt(wh, ws)) + 1>>
Put(wh, ws, ent, wh2) ==
    LET chain == wh[ws]
        last == Append(chain[Len(chain)], ent)
    IN  wh2 = [wh EXCEPT ![ws] = [chain EXCEPT ![Len(chain)] = last]
                        \o (IF Len(last) = kWheelBucketCap THEN EmptyChain ELSE <<>>)]

\* The new chain.
NewChain(wh, ws, ent, wh2) ==
    /\ wh2[ws] \in Seq(Seq(WheelEntry))
    /\ Len(wh2[ws]) = Len(wh[ws]) + (IF Full(wh, ws) THEN 1 ELSE 0)
    /\ \A b \in 1 .. Len(wh[ws]) - 1 : wh2[ws][b] = wh[ws][b]
    /\ wh2[ws][Len(wh[ws])] = Append(LastBkt(wh, ws), ent)
    /\ Full(wh, ws) => wh2[ws][Len(wh[ws]) + 1] = <<>>
    /\ \A i \in Wslots : i # ws => wh2[i] = wh[i]
    /\ wh2 \in [Wslots -> Seq(Seq(WheelEntry))]

\* insert_into_wslot makes that chain.
LEMMA PutChain ==
  ASSUME NEW wh \in Wheels, NEW ws \in Wslots, NEW ent \in WheelEntry, NEW wh2,
         Put(wh, ws, ent, wh2)
  PROVE  NewChain(wh, ws, ent, wh2)
  <1>1. PICK c \in Seq(Seq(WheelEntry)), L \in Nat \ {0} : c = wh[ws] /\ L = Len(c)
    BY WheelDef
  <1>2. L \in 1 .. L
    OBVIOUS
  <1>3. PICK y \in Seq(WheelEntry) : y = c[L]
    BY <1>1, <1>2
  <1>4. PICK z \in Seq(WheelEntry) : z = Append(y, ent) /\ Len(z) = Len(y) + 1
    BY AppendProperties
  <1>5. PICK g \in Seq(Seq(WheelEntry)) :
          /\ g = [c EXCEPT ![L] = z] /\ Len(g) = L /\ g[L] = z
          /\ \A b \in 1 .. L - 1 : g[b] = c[b]
    <2>1. c \in [1 .. L -> Seq(WheelEntry)]
      BY <1>1
    <2>2. PICK g : g = [c EXCEPT ![L] = z]
      OBVIOUS
    <2>3. g \in [1 .. L -> Seq(WheelEntry)] /\ g[L] = z /\ \A b \in 1 .. L - 1 : g[b] = c[b]
      BY <1>2, <2>1, <2>2
    <2>4. g \in Seq(Seq(WheelEntry)) /\ Len(g) = L
      BY <2>3
    <2> QED
      BY <2>2, <2>3, <2>4
  <1>6. PICK x \in Seq(Seq(WheelEntry)) :
          /\ x = IF Len(z) = kWheelBucketCap THEN EmptyChain ELSE <<>>
          /\ Len(x) = IF Len(z) = kWheelBucketCap THEN 1 ELSE 0
          /\ Len(z) = kWheelBucketCap => x[1] = <<>>
    <2>1. /\ EmptyChain \in Seq(Seq(WheelEntry)) /\ Len(EmptyChain) = 1 /\ EmptyChain[1] = <<>>
      <3>1. <<>> \in Seq(WheelEntry)
        OBVIOUS
      <3>2. PICK v \in Seq(WheelEntry) : v = <<>>
        BY <3>1
      <3>3. <<v>> \in Seq(Seq(WheelEntry)) /\ Len(<<v>>) = 1 /\ <<v>>[1] = v
        OBVIOUS
      <3> QED
        BY <3>2, <3>3 DEF EmptyChain
    <2>2. PICK v \in Seq(Seq(WheelEntry)) : v = <<>> /\ Len(v) = 0
      BY EmptySeq
    <2>3. CASE Len(z) = kWheelBucketCap
      BY <2>1, <2>3
    <2>4. CASE Len(z) # kWheelBucketCap
      <3>1. v = IF Len(z) = kWheelBucketCap THEN EmptyChain ELSE <<>>
        BY <2>2, <2>4
      <3>2. Len(v) = IF Len(z) = kWheelBucketCap THEN 1 ELSE 0
        BY <2>2, <2>4
      <3> QED
        BY ONLY v \in Seq(Seq(WheelEntry)), <2>4, <3>1, <3>2
    <2> QED
      BY <2>3, <2>4
  <1>7. PICK e \in Seq(Seq(WheelEntry)) :
          /\ e = g \o x /\ Len(e) = L + Len(x)
          /\ \A b \in 1 .. L : e[b] = g[b]
          /\ Len(x) = 1 => e[L + 1] = x[1]
    <2>1. PICK e \in Seq(Seq(WheelEntry)) : e = g \o x
      BY ConcatProperties
    <2>2. Len(e) = Len(g) + Len(x)
      BY <2>1, ConcatProperties
    <2>3. /\ \A k \in 1 .. Len(g) : e[k] = g[k]
          /\ \A j \in 1 .. Len(x) : e[Len(g) + j] = x[j]
      BY <2>1, ConcatAt
    <2>4. \A b \in 1 .. L : e[b] = g[b]
      BY <1>5, <2>3
    <2>5. ASSUME Len(x) = 1
          PROVE  e[L + 1] = x[1]
      <3>1. 1 \in 1 .. Len(x)
        BY <2>5
      <3> QED
        BY <1>5, <2>3, <3>1
    <2> QED
      BY <1>5, <2>1, <2>2, <2>4, <2>5
  <1>8. wh2 = [wh EXCEPT ![ws] = e]
    BY <1>1, <1>3, <1>4, <1>5, <1>6, <1>7 DEF Put
  <1>9. wh2[ws] = e /\ (\A i \in Wslots : i # ws => wh2[i] = wh[i]) /\ wh2 \in [Wslots -> Seq(Seq(WheelEntry))]
    BY <1>8 DEF Wheels
  <1>10. LastBkt(wh, ws) = y /\ Len(y) \in Nat
    BY <1>1, <1>3 DEF LastBkt
  <1>11. Full(wh, ws) <=> Len(z) = kWheelBucketCap
    BY <1>4, <1>10 DEF Full
  <1>12. e[L] = z /\ \A b \in 1 .. L - 1 : e[b] = c[b]
    BY <1>2, <1>5, <1>7
  <1>13. Len(e) = L + (IF Full(wh, ws) THEN 1 ELSE 0)
    BY <1>6, <1>7, <1>11
  <1>14. Full(wh, ws) => e[L + 1] = <<>>
    BY <1>6, <1>7, <1>11
  <1> QED
    BY <1>1, <1>4, <1>9, <1>10, <1>12, <1>13, <1>14 DEF NewChain

\* The wheel holds one entry more, last in its slot.
LEMMA PutWheel ==
  ASSUME NEW wh \in Wheels, NEW ws \in Wslots, NEW ent \in WheelEntry, NEW wh2,
         NewChain(wh, ws, ent, wh2)
  PROVE  /\ wh2 \in Wheels
         /\ WheelPlaces(wh2) = WheelPlaces(wh) \cup {NewPlace(wh, ws)}
         /\ NewPlace(wh, ws)[1] = ws /\ NewPlace(wh, ws)[2] \in Nat /\ NewPlace(wh, ws)[3] \in Nat
         /\ EntryAt(wh2, NewPlace(wh, ws)) = ent
         /\ \A p \in WheelPlaces(wh) :
               /\ p # NewPlace(wh, ws) /\ EntryAt(wh2, p) = EntryAt(wh, p)
               /\ p[1] = ws => Ordered(p[2], p[3], NewPlace(wh, ws)[2], NewPlace(wh, ws)[3])
               /\ ~Ordered(NewPlace(wh, ws)[2], NewPlace(wh, ws)[3], p[2], p[3]) \/ p[1] # ws
  <1>1. PICK c \in Seq(Seq(WheelEntry)), L \in Nat \ {0} : c = wh[ws] /\ L = Len(c)
    BY WheelDef
  <1>2. PICK y \in Seq(WheelEntry), K \in Nat : y = c[L] /\ K = Len(y)
    BY <1>1, WheelDef
  <1>3. LastBkt(wh, ws) = y /\ NewPlace(wh, ws) = <<ws, L, K + 1>>
    BY <1>1, <1>2 DEF LastBkt, NewPlace
  <1>4. PICK z \in Seq(WheelEntry) : /\ z = Append(y, ent) /\ Len(z) = K + 1 /\ z[K + 1] = ent
                                     /\ \A k \in 1 .. K : z[k] = y[k]
    <2>1. PICK z \in Seq(WheelEntry) : z = Append(y, ent)
      BY AppendProperties
    <2>2. Len(z) = Len(y) + 1 /\ z[Len(y) + 1] = ent /\ \A k \in 1 .. Len(y) : z[k] = y[k]
      BY <2>1, AppendProperties
    <2> QED
      BY <1>2, <2>1, <2>2
  <1>5. PICK e \in Seq(Seq(WheelEntry)) :
          /\ e = wh2[ws] /\ L <= Len(e) /\ Len(e) <= L + 1
          /\ \A b \in 1 .. L - 1 : e[b] = c[b]
          /\ e[L] = z /\ (Len(e) = L + 1 => e[L + 1] = <<>>)
    <2>1. PICK e \in Seq(Seq(WheelEntry)) : e = wh2[ws]
      BY DEF NewChain
    <2>2. /\ Len(e) = L + (IF Full(wh, ws) THEN 1 ELSE 0)
          /\ \A b \in 1 .. L - 1 : e[b] = c[b]
          /\ e[L] = Append(y, ent)
          /\ Full(wh, ws) => e[L + 1] = <<>>
      BY <1>1, <1>3, <2>1 DEF NewChain
    <2>3. Len(e) = L + 1 => Full(wh, ws)
      BY <2>2
    <2>4. L <= Len(e) /\ Len(e) <= L + 1
      BY <2>2
    <2> QED
      BY <1>4, <2>1, <2>2, <2>3, <2>4
  <1>6. (\A i \in Wslots : i # ws => wh2[i] = wh[i]) /\ wh2 \in [Wslots -> Seq(Seq(WheelEntry))]
    BY DEF NewChain
  <1>7. wh2 \in Wheels
    <2>1. e # <<>>
      <3>1. Len(<<>>) = 0
        OBVIOUS
      <3> QED
        BY <1>5, <3>1
    <2>2. \A i \in Wslots : wh2[i] \in Seq(Seq(WheelEntry)) /\ wh2[i] # <<>>
      BY <1>5, <1>6, <2>1 DEF Wheels
    <2> QED
      BY <1>6, <2>2 DEF Wheels
  <1>8. ASSUME NEW p \in WheelPlaces(wh)
        PROVE  /\ p \in WheelPlaces(wh2) /\ EntryAt(wh2, p) = EntryAt(wh, p)
               /\ p[1] = ws => /\ p[2] \in Nat /\ p[3] \in Nat /\ p[2] <= L
                               /\ p[2] = L => p[3] < K + 1
    <2>1. /\ p = <<p[1], p[2], p[3]>> /\ p[1] \in Wslots
          /\ p[2] \in 1 .. Len(wh[p[1]]) /\ p[3] \in 1 .. Len(wh[p[1]][p[2]])
      BY InPlaces
    <2>2. CASE p[1] # ws
      <3>1. wh2[p[1]] = wh[p[1]]
        BY <1>6, <2>1, <2>2
      <3>2. <<p[1], p[2], p[3]>> \in WheelPlaces(wh2)
        BY <1>7, <2>1, <3>1, InPlaces
      <3> QED
        BY <2>1, <2>2, <3>1, <3>2 DEF EntryAt
    <2>3. CASE p[1] = ws
      <3>1. PICK b \in 1 .. L : b = p[2] /\ p[3] \in 1 .. Len(c[b])
        BY <1>1, <2>1, <2>3
      <3>2. b \in 1 .. Len(e)
        BY <1>5
      <3>3. CASE b = L
        <4>1. PICK k \in 1 .. K : k = p[3]
          BY <1>2, <3>1, <3>3
        <4>2. k \in 1 .. Len(e[b]) /\ e[b][k] = c[b][k]
          <5>1. e[b] = z /\ c[b] = y /\ k \in 1 .. K + 1
            BY <1>2, <1>5, <3>3
          <5> QED
            BY <1>4, <5>1
        <4>3. <<p[1], p[2], p[3]>> \in WheelPlaces(wh2)
          BY <1>5, <1>7, <2>1, <2>3, <3>1, <3>2, <4>1, <4>2, InPlaces
        <4>4. EntryAt(wh2, p) = EntryAt(wh, p)
          BY <1>1, <1>5, <2>3, <3>1, <4>1, <4>2 DEF EntryAt
        <4>5. p[2] \in Nat /\ p[3] \in Nat /\ p[2] <= L /\ p[3] < K + 1
          BY <3>1, <4>1
        <4> QED
          BY <2>1, <4>3, <4>4, <4>5
      <3>4. CASE b # L
        <4>1. b \in 1 .. L - 1
          BY <3>4
        <4>2. e[b] = c[b]
          BY <1>5, <4>1
        <4>3. <<p[1], p[2], p[3]>> \in WheelPlaces(wh2)
          BY <1>5, <1>7, <2>1, <2>3, <3>1, <3>2, <4>2, InPlaces
        <4>4. EntryAt(wh2, p) = EntryAt(wh, p)
          BY <1>1, <1>5, <2>3, <3>1, <4>2 DEF EntryAt
        <4>5. p[2] \in Nat /\ p[2] <= L /\ p[2] # L
          BY <3>1, <3>4
        <4>6. p[3] \in Nat
          BY <2>1
        <4> QED
          BY <2>1, <4>3, <4>4, <4>5, <4>6
      <3> QED
        BY <3>3, <3>4
    <2> QED
      BY <2>2, <2>3
  <1>9. <<ws, L, K + 1>> \in WheelPlaces(wh2) /\ EntryAt(wh2, <<ws, L, K + 1>>) = ent
    <2>1. L \in 1 .. Len(e) /\ K + 1 \in 1 .. Len(e[L]) /\ e[L][K + 1] = ent
      BY <1>4, <1>5
    <2>2. <<ws, L, K + 1>> \in WheelPlaces(wh2)
      BY <1>5, <1>7, <2>1, InPlaces
    <2> QED
      BY <1>5, <2>1, <2>2 DEF EntryAt
  <1>10. ASSUME NEW p \in WheelPlaces(wh2), p # <<ws, L, K + 1>>
         PROVE  p \in WheelPlaces(wh)
    <2>1. /\ p = <<p[1], p[2], p[3]>> /\ p[1] \in Wslots
          /\ p[2] \in 1 .. Len(wh2[p[1]]) /\ p[3] \in 1 .. Len(wh2[p[1]][p[2]])
      BY <1>7, InPlaces
    <2>2. CASE p[1] # ws
      <3>1. wh2[p[1]] = wh[p[1]]
        BY <1>6, <2>1, <2>2
      <3>2. <<p[1], p[2], p[3]>> \in WheelPlaces(wh)
        BY <2>1, <3>1, InPlaces
      <3> QED
        BY <2>1, <3>2
    <2>3. CASE p[1] = ws
      <3>1. PICK b \in 1 .. Len(e) : b = p[2] /\ p[3] \in 1 .. Len(e[b])
        BY <1>5, <2>1, <2>3
      <3>2. b \in 1 .. L
        <4> SUFFICES ASSUME b = L + 1
                     PROVE  FALSE
          BY <1>5
        <4>1. Len(e) = L + 1
          BY <1>5
        <4>2. e[b] = <<>> /\ Len(<<>>) = 0
          BY <1>5, <4>1
        <4>3. p[3] \in 1 .. 0
          BY <3>1, <4>2
        <4> QED
          BY <4>3
      <3>3. p[3] \in 1 .. Len(c[b])
        <4>1. CASE b = L
          <5>1. p[3] \in 1 .. K + 1
            BY <1>4, <1>5, <3>1, <4>1
          <5>2. p[3] # K + 1
            BY <1>10, <2>1, <2>3, <3>1, <4>1
          <5> QED
            BY <1>2, <4>1, <5>1, <5>2
        <4>2. CASE b # L
          <5>1. b \in 1 .. L - 1
            BY <3>2, <4>2
          <5> QED
            BY <1>5, <3>1, <5>1
        <4> QED
          BY <4>1, <4>2
      <3>4. <<p[1], p[2], p[3]>> \in WheelPlaces(wh)
        BY <1>1, <2>3, <3>1, <3>2, <3>3, InPlaces
      <3> QED
        BY <2>1, <3>4
    <2> QED
      BY <2>2, <2>3
  <1>11. ASSUME NEW p \in WheelPlaces(wh)
         PROVE  /\ p # <<ws, L, K + 1>>
                /\ p[1] = ws => Ordered(p[2], p[3], L, K + 1)
                /\ ~Ordered(L, K + 1, p[2], p[3]) \/ p[1] # ws
    <2>1. CASE p[1] # ws
      BY <2>1
    <2>2. CASE p[1] = ws
      <3>1. PICK b \in Nat, k \in Nat : b = p[2] /\ k = p[3] /\ b <= L /\ (b = L => k < K + 1)
        BY <1>8, <2>2
      <3>2. Ordered(b, k, L, K + 1) /\ ~Ordered(L, K + 1, b, k)
        BY <3>1 DEF Ordered
      <3>3. p # <<ws, L, K + 1>>
        BY <3>1
      <3> QED
        BY <3>1, <3>2, <3>3
    <2> QED
      BY <2>1, <2>2
  <1>12. PICK n : n = <<ws, L, K + 1>> /\ n[1] = ws /\ n[2] = L /\ n[3] = K + 1
    <2>1. <<ws, L, K + 1>>[1] = ws /\ <<ws, L, K + 1>>[2] = L /\ <<ws, L, K + 1>>[3] = K + 1
      OBVIOUS
    <2> QED
      BY ONLY <2>1
  <1>13. WheelPlaces(wh2) = WheelPlaces(wh) \cup {n}
    BY <1>8, <1>9, <1>10, <1>12
  <1>14. n[2] \in Nat /\ n[3] \in Nat
    BY <1>12
  <1> QED
    BY <1>3, <1>7, <1>8, <1>9, <1>11, <1>12, <1>13, <1>14

-----------------------------------------------------------------------------
(***************************************************************************)
(* Buckets and packet numbers.                                             *)
(***************************************************************************)

\* Every bucket is accounted for, and the last of a chain has room.
Buckets(wh, pool, total) ==
    /\ pool \in Nat /\ total \in Nat
    /\ total = pool + Cardinality(Chained(wh, Wslots))
    /\ \A i \in Wslots : Len(LastBkt(wh, i)) < kWheelBucketCap

\* reap returns the chained buckets of the slots it takes to the pool.
LEMMA ReapBuckets ==
  ASSUME Timed(tx_tsc, cur_wslot), wheel \in Wheels, Buckets(wheel, bkt_pool, bkt_total)
  PROVE  Buckets(reap.wheel, reap.pool, bkt_total)
  <1>1. Reaped \subseteq Wslots
    BY ReapedSlots
  <1> DEFINE A == Chained(wheel, Reaped)
             B == Chained(wheel, Wslots \ Reaped)
  <1>2. IsFiniteSet(A) /\ IsFiniteSet(B)
    BY <1>1, ChainedFinite
  <1>3. Chained(wheel, Wslots) = A \cup B
    <2>1. \A i : i \in Wslots <=> i \in Reaped \/ i \in Wslots \ Reaped
      BY <1>1
    <2> QED
      BY <2>1, InChained
  <1>4. A \cap B = {}
    <2> SUFFICES ASSUME NEW x \in A, x \in B
                 PROVE  FALSE
      OBVIOUS
    <2>1. PICK i \in Reaped : \E b \in 2 .. Len(wheel[i]) : x = <<i, b>>
      BY InChained
    <2>2. PICK j \in Wslots \ Reaped : \E b \in 2 .. Len(wheel[j]) : x = <<j, b>>
      BY InChained
    <2>3. x[1] = i /\ x[1] = j
      BY <2>1, <2>2
    <2> QED
      BY <2>3
  <1> HIDE DEF A, B
  <1>5. PICK a \in Nat, b \in Nat : a = Cardinality(A) /\ b = Cardinality(B)
    BY <1>2, FS_CardinalityType
  <1>6. Cardinality(A \cup B) = a + b
    <2>1. Cardinality({}) = 0
      BY FS_EmptySet
    <2>2. Cardinality(A \cup B) = Cardinality(A) + Cardinality(B) - Cardinality(A \cap B)
      BY <1>2, FS_Union
    <2>3. Cardinality(A \cap B) = 0
      BY <1>4, <2>1
    <2>4. a + b - 0 = a + b
      OBVIOUS
    <2> QED
      BY <1>5, <2>2, <2>3, <2>4
  <1>7. PICK p \in Nat, t \in Nat : p = bkt_pool /\ t = bkt_total /\ t = p + (a + b)
    BY <1>3, <1>6 DEF Buckets
  <1>8. reap.pool = p + a
    BY <1>5, <1>7 DEF reap, A
  <1>9. Cardinality(Chained(reap.wheel, Wslots)) = b
    BY <1>5, ReapWheel DEF B
  <1>10. t = (p + a) + b /\ p + a \in Nat
    BY <1>7
  <1>11. ASSUME NEW i \in Wslots
         PROVE  Len(LastBkt(reap.wheel, i)) < kWheelBucketCap
    <2>1. CASE reap.wheel[i] = wheel[i]
      BY <2>1 DEF Buckets, LastBkt
    <2>2. CASE reap.wheel[i] = EmptyChain
      <3>1. Len(EmptyChain) = 1 /\ EmptyChain[1] = <<>> /\ Len(<<>>) = 0
        BY DEF EmptyChain
      <3>2. LastBkt(reap.wheel, i) = <<>>
        BY <2>2, <3>1 DEF LastBkt
      <3> QED
        BY <3>1, <3>2, WheelAssumption
    <2> QED
      BY <2>1, <2>2, ReapWheel
  <1> QED
    BY <1>7, <1>8, <1>9, <1>10, <1>11 DEF Buckets

\* The buckets that insert_into_wslot takes from the pool.
PoolAfter(wh, ws, pool, na) ==
    pool + (IF Full(wh, ws) /\ pool = 0 THEN na ELSE 0) - (IF Full(wh, ws) THEN 1 ELSE 0)
TotalAfter(wh, ws, pool, total, na) == IF Full(wh, ws) /\ pool = 0 THEN total + na ELSE total

\* insert_into_wslot keeps the buckets accounted for, and room in the last one.
LEMMA PutBuckets ==
  ASSUME NEW wh \in Wheels, NEW ws \in Wslots, NEW ent \in WheelEntry, NEW wh2,
         NewChain(wh, ws, ent, wh2), NEW pool, NEW total, Buckets(wh, pool, total),
         NEW na \in Nat \ {0}
  PROVE  Buckets(wh2, PoolAfter(wh, ws, pool, na), TotalAfter(wh, ws, pool, total, na))
  <1>1. PICK L \in Nat \ {0} : L = Len(wh[ws])
    BY WheelDef
  <1>2. /\ Len(wh2[ws]) = L + (IF Full(wh, ws) THEN 1 ELSE 0)
        /\ \A i \in Wslots : i # ws => wh2[i] = wh[i]
    BY <1>1 DEF NewChain
  <1>3. IsFiniteSet(Chained(wh, Wslots))
    BY ChainedFinite
  <1>4. PICK c \in Nat : c = Cardinality(Chained(wh, Wslots))
    BY <1>3, FS_CardinalityType
  <1>5. CASE ~Full(wh, ws)
    <2>1. \A i \in Wslots : Len(wh2[i]) = Len(wh[i])
      BY <1>1, <1>2, <1>5
    <2>2. Chained(wh2, Wslots) = Chained(wh, Wslots)
      BY <2>1 DEF Chained
    <2>3. PoolAfter(wh, ws, pool, na) = pool /\ TotalAfter(wh, ws, pool, total, na) = total
      BY <1>5 DEF PoolAfter, TotalAfter, Buckets
    <2>4. ASSUME NEW i \in Wslots
          PROVE  Len(LastBkt(wh2, i)) < kWheelBucketCap
      <3>1. CASE i # ws
        BY <1>2, <3>1 DEF LastBkt, Buckets
      <3>2. CASE i = ws
        <4>1. PICK y \in Seq(WheelEntry) : y = LastBkt(wh, ws)
          BY WheelDef DEF LastBkt
        <4>2. LastBkt(wh2, ws) = Append(y, ent)
          BY <1>1, <2>1, <4>1 DEF LastBkt, NewChain
        <4>3. Len(Append(y, ent)) = Len(y) + 1 /\ Len(y) \in Nat
          BY AppendProperties
        <4>4. Len(y) < kWheelBucketCap /\ Len(y) + 1 # kWheelBucketCap
          BY <1>5, <4>1 DEF Buckets, Full
        <4>5. kWheelBucketCap \in Nat
          BY WheelAssumption
        <4>6. Len(y) + 1 < kWheelBucketCap
          BY <4>3, <4>4, <4>5
        <4> QED
          BY <3>2, <4>2, <4>3, <4>6
      <3> QED
        BY <3>1, <3>2
    <2> QED
      BY <2>2, <2>3, <2>4 DEF Buckets
  <1>6. CASE Full(wh, ws)
    <2>1. Len(wh2[ws]) = L + 1 /\ 2 .. L + 1 = (2 .. L) \cup {L + 1} /\ L + 1 \notin 2 .. L
      BY <1>2, <1>6
    <2>2. Chained(wh2, Wslots) = Chained(wh, Wslots) \cup {<<ws, L + 1>>}
      <3>1. ASSUME NEW x \in Chained(wh2, Wslots)
            PROVE  x \in Chained(wh, Wslots) \cup {<<ws, L + 1>>}
        <4>1. PICK i \in Wslots : \E b \in 2 .. Len(wh2[i]) : x = <<i, b>>
          BY <3>1, InChained
        <4>2. PICK b \in 2 .. Len(wh2[i]) : x = <<i, b>>
          BY <4>1
        <4>3. (i = ws /\ b = L + 1) \/ b \in 2 .. Len(wh[i])
          BY <1>1, <1>2, <2>1
        <4> QED
          BY <4>2, <4>3, InChained
      <3>2. ASSUME NEW x \in Chained(wh, Wslots)
            PROVE  x \in Chained(wh2, Wslots)
        <4>1. PICK i \in Wslots : \E b \in 2 .. Len(wh[i]) : x = <<i, b>>
          BY <3>2, InChained
        <4>2. PICK b \in 2 .. Len(wh[i]) : x = <<i, b>>
          BY <4>1
        <4>3. b \in 2 .. Len(wh2[i])
          BY <1>1, <1>2, <2>1
        <4> QED
          BY <4>2, <4>3, InChained
      <3>3. <<ws, L + 1>> \in Chained(wh2, Wslots)
        <4>1. L + 1 \in 2 .. Len(wh2[ws])
          BY <2>1
        <4> QED
          BY <4>1, InChained
      <3> QED
        BY <3>1, <3>2, <3>3
    <2>3. <<ws, L + 1>> \notin Chained(wh, Wslots)
      <3> SUFFICES ASSUME <<ws, L + 1>> \in Chained(wh, Wslots)
                   PROVE  FALSE
        OBVIOUS
      <3>1. PICK i \in Wslots : \E b \in 2 .. Len(wh[i]) : <<ws, L + 1>> = <<i, b>>
        BY InChained
      <3>2. i = ws /\ L + 1 \in 2 .. Len(wh[i])
        BY <3>1
      <3> QED
        BY <1>1, <2>1, <3>2
    <2>4. Cardinality(Chained(wh2, Wslots)) = c + 1
      BY <1>3, <1>4, <2>2, <2>3, FS_AddElement
    <2>5. PICK p \in Nat, t \in Nat : p = pool /\ t = total /\ t = p + c
      BY <1>4 DEF Buckets
    <2>6. PICK p2 \in Nat, t2 \in Nat : /\ p2 = PoolAfter(wh, ws, pool, na)
                                        /\ t2 = TotalAfter(wh, ws, pool, total, na)
                                        /\ t2 = p2 + (c + 1)
      <3>1. CASE p = 0
        <4>1. PoolAfter(wh, ws, pool, na) = 0 + na - 1 /\ TotalAfter(wh, ws, pool, total, na) = t + na
          BY <1>6, <2>5, <3>1 DEF PoolAfter, TotalAfter
        <4>2. 0 + na - 1 \in Nat /\ t + na \in Nat /\ t + na = (0 + na - 1) + (c + 1)
          BY <2>5, <3>1
        <4> QED
          BY <4>1, <4>2
      <3>2. CASE p # 0
        <4>1. PoolAfter(wh, ws, pool, na) = p + 0 - 1 /\ TotalAfter(wh, ws, pool, total, na) = t
          BY <1>6, <2>5, <3>2 DEF PoolAfter, TotalAfter
        <4>2. p + 0 - 1 \in Nat /\ t = (p + 0 - 1) + (c + 1)
          BY <2>5, <3>2
        <4> QED
          BY <4>1, <4>2
      <3> QED
        BY <3>1, <3>2
    <2>7. ASSUME NEW i \in Wslots
          PROVE  Len(LastBkt(wh2, i)) < kWheelBucketCap
      <3>1. CASE i # ws
        BY <1>2, <3>1 DEF LastBkt, Buckets
      <3>2. CASE i = ws
        <4>1. LastBkt(wh2, ws) = <<>> /\ Len(<<>>) = 0
          BY <1>1, <1>6, <2>1 DEF LastBkt, NewChain
        <4> QED
          BY <3>2, <4>1, WheelAssumption
      <3> QED
        BY <3>1, <3>2
    <2> QED
      BY <2>4, <2>6, <2>7 DEF Buckets
  <1> QED
    BY <1>5, <1>6

-----------------------------------------------------------------------------
(* Ages *)

\* The remainder of a difference.
LEMMA ModDiff ==
  ASSUME NEW d \in Nat \ {0}, NEW n \in 0 .. d - 1, NEW m \in 0 .. d - 1
  PROVE  (n - m) % d = IF m <= n THEN n - m ELSE n - m + d
  <1>1. CASE m <= n
    <2>1. PICK x \in Nat : x = n - m /\ x < d
      BY <1>1
    <2>2. x % d = x
      BY <2>1, ModOf
    <2> QED
      BY <1>1, <2>1, <2>2
  <1>2. CASE ~(m <= n)
    <2>1. PICK x \in Int : x = n - m
      OBVIOUS
    <2>2. PICK y \in 0 .. d - 1 : y = n - m + d /\ x = d * (-1) + y
      BY <1>2, <2>1
    <2>3. x % d = y
      BY <2>2
    <2> QED
      BY <1>2, <2>1, <2>2, <2>3
  <1> QED
    BY <1>1, <1>2

\* There are more packet numbers than twice a session's credits.
LEMMA PktSizes ==
  /\ M \in Nat /\ M >= 3 /\ PktNums = 0 .. M - 1 /\ Cardinality(PktNums) = M
  /\ kSessionCredits \in Nat \ {0} /\ kSessionCredits < M - 1
  <1>1. PICK c \in Nat \ {0} : c = kSessionCredits
    BY WheelAssumption
  <1>2. M = 2 * c + 1
    BY <1>1 DEF M
  <1>3. PktNums = 0 .. 2 * c
    BY <1>1 DEF PktNums
  <1>4. Cardinality(0 .. 2 * c) = IF 0 > 2 * c THEN 0 ELSE 2 * c - 0 + 1
    BY FS_Interval
  <1> QED
    BY <1>1, <1>2, <1>3, <1>4

\* Session s has numbered another packet.
Counts(nx, s, nx2) == nx2 = [nx EXCEPT ![s] = (@ + 1) % M]

\* The entries of s age by one when it numbers another packet.
LEMMA Ages ==
  ASSUME NEW nx \in [Sessions -> PktNums], NEW s \in Sessions, NEW nx2, Counts(nx, s, nx2)
  PROVE  /\ nx2 \in [Sessions -> PktNums]
         /\ \A e \in WheelEntry : AgeOf(nx, e) \in 0 .. M - 1
         /\ \A e \in WheelEntry : e.session # s => AgeOf(nx2, e) = AgeOf(nx, e)
         /\ \A e \in WheelEntry : e.session = s /\ AgeOf(nx, e) < M - 1 => AgeOf(nx2, e) = AgeOf(nx, e) + 1
         /\ \A e \in WheelEntry : e.session = s /\ e.num = nx[s] => AgeOf(nx2, e) = 1
  <1>1. PICK d \in Nat : d = M /\ d >= 3 /\ PktNums = 0 .. d - 1
    BY PktSizes
  <1>2. d \in Nat \ {0}
    BY <1>1
  <1>3. PICK n \in 0 .. d - 1 : n = nx[s]
    BY <1>1
  <1>4. PICK n2 \in 0 .. d - 1 : n2 = (n + 1) % d /\ n2 = IF n = d - 1 THEN 0 ELSE n + 1
    <2>1. CASE n = d - 1
      <3>1. n + 1 = d * 1 + 0 /\ 0 \in 0 .. d - 1 /\ n + 1 \in Nat
        BY <2>1
      <3>2. PICK x \in Nat : x = n + 1 /\ x = d * 1 + 0
        BY <3>1
      <3>3. x % d = 0
        BY <1>2, <3>1, <3>2, ModIs
      <3> QED
        BY <2>1, <3>1, <3>2, <3>3
    <2>2. CASE n # d - 1
      <3>1. PICK x \in Nat : x = n + 1 /\ x < d /\ x \in 0 .. d - 1
        BY <2>2
      <3>2. x % d = x
        BY <1>2, <3>1, ModOf
      <3> QED
        BY <2>2, <3>1, <3>2
    <2> QED
      BY <2>1, <2>2
  <1>5. nx2 = [nx EXCEPT ![s] = n2]
    BY <1>1, <1>3, <1>4 DEF Counts
  <1>6. nx2 \in [Sessions -> PktNums] /\ nx2[s] = n2 /\ \A t \in Sessions : t # s => nx2[t] = nx[t]
    BY <1>1, <1>5
  <1>7. ASSUME NEW e \in WheelEntry
        PROVE  /\ e.session \in Sessions /\ e.num \in 0 .. d - 1
               /\ nx[e.session] \in 0 .. d - 1
    BY <1>1 DEF WheelEntry
  <1>8. ASSUME NEW e \in WheelEntry
        PROVE  AgeOf(nx, e) \in 0 .. d - 1
    <2>1. PICK a \in 0 .. d - 1, m \in 0 .. d - 1 : a = nx[e.session] /\ m = e.num
      BY <1>7
    <2>2. (a - m) % d = IF m <= a THEN a - m ELSE a - m + d
      BY <1>2, ModDiff
    <2>3. (a - m) % d \in 0 .. d - 1
      BY <2>2
    <2> QED
      BY <1>1, <2>1, <2>3 DEF AgeOf
  <1>9. ASSUME NEW e \in WheelEntry, e.session # s
        PROVE  AgeOf(nx2, e) = AgeOf(nx, e)
    BY <1>6, <1>7, <1>9 DEF AgeOf
  <1>10. ASSUME NEW e \in WheelEntry, e.session = s
         PROVE  /\ AgeOf(nx, e) < d - 1 => AgeOf(nx2, e) = AgeOf(nx, e) + 1
                /\ e.num = n => AgeOf(nx2, e) = 1
    <2>1. PICK m \in 0 .. d - 1 : m = e.num
      BY <1>7
    <2>2. (n - m) % d = IF m <= n THEN n - m ELSE n - m + d
      BY <1>2, ModDiff
    <2>3. (n2 - m) % d = IF m <= n2 THEN n2 - m ELSE n2 - m + d
      BY <1>2, ModDiff
    <2>4. AgeOf(nx, e) = (n - m) % d /\ AgeOf(nx2, e) = (n2 - m) % d
      BY <1>1, <1>3, <1>6, <1>10, <2>1 DEF AgeOf
    <2>5. PICK x, y : /\ x = (IF m <= n THEN n - m ELSE n - m + d)
                      /\ y = (IF m <= n2 THEN n2 - m ELSE n2 - m + d)
      OBVIOUS
    <2>6. (x < d - 1 => y = x + 1) /\ (m = n => y = 1)
      BY <1>1, <1>4, <2>5
    <2> QED
      BY <2>1, <2>2, <2>3, <2>4, <2>5, <2>6
  <1> QED
    BY <1>1, <1>3, <1>6, <1>8, <1>9, <1>10

\* As the ages of a session's entries have no gaps, none exceeds their number.
LEMMA AgeBound ==
  ASSUME NEW s, NEW q \in Seq(WheelEntry), NEW wh \in Wheels, NEW tx, NEW nx,
         FifoOf(s, q, wh, tx, nx), NEW e \in HeldOf(q, wh, s), AgeOf(nx, e) \in Nat
  PROVE  /\ Cardinality(OfWheel(wh, s)) \in Nat /\ Cardinality(OfQueue(q, s)) \in Nat
         /\ AgeOf(nx, e) <= Cardinality(OfWheel(wh, s)) + Cardinality(OfQueue(q, s))
  <1> DEFINE A == OfWheel(wh, s)
             B == OfQueue(q, s)
             C == {q[k] : k \in B}
             D == {EntryAt(wh, p) : p \in A}
             H == HeldOf(q, wh, s)
             T == {AgeOf(nx, f) : f \in H}
  <1>1. IsFiniteSet(A)
    <2>1. A \subseteq WheelPlaces(wh)
      BY DEF OfWheel
    <2> QED
      BY <2>1, PlacesFinite, FS_Subset
  <1>2. IsFiniteSet(B)
    <2>1. Len(q) \in Nat
      OBVIOUS
    <2>2. B \subseteq 1 .. Len(q) /\ IsFiniteSet(1 .. Len(q))
      BY <2>1, FS_Interval DEF OfQueue
    <2> QED
      BY <2>2, FS_Subset
  <1>3. IsFiniteSet(C) /\ Cardinality(C) <= Cardinality(B)
    <2>1. PICK f : f = [k \in B |-> q[k]]
      OBVIOUS
    <2>2. f \in [B -> C] /\ \A y \in C : \E k \in B : f[k] = y
      BY <2>1
    <2>3. f \in Surjection(B, C)
      BY <2>2, Fun_IsSurj
    <2> QED
      BY <1>2, <2>3, FS_Surjection
  <1>4. IsFiniteSet(D) /\ Cardinality(D) <= Cardinality(A)
    <2>1. PICK f : f = [p \in A |-> EntryAt(wh, p)]
      OBVIOUS
    <2>2. f \in [A -> D] /\ \A y \in D : \E p \in A : f[p] = y
      BY <2>1
    <2>3. f \in Surjection(A, D)
      BY <2>2, Fun_IsSurj
    <2> QED
      BY <1>1, <2>3, FS_Surjection
  <1>5. H = C \cup D
    BY DEF HeldOf
  <1> HIDE DEF A, B, C, D
  <1>6. PICK a \in Nat, b \in Nat, c \in Nat, d \in Nat :
          /\ a = Cardinality(A) /\ b = Cardinality(B) /\ c = Cardinality(C) /\ d = Cardinality(D)
          /\ c <= b /\ d <= a
    BY <1>1, <1>2, <1>3, <1>4, FS_CardinalityType
  <1>7. PICK h \in Nat : h = Cardinality(H) /\ h <= c + d /\ IsFiniteSet(H)
    <2>1. IsFiniteSet(H) /\ Cardinality(H) = Cardinality(C) + Cardinality(D) - Cardinality(C \cap D)
      BY <1>3, <1>4, <1>5, FS_Union
    <2>2. IsFiniteSet(C \cap D)
      BY <1>3, FS_Intersection
    <2>3. PICK x \in Nat : x = Cardinality(C \cap D)
      BY <2>2, FS_CardinalityType
    <2>4. PICK h \in Nat : h = Cardinality(H)
      BY <2>1, FS_CardinalityType
    <2>5. h = c + d - x
      BY <1>6, <2>1, <2>3, <2>4
    <2>6. h <= c + d
      BY <2>5
    <2> QED
      BY <2>1, <2>4, <2>6
  <1>8. IsFiniteSet(T) /\ Cardinality(T) <= Cardinality(H)
    <2>1. PICK f : f = [x \in H |-> AgeOf(nx, x)]
      OBVIOUS
    <2>2. f \in [H -> T] /\ \A y \in T : \E x \in H : f[x] = y
      BY <2>1
    <2> HIDE DEF T, H
    <2>3. f \in Surjection(H, T)
      BY <2>2, Fun_IsSurj
    <2> QED
      BY <1>7, <2>3, FS_Surjection
  <1>9. PICK n \in Nat : n = AgeOf(nx, e)
    OBVIOUS
  <1>10. 1 .. n \subseteq T
    BY <1>9 DEF FifoOf
  <1> HIDE DEF T, H
  <1>11. IsFiniteSet(1 .. n) /\ Cardinality(1 .. n) = n
    <2>1. n \in Int /\ 1 \in Int
      OBVIOUS
    <2>2. IsFiniteSet(1 .. n) /\ Cardinality(1 .. n) = IF 1 > n THEN 0 ELSE n - 1 + 1
      BY ONLY <2>1, FS_Interval
    <2> QED
      BY <2>2
  <1>12. PICK t \in Nat : t = Cardinality(T) /\ t <= h
    BY <1>7, <1>8, FS_CardinalityType
  <1>13. n <= t
    BY <1>8, <1>10, <1>11, <1>12, FS_Subset
  <1>14. n <= a + b
    BY <1>6, <1>7, <1>12, <1>13
  <1> QED
    BY <1>6, <1>9, <1>14 DEF A, B

\* Entry ent of session s is put at the new place np.
Puts(s, wh, np, ent, wh2) ==
    /\ WheelPlaces(wh2) = WheelPlaces(wh) \cup {np}
    /\ EntryAt(wh2, np) = ent /\ ent.session = s
    /\ \A p \in WheelPlaces(wh) : p # np /\ EntryAt(wh2, p) = EntryAt(wh, p)

\* The entries of each session after that.
PutHeld(s, q, wh, np, ent, wh2) ==
    /\ OfWheel(wh2, s) = OfWheel(wh, s) \cup {np}
    /\ \A t : t # s => OfWheel(wh2, t) = OfWheel(wh, t)
    /\ \A t, p : p \in OfWheel(wh, t) => p # np /\ EntryAt(wh2, p) = EntryAt(wh, p)
    /\ HeldOf(q, wh2, s) = HeldOf(q, wh, s) \cup {ent}
    /\ \A t : t # s => HeldOf(q, wh2, t) = HeldOf(q, wh, t)

\* Putting an entry adds it to those of its session.
LEMMA PutsHeld ==
  ASSUME NEW s, NEW q, NEW wh, NEW np, NEW ent, NEW wh2, Puts(s, wh, np, ent, wh2)
  PROVE  PutHeld(s, q, wh, np, ent, wh2)
  <1>1. OfWheel(wh2, s) = OfWheel(wh, s) \cup {np}
    BY DEF OfWheel, Puts
  <1>2. ASSUME NEW t, t # s
        PROVE  OfWheel(wh2, t) = OfWheel(wh, t)
    BY <1>2 DEF OfWheel, Puts
  <1>3. \A t, p : p \in OfWheel(wh, t) => p # np /\ EntryAt(wh2, p) = EntryAt(wh, p)
    BY DEF OfWheel, Puts
  <1>4. HeldOf(q, wh2, s) = HeldOf(q, wh, s) \cup {ent}
    <2>1. EntryAt(wh2, np) = ent
      BY DEF Puts
    <2>2. {EntryAt(wh2, p) : p \in OfWheel(wh2, s)} = {EntryAt(wh, p) : p \in OfWheel(wh, s)} \cup {ent}
      BY <1>1, <1>3, <2>1
    <2> QED
      BY <2>2 DEF HeldOf
  <1>5. ASSUME NEW t, t # s
        PROVE  HeldOf(q, wh2, t) = HeldOf(q, wh, t)
    <2>1. {EntryAt(wh2, p) : p \in OfWheel(wh2, t)} = {EntryAt(wh, p) : p \in OfWheel(wh, t)}
      BY <1>2, <1>3, <1>5
    <2> QED
      BY <2>1 DEF HeldOf
  <1> QED
    BY <1>1, <1>2, <1>3, <1>4, <1>5 DEF PutHeld

\* The other sessions' entries.
LEMMA PutsFifoOther ==
  ASSUME NEW s, NEW q, NEW wh, NEW np, NEW ent, NEW wh2, Puts(s, wh, np, ent, wh2),
         NEW t, t # s, NEW tx, NEW nx, NEW nx2, FifoOf(t, q, wh, tx, nx),
         \A e \in HeldOf(q, wh, t) : AgeOf(nx2, e) = AgeOf(nx, e)
  PROVE  FifoOf(t, q, wh2, tx, nx2)
  <1>1. /\ OfWheel(wh2, t) = OfWheel(wh, t) /\ HeldOf(q, wh2, t) = HeldOf(q, wh, t)
        /\ \A p \in OfWheel(wh, t) : EntryAt(wh2, p) = EntryAt(wh, p)
    <2>1. PutHeld(s, q, wh, np, ent, wh2)
      BY PutsHeld
    <2> QED
      BY <2>1 DEF PutHeld
  <1>2. /\ \A k \in OfQueue(q, t) : q[k] \in HeldOf(q, wh, t)
        /\ \A p \in OfWheel(wh, t) : EntryAt(wh, p) \in HeldOf(q, wh, t)
    BY DEF HeldOf
  <1>3. \A e, f \in HeldOf(q, wh, t) : Older(nx, e, f) => Older(nx2, e, f)
    BY DEF Older
  <1>4. /\ \A k, l \in OfQueue(q, t) : k < l => Older(nx2, q[k], q[l])
        /\ \A k \in OfQueue(q, t), p \in OfWheel(wh2, t) : Older(nx2, q[k], EntryAt(wh2, p))
        /\ \A p, r \in OfWheel(wh2, t) : Before(tx, p, r) => Older(nx2, EntryAt(wh2, p), EntryAt(wh2, r))
    BY <1>1, <1>2, <1>3 DEF FifoOf
  <1>5. \A e \in HeldOf(q, wh2, t) :
          /\ AgeOf(nx2, e) # 0
          /\ \A a \in 1 .. AgeOf(nx2, e) : \E f \in HeldOf(q, wh2, t) : AgeOf(nx2, f) = a
    BY <1>1 DEF FifoOf
  <1> QED
    BY <1>4, <1>5 DEF FifoOf

\* The session's own entries: they age, and the new one comes last.
LEMMA PutsFifo ==
  ASSUME NEW s, NEW q, NEW wh, NEW np, NEW ent, NEW wh2, Puts(s, wh, np, ent, wh2),
         NEW tx, NEW nx, NEW nx2, FifoOf(s, q, wh, tx, nx),
         \A e \in HeldOf(q, wh, s) : AgeOf(nx, e) \in Nat /\ AgeOf(nx2, e) = AgeOf(nx, e) + 1,
         AgeOf(nx2, ent) = 1,
         ~Before(tx, np, np), \A p \in OfWheel(wh, s) : ~Before(tx, np, p)
  PROVE  FifoOf(s, q, wh2, tx, nx2)
  <1>1. /\ OfWheel(wh2, s) = OfWheel(wh, s) \cup {np}
        /\ HeldOf(q, wh2, s) = HeldOf(q, wh, s) \cup {ent}
        /\ EntryAt(wh2, np) = ent
        /\ \A p \in OfWheel(wh, s) : p # np /\ EntryAt(wh2, p) = EntryAt(wh, p)
    <2>1. PutHeld(s, q, wh, np, ent, wh2)
      BY PutsHeld
    <2> QED
      BY <2>1 DEF PutHeld, Puts
  <1>2. /\ \A k \in OfQueue(q, s) : q[k] \in HeldOf(q, wh, s)
        /\ \A p \in OfWheel(wh, s) : EntryAt(wh, p) \in HeldOf(q, wh, s)
    BY DEF HeldOf
  <1>3. \A e, f \in HeldOf(q, wh, s) : Older(nx, e, f) => Older(nx2, e, f)
    BY DEF Older
  <1>4. ASSUME NEW e \in HeldOf(q, wh, s)
        PROVE  Older(nx2, e, ent) /\ AgeOf(nx2, e) # 0
    <2>1. PICK a \in Nat : a = AgeOf(nx, e) /\ a # 0
      BY DEF FifoOf
    <2>2. AgeOf(nx2, e) = a + 1 /\ a + 1 > 1 /\ a + 1 # 0
      BY <2>1
    <2> QED
      BY <2>2 DEF Older
  <1>5. \A k, l \in OfQueue(q, s) : k < l => Older(nx2, q[k], q[l])
    BY <1>2, <1>3 DEF FifoOf
  <1>6. ASSUME NEW k \in OfQueue(q, s), NEW p \in OfWheel(wh2, s)
        PROVE  Older(nx2, q[k], EntryAt(wh2, p))
    <2>1. CASE p = np
      BY <1>1, <1>2, <1>4, <2>1
    <2>2. CASE p \in OfWheel(wh, s)
      BY <1>1, <1>2, <1>3, <2>2 DEF FifoOf
    <2> QED
      BY <1>1, <2>1, <2>2
  <1>7. ASSUME NEW p \in OfWheel(wh2, s), NEW r \in OfWheel(wh2, s), Before(tx, p, r)
        PROVE  Older(nx2, EntryAt(wh2, p), EntryAt(wh2, r))
    <2>1. p # np
      BY <1>1, <1>7
    <2>2. p \in OfWheel(wh, s)
      BY <1>1, <2>1
    <2>3. CASE r = np
      BY <1>1, <1>2, <1>4, <2>2, <2>3
    <2>4. CASE r \in OfWheel(wh, s)
      BY <1>1, <1>2, <1>3, <1>7, <2>2, <2>4 DEF FifoOf
    <2> QED
      BY <1>1, <2>3, <2>4
  <1>8. ASSUME NEW e \in HeldOf(q, wh2, s)
        PROVE  /\ AgeOf(nx2, e) # 0
               /\ \A a \in 1 .. AgeOf(nx2, e) : \E f \in HeldOf(q, wh2, s) : AgeOf(nx2, f) = a
    <2>1. CASE e = ent
      <3>1. \A a \in 1 .. 1 : a = 1
        OBVIOUS
      <3> QED
        BY <1>1, <2>1, <3>1
    <2>2. CASE e \in HeldOf(q, wh, s)
      <3>1. PICK n \in Nat : n = AgeOf(nx, e) /\ AgeOf(nx2, e) = n + 1
        BY <2>2
      <3>2. ASSUME NEW a \in 1 .. n + 1
            PROVE  \E f \in HeldOf(q, wh2, s) : AgeOf(nx2, f) = a
        <4>1. CASE a = 1
          BY <1>1, <4>1
        <4>2. CASE a # 1
          <5>1. PICK i \in 1 .. n : i = a - 1 /\ i + 1 = a
            BY <4>2
          <5>2. PICK f \in HeldOf(q, wh, s) : AgeOf(nx, f) = i
            BY <2>2, <3>1 DEF FifoOf
          <5>3. AgeOf(nx2, f) = a
            BY <5>1, <5>2
          <5> QED
            BY <1>1, <5>3
        <4> QED
          BY <4>1, <4>2
      <3> QED
        BY <1>4, <2>2, <3>1, <3>2
    <2> QED
      BY <1>1, <2>1, <2>2
  <1> QED
    BY <1>5, <1>6, <1>7, <1>8 DEF FifoOf

-----------------------------------------------------------------------------
(***************************************************************************)
(* The horizon: which times are asked for, and which slot they get.        *)
(***************************************************************************)

\* The slots of the wheel after the current one cover the horizon.  With a
\* slot width that is a whole number of cycles they do.
SlotsCover == horizon_tsc <= (kWheelNumWslots - 1) * wslot_width_tsc

\* A packet takes at least a cycle on the link.
PacketsTakeTime == FreqDen * kLinkBandwidth <= FreqNum

\* Products are monotonic.
LEMMA TimesLe ==
  ASSUME NEW a \in Nat, NEW b \in Nat, NEW c \in Nat, a <= b
  PROVE  a * c <= b * c /\ c * a <= c * b
  <1>1. a * c <= b * c
    BY TimesMono
  <1>2. a * c = c * a /\ b * c = c * b
    OBVIOUS
  <1> QED
    BY <1>1, <1>2

\* Division rounds down.
LEMMA DivLe ==
  ASSUME NEW a \in Nat, NEW w \in Nat \ {0}
  PROVE  a \div w \in Nat /\ (a \div w) * w <= a /\ \A n \in Nat : n * w <= a => n <= a \div w
  <1>1. PICK q \in Nat : q = a \div w
    BY DivLess
  <1>2. \A n \in Nat : q < n <=> a < n * w
    BY <1>1, DivLess
  <1>3. q * w <= a
    <2>1. q * w \in Nat /\ ~(q < q)
      OBVIOUS
    <2>2. ~(a < q * w)
      BY <1>2, <2>1
    <2> QED
      BY <2>1, <2>2
  <1>4. ASSUME NEW n \in Nat, n * w <= a
        PROVE  n <= q
    <2>1. n * w \in Nat
      OBVIOUS
    <2>2. ~(q < n)
      BY <1>2, <1>4, <2>1
    <2> QED
      BY <2>2
  <1> QED
    BY <1>1, <1>3, <1>4

(***************************************************************************)
(* With a slot width of a whole number of cycles the slots span the        *)
(* horizon: the rounding up in kWheelNumWslots (timing_wheel.h:36-37)      *)
(* makes up for the rounding down in us_to_cycles (timing_wheel.h:81-82).  *)
(***************************************************************************)
THEOREM WholeCyclesCover ==
  ASSUME (kWheelSlotWidth * FreqNum) % FreqDen = 0
  PROVE  SlotsCover
  <1>1. PICK h \in Nat, w \in Nat \ {0}, f \in Nat \ {0}, d \in Nat \ {0} :
           h = kWheelHorizon /\ w = kWheelSlotWidth /\ f = FreqNum /\ d = FreqDen
    BY WheelAssumption, WheelSizes
  <1>2. PICK k \in Nat : k = CeilDiv(h, w) /\ N - 1 = k
    BY <1>1, WheelSizes
  <1>3. h <= k * w
    <2>1. PICK a \in Nat : a = h + w - 1
      BY <1>1
    <2>2. a = w * (a \div w) + (a % w) /\ a % w \in 0 .. w - 1 /\ a \div w \in Nat
      BY <1>1, <2>1
    <2>3. k = a \div w
      BY <1>2, <2>1 DEF CeilDiv
    <2>4. PICK m \in 0 .. w - 1 : a = w * k + m
      BY <2>2, <2>3
    <2>5. w * k = k * w /\ k * w \in Nat
      BY <1>1, <1>2
    <2> QED
      BY <1>1, <2>1, <2>4, <2>5
  <1>4. w * f = W * d /\ W \in Nat
    <2>1. PICK a \in Nat : a = w * f /\ a % d = 0
      BY <1>1
    <2>2. a = d * (a \div d) + (a % d) /\ a \div d \in Nat
      BY <1>1, <2>1
    <2>3. W = a \div d
      BY <1>1, <2>1 DEF W, wslot_width_tsc, us_to_cycles
    <2>4. d * W = W * d
      BY <1>1, <2>2, <2>3
    <2> QED
      BY <2>1, <2>2, <2>3, <2>4, <1>1
  <1>5. PICK z \in Nat : z = horizon_tsc /\ z * d <= h * f
    <2>1. h * f \in Nat
      BY <1>1
    <2>2. (h * f) \div d \in Nat /\ ((h * f) \div d) * d <= h * f
      BY <1>1, <2>1, DivLe
    <2> QED
      BY <1>1, <2>2 DEF horizon_tsc, us_to_cycles
  <1>6. z * d <= (k * W) * d
    <2>1. h * f <= (k * w) * f
      <3>1. k * w \in Nat
        BY <1>1, <1>2
      <3> QED
        BY <1>1, <1>3, <3>1, TimesLe
    <2>2. (k * w) * f = k * (w * f) /\ k * (W * d) = (k * W) * d
      BY <1>1, <1>2, <1>4
    <2>3. (k * w) * f = (k * W) * d
      BY <1>4, <2>2
    <2>4. z * d \in Nat /\ h * f \in Nat /\ (k * W) * d \in Nat
      BY <1>1, <1>2, <1>4
    <2> QED
      BY <1>5, <2>1, <2>3, <2>4
  <1>7. z <= k * W
    <2>1. PICK y \in Nat : y = k * W
      BY <1>2, <1>4
    <2>2. CASE y < z
      <3>1. (y + 1) * d <= z * d
        BY <1>1, <2>1, <2>2, TimesLe
      <3>2. (y + 1) * d = y * d + d /\ y * d \in Nat /\ z * d \in Nat
        BY <1>1, <2>1
      <3> QED
        BY <3>1, <3>2, <1>1, <1>6, <2>1
    <2> QED
      BY <2>1, <2>2
  <1> QED
    BY <1>2, <1>5, <1>7 DEF SlotsCover, N, W

\* Credits times the longest delay do not exceed the horizon.
LEMMA Horizon ==
  kMaxDelta \in Nat /\ horizon_tsc \in Nat /\ kSessionCredits * kMaxDelta <= horizon_tsc
  <1>1. PICK c \in Nat \ {0}, m \in Nat \ {0}, r \in Nat \ {0}, f \in Nat \ {0}, d \in Nat \ {0} :
          /\ c = kSessionCredits /\ m = kMTU /\ r = kMinRate /\ f = FreqNum /\ d = FreqDen
          /\ (c * m) % r = 0
    BY WheelAssumption
  <1>2. PICK h \in Nat : h = kWheelHorizon /\ h * r = c * m
    <2>1. PICK x \in Nat : x = c * m
      OBVIOUS
    <2>2. x \div r \in Nat /\ x % r = 0 /\ x = r * (x \div r) + (x % r)
      BY <1>1, <2>1
    <2>3. PICK h \in Nat : h = x \div r /\ x = r * h + 0
      BY <2>2
    <2>4. h * r = r * h + 0
      OBVIOUS
    <2> QED
      BY <1>1, <2>1, <2>3, <2>4 DEF kWheelHorizon
  <1>3. PICK k \in Nat : k = kMaxDelta /\ k * (d * r) <= m * f
    <2>1. PICK x \in Nat, y \in Nat \ {0} : x = m * f /\ y = d * r
      <3>1. m * f \in Nat /\ d * r \in Nat \ {0}
        <4>1. 1 <= d /\ 1 * r <= d * r /\ 1 * r = r
          BY TimesMono
        <4> QED
          BY <4>1
      <3> QED
        BY <3>1
    <2>2. x \div y \in Nat /\ (x \div y) * y <= x
      BY DivLe
    <2>3. kMaxDelta = x \div y
      BY <1>1, <2>1 DEF kMaxDelta
    <2> QED
      BY <2>1, <2>2, <2>3
  <1>4. (c * k) * d <= h * f
    <2>1. PICK x \in Nat, y \in Nat : x = (c * k) * d /\ y = h * f
      <3>1. (c * k) * d \in Nat /\ h * f \in Nat
        OBVIOUS
      <3> QED
        BY <3>1
    <2>2. x * r <= y * r
      <3>1. PICK u \in Nat, v \in Nat : u = k * (d * r) /\ v = m * f /\ u <= v
        <4>1. k * (d * r) \in Nat /\ m * f \in Nat
          OBVIOUS
        <4> QED
          BY <1>3, <4>1
      <3>2. c * u <= c * v
        BY <3>1, TimesLe
      <3>3. c * u = x * r
        BY <2>1, <3>1
      <3>4. c * v = (c * m) * f
        BY <3>1
      <3>5. (h * r) * f = y * r
        BY <2>1
      <3> QED
        BY <1>2, <3>2, <3>3, <3>4, <3>5
    <2>3. x <= y
      <3> SUFFICES ASSUME y + 1 <= x
                   PROVE  FALSE
        OBVIOUS
      <3>1. (y + 1) * r <= x * r /\ (y + 1) * r = y * r + r /\ y * r \in Nat /\ x * r \in Nat
        BY TimesMono
      <3> QED
        BY <2>2, <3>1
    <2> QED
      BY <2>1, <2>3
  <1>5. PICK x \in Nat, n \in Nat : x = h * f /\ n = c * k /\ n * d <= x
    <2>1. h * f \in Nat /\ c * k \in Nat
      OBVIOUS
    <2> QED
      BY <1>4, <2>1
  <1>6. x \div d \in Nat /\ n <= x \div d
    BY <1>5, DivLe
  <1>7. horizon_tsc = x \div d
    BY <1>1, <1>2, <1>5 DEF horizon_tsc, us_to_cycles
  <1> QED
    BY <1>1, <1>3, <1>5, <1>6, <1>7

\* The delay of a packet.
LEMMA Delay ==
  ASSUME NEW z \in 1 .. kMTU, NEW rate \in kMinRate .. kLinkBandwidth, PacketsTakeTime
  PROVE  /\ (z * FreqNum) \div (FreqDen * rate) \in Nat
         /\ 1 <= (z * FreqNum) \div (FreqDen * rate)
         /\ (z * FreqNum) \div (FreqDen * rate) <= kMaxDelta
  <1>1. PICK m \in Nat \ {0}, r \in Nat \ {0}, f \in Nat \ {0}, d \in Nat \ {0}, b \in Nat :
          /\ m = kMTU /\ r = kMinRate /\ f = FreqNum /\ d = FreqDen /\ b = kLinkBandwidth
    BY WheelAssumption
  <1>2. PICK y \in Nat \ {0} : y = rate /\ r <= y /\ y <= b
    BY <1>1
  <1>3. z \in Nat /\ 1 <= z /\ z <= m
    BY <1>1
  <1>4. PICK a \in Nat, w \in Nat \ {0}, w0 \in Nat \ {0}, a0 \in Nat, wb \in Nat :
          a = z * f /\ w = d * y /\ w0 = d * r /\ a0 = m * f /\ wb = d * b
    <2>1. z * f \in Nat /\ d * y \in Nat /\ d * r \in Nat /\ m * f \in Nat /\ d * b \in Nat
      BY <1>3
    <2>2. 1 * y <= d * y /\ 1 * y = y /\ 1 * r <= d * r /\ 1 * r = r
      BY TimesMono
    <2>3. d * y # 0 /\ d * r # 0
      BY <2>1, <2>2
    <2> QED
      BY <2>1, <2>3
  <1>5. PICK q \in Nat : q = a \div w /\ q * w <= a /\ \A n \in Nat : n * w <= a => n <= q
    BY DivLe
  <1>6. 1 <= q
    <2>1. w <= wb
      BY <1>2, <1>4, TimesLe
    <2>2. wb <= f
      BY <1>1, <1>4 DEF PacketsTakeTime
    <2>3. 1 * f <= z * f /\ 1 * f = f
      BY <1>3, TimesMono
    <2>4. 1 * w <= a /\ 1 \in Nat
      BY <1>4, <2>1, <2>2, <2>3
    <2> QED
      BY <1>5, <2>4
  <1>7. q <= a0 \div w0
    <2>1. a <= a0
      BY <1>3, <1>4, TimesLe
    <2>2. w0 <= w
      BY <1>2, <1>4, TimesLe
    <2>3. q * w0 <= q * w /\ q * w0 \in Nat /\ q * w \in Nat
      BY <2>2, TimesLe
    <2>4. q * w0 <= a0
      BY <1>5, <2>1, <2>3
    <2> QED
      BY <2>4, DivLe
  <1>8. kMaxDelta = a0 \div w0
    BY <1>1, <1>4 DEF kMaxDelta
  <1>9. (z * FreqNum) \div (FreqDen * rate) = q
    BY <1>1, <1>2, <1>4, <1>5
  <1> QED
    BY <1>5, <1>6, <1>7, <1>8, <1>9

\* The slot that insert computes: its interval holds the desired time.
LEMMA Slot ==
  ASSUME NEW r, Timed(r.tx_tsc, r.cur), r.tx_tsc[r.cur] > 0, r.tx_tsc[r.cur] <= W,
         SlotsCover, NEW D \in Nat, D <= horizon_tsc
  PROVE  /\ wslot_delta(r, D) < kWheelNumWslots
         /\ dst_wslot(r, D) \in Wslots
         /\ r.tx_tsc[dst_wslot(r, D)] - W <= D /\ D <= r.tx_tsc[dst_wslot(r, D)]
  <1>1. PICK d \in Nat \ {0}, c \in Nat, t \in Nat, w \in Nat \ {0} :
          /\ d = N /\ c = r.cur /\ c < d /\ t = r.tx_tsc[r.cur] /\ w = W /\ t > 0 /\ t <= w
    <2>1. r.cur \in Wslots /\ r.tx_tsc[r.cur] \in Int
      BY DEF Timed
    <2> QED
      BY <2>1, WheelSizes
  <1>2. D <= (d - 1) * w
    BY <1>1, Horizon DEF SlotsCover, N, W
  <1>3. PICK k \in 0 .. d - 1 : /\ k = wslot_delta(r, D)
                                /\ t + k * w - w <= D /\ D <= t + k * w
    <2>1. CASE D <= t
      <3>1. wslot_delta(r, D) = 0
        BY <1>1, <2>1 DEF wslot_delta
      <3>2. 0 \in 0 .. d - 1 /\ 0 * w = 0
        OBVIOUS
      <3> QED
        BY <1>1, <2>1, <3>1, <3>2
    <2>2. CASE ~(D <= t)
      <3>1. PICK x \in Nat : x = D - t
        BY <2>2
      <3>2. PICK q \in Nat : q = x \div w /\ q * w <= x /\ \A n \in Nat : q < n <=> x < n * w
        BY DivLe, DivLess
      <3>3. wslot_delta(r, D) = 1 + q
        BY <1>1, <2>2, <3>1, <3>2 DEF wslot_delta, W
      <3>4. q < d - 1
        <4>1. d - 1 \in Nat /\ (d - 1) * w \in Nat
          OBVIOUS
        <4>2. x < (d - 1) * w
          BY <1>1, <1>2, <3>1, <4>1
        <4> QED
          BY <3>2, <4>1, <4>2
      <3>5. PICK y \in Nat : y = q * w /\ (1 + q) * w = y + w
        <4>1. q * w \in Nat /\ (1 + q) * w = q * w + w
          OBVIOUS
        <4> QED
          BY <4>1
      <3>6. x < y + w
        <4>1. q < 1 + q /\ 1 + q \in Nat
          OBVIOUS
        <4>2. x < (1 + q) * w
          BY <3>2, <4>1
        <4> QED
          BY <3>5, <4>2
      <3>7. t + (y + w) - w <= D /\ D <= t + (y + w)
        BY <3>1, <3>2, <3>5, <3>6
      <3>8. 1 + q \in 0 .. d - 1
        BY <3>4
      <3> QED
        BY <3>3, <3>5, <3>7, <3>8
    <2> QED
      BY <2>1, <2>2
  <1>4. PICK i : i = dst_wslot(r, D) /\ i = (c + k) % d
    <2>1. c + k \in Nat /\ c + k < d + d
      BY <1>1
    <2>2. PICK x \in Nat : x = c + k
      BY <2>1
    <2>3. dst_wslot(r, D) = IF x >= d THEN x - d ELSE x
      BY <1>1, <1>3, <2>2 DEF dst_wslot, N
    <2>4. CASE x >= d
      <3>1. x - d \in 0 .. d - 1 /\ x = d * 1 + (x - d)
        BY <2>1, <2>2, <2>4
      <3>2. x % d = x - d
        BY <3>1, ModIs
      <3> QED
        BY <2>2, <2>3, <2>4, <3>2
    <2>5. CASE ~(x >= d)
      <3>1. x < d
        BY <2>5
      <3>2. x % d = x
        BY ONLY <3>1, x \in Nat, d \in Nat \ {0}, ModOf
      <3> QED
        BY <2>2, <2>3, <2>5, <3>2
    <2> QED
      BY <2>4, <2>5
  <1>5. r.tx_tsc[i] = t + k * w /\ i \in Wslots
    <2>1. r.tx_tsc[i] = t + k * w
      BY <1>1, <1>4 DEF Timed
    <2>2. r.cur \in Wslots /\ k \in Nat
      BY DEF Timed
    <2> QED
      BY <1>1, <1>4, <2>1, <2>2, InTurn
  <1>6. k < d
    OBVIOUS
  <1> QED
    BY <1>1, <1>3, <1>4, <1>5, <1>6 DEF N

-----------------------------------------------------------------------------
(***************************************************************************)
(* The invariant, and reap.                                                *)
(***************************************************************************)

\* Every entry of the wheel wants a time in its slot's interval, and those in
\* the ready queue a time that has come.
Precise(q, wh, tx) ==
    /\ \A p \in WheelPlaces(wh) : /\ tx[p[1]] - W <= EntryAt(wh, p).desired
                                  /\ EntryAt(wh, p).desired <= tx[p[1]]
    /\ \A k \in 1 .. Len(q) : q[k].desired <= 0

\* No entry wants a time after the last one given to its session.
Recent(wh, prev) == \A p \in WheelPlaces(wh) : EntryAt(wh, p).desired <= prev[EntryAt(wh, p).session]

\* A session whose last time lies more than T ahead has an entry that still
\* waits for T to pass, and paid at most kMaxDelta for it and each later one.
Spaced(s, wh, prev, nx) ==
    \A T \in Nat : prev[s] > T =>
        \E p \in OfWheel(wh, s) :
            /\ EntryAt(wh, p).desired > T
            /\ prev[s] <= T + kMaxDelta * AgeOf(nx, EntryAt(wh, p))

\* The invariant of the ready queue q, the wheel wh with the slot times tx and
\* the current slot cur, the sessions' last times prev and next numbers nx.
Paced(q, wh, tx, cur, prev, nx) ==
    /\ wh \in Wheels /\ q \in Seq(WheelEntry)
    /\ Timed(tx, cur) /\ tx[cur] <= W
    /\ prev \in [Sessions -> Int] /\ nx \in [Sessions -> PktNums]
    /\ Precise(q, wh, tx) /\ Recent(wh, prev)
    /\ \A s \in Sessions : FifoOf(s, q, wh, tx, nx)
    /\ \A s \in Sessions : Spaced(s, wh, prev, nx)

\* The fields of an entry.
LEMMA EntryType ==
  \A e \in WheelEntry : e.session \in Sessions /\ e.num \in PktNums /\ e.desired \in Int
  <1>1. Oldest \in Int /\ horizon_tsc \in Int
    <2>1. kMaxLag \in Nat
      BY WheelAssumption
    <2> QED
      BY <2>1, Horizon, WheelSizes DEF Oldest, W
  <1>2. Oldest .. horizon_tsc \subseteq Int
    BY <1>1
  <1> QED
    BY <1>2 DEF WheelEntry

\* reap keeps Paced, leaves the current slot in the future, and loses no entry.
LEMMA ReapPaced ==
  ASSUME Paced(ready_queue, wheel, tx_tsc, cur_wslot, prev_desired, pkt_next)
  PROVE  /\ Paced(reap.ready, reap.wheel, reap.tx_tsc, reap.cur, prev_desired, pkt_next)
         /\ reap.tx_tsc[reap.cur] > 0
         /\ \A s \in Sessions : HeldOf(reap.ready, reap.wheel, s) = HeldOf(ready_queue, wheel, s)
  <1>1. /\ wheel \in Wheels /\ ready_queue \in Seq(WheelEntry) /\ Timed(tx_tsc, cur_wslot)
        /\ tx_tsc[cur_wslot] <= W /\ prev_desired \in [Sessions -> Int] /\ pkt_next \in [Sessions -> PktNums]
        /\ Precise(ready_queue, wheel, tx_tsc) /\ Recent(wheel, prev_desired)
        /\ \A s \in Sessions : FifoOf(s, ready_queue, wheel, tx_tsc, pkt_next)
        /\ \A s \in Sessions : Spaced(s, wheel, prev_desired, pkt_next)
    BY DEF Paced
  <1>2. PICK wh2, tx2, c2 : wh2 = reap.wheel /\ tx2 = reap.tx_tsc /\ c2 = reap.cur
    OBVIOUS
  <1>3. /\ wh2 \in Wheels
        /\ WheelPlaces(wh2) = {p \in WheelPlaces(wheel) : p[1] \notin Reaped}
        /\ \A p \in WheelPlaces(wh2) : EntryAt(wh2, p) = EntryAt(wheel, p)
    BY <1>1, <1>2, ReapWheel
  <1>4. PICK y \in Seq(WheelEntry) : reap.ready = ready_queue \o y /\ Drained(wheel, tx_tsc, Reaped, y)
    BY <1>1, ReapReady
  <1>5. /\ Timed(tx2, c2) /\ tx2[c2] = tx_tsc[cur_wslot] + ReapCount * W
        /\ \A i \in Wslots \ Reaped : tx2[i] = tx_tsc[i]
    BY <1>1, <1>2, ReapTimed
  <1>6. tx2[c2] > 0 /\ tx2[c2] <= W
    BY <1>1, <1>5, ReapsTo
  <1>7. /\ Reaped \subseteq Wslots
        /\ \A i \in Reaped : tx_tsc[i] <= 0
        /\ \A i \in Wslots \ Reaped : tx_tsc[i] > 0
        /\ \A i \in Wslots : tx_tsc[i] \in Int
    BY <1>1, ReapedSlots DEF Timed
  <1>8. \A p \in WheelPlaces(wheel) : p[1] \in Wslots /\ EntryAt(wheel, p) \in WheelEntry
    BY <1>1, InPlaces
  <1>9. \A p \in WheelPlaces(wh2) : p \in WheelPlaces(wheel) /\ p[1] \in Wslots \ Reaped /\ tx2[p[1]] = tx_tsc[p[1]]
    BY <1>3, <1>5, <1>8
  <1>10. Reaps(wheel, tx_tsc, Reaped, y, wh2, tx2)
    <2>1. ASSUME NEW p \in WheelPlaces(wheel), NEW r \in WheelPlaces(wheel), p[1] \in Reaped, r[1] \notin Reaped
          PROVE  tx_tsc[p[1]] < tx_tsc[r[1]]
      <3>1. PICK a \in Int, b \in Int : a = tx_tsc[p[1]] /\ b = tx_tsc[r[1]] /\ a <= 0 /\ b > 0
        BY <1>7, <1>8, <2>1
      <3> QED
        BY <3>1
    <2> QED
      BY <1>3, <1>4, <1>9, <2>1 DEF Reaps
  <1>11. PICK q \in Seq(WheelEntry) : q = ready_queue \o y
    BY <1>1, ConcatProperties
  <1>12. \A s \in Sessions : /\ FifoOf(s, q, wh2, tx2, pkt_next)
                             /\ HeldOf(q, wh2, s) = HeldOf(ready_queue, wheel, s)
    BY <1>1, <1>10, <1>11, ReapsFifo
  <1>13. Precise(q, wh2, tx2)
    <2>1. \A p \in WheelPlaces(wh2) : /\ tx2[p[1]] - W <= EntryAt(wh2, p).desired
                                      /\ EntryAt(wh2, p).desired <= tx2[p[1]]
      BY <1>1, <1>3, <1>9 DEF Precise
    <2>2. ASSUME NEW k \in 1 .. Len(q)
          PROVE  q[k].desired <= 0
      <3>1. CASE k \in 1 .. Len(ready_queue)
        <4>1. q[k] = ready_queue[k]
          BY <1>1, <1>11, <3>1, ConcatAt
        <4> QED
          BY <1>1, <3>1, <4>1 DEF Precise
      <3>2. ASSUME NEW j \in 1 .. Len(y), k = Len(ready_queue) + j
            PROVE  q[k].desired <= 0
        <4>1. q[k] = y[j]
          BY <1>1, <1>11, <3>2, ConcatAt
        <4>2. PICK p \in WheelPlaces(wheel) : p[1] \in Reaped /\ y[j] = EntryAt(wheel, p)
          BY <1>4 DEF Drained
        <4>3. PICK e \in Int, t \in Int : e = y[j].desired /\ t = tx_tsc[p[1]]
          BY <1>7, <1>8, <4>2, EntryType
        <4>4. e <= t /\ t <= 0
          BY <1>1, <1>7, <4>2, <4>3 DEF Precise
        <4> QED
          BY <4>1, <4>3, <4>4
      <3>3. k \in 1 .. Len(ready_queue) \/ \E j \in 1 .. Len(y) : k = Len(ready_queue) + j
        BY <1>1, <1>11, ConcatAt
      <3> QED
        BY <3>1, <3>2, <3>3
    <2> QED
      BY <2>1, <2>2 DEF Precise
  <1>14. Recent(wh2, prev_desired)
    BY <1>1, <1>3, <1>9 DEF Recent
  <1>15. ASSUME NEW s \in Sessions
         PROVE  Spaced(s, wh2, prev_desired, pkt_next)
    <2> SUFFICES ASSUME NEW T \in Nat, prev_desired[s] > T
                 PROVE  \E p \in OfWheel(wh2, s) :
                           /\ EntryAt(wh2, p).desired > T
                           /\ prev_desired[s] <= T + kMaxDelta * AgeOf(pkt_next, EntryAt(wh2, p))
      BY DEF Spaced
    <2>1. PICK p \in OfWheel(wheel, s) :
             /\ EntryAt(wheel, p).desired > T
             /\ prev_desired[s] <= T + kMaxDelta * AgeOf(pkt_next, EntryAt(wheel, p))
      BY <1>1 DEF Spaced
    <2>2. p \in WheelPlaces(wheel)
      BY DEF OfWheel
    <2>3. PICK e \in Int, t \in Int : e = EntryAt(wheel, p).desired /\ t = tx_tsc[p[1]]
      BY <1>7, <1>8, <2>2, EntryType
    <2>4. e > T /\ e <= t
      BY <1>1, <2>1, <2>2, <2>3 DEF Precise
    <2>5. ~(t <= 0)
      BY <2>4
    <2>6. p[1] \notin Reaped
      BY <1>7, <2>3, <2>5
    <2>7. p \in WheelPlaces(wh2) /\ EntryAt(wh2, p) = EntryAt(wheel, p)
      BY <1>3, <2>2, <2>6
    <2>8. p \in OfWheel(wh2, s)
      BY <2>7 DEF OfWheel
    <2> QED
      BY <2>1, <2>7, <2>8
  <1>16. Paced(q, wh2, tx2, c2, prev_desired, pkt_next)
    BY <1>1, <1>3, <1>5, <1>6, <1>12, <1>13, <1>14, <1>15 DEF Paced
  <1> QED
    BY <1>2, <1>4, <1>6, <1>11, <1>12, <1>16

\* The entries of a session are entries with natural ages.
LEMMA AgeNat ==
  ASSUME NEW nx \in [Sessions -> PktNums], NEW wh \in Wheels, NEW q \in Seq(WheelEntry), NEW s
  PROVE  /\ HeldOf(q, wh, s) \subseteq {e \in WheelEntry : e.session = s}
         /\ \A e \in HeldOf(q, wh, s) : AgeOf(nx, e) \in Nat
         /\ \A p \in OfWheel(wh, s) : EntryAt(wh, p) \in HeldOf(q, wh, s)
  <1>1. \A p \in OfWheel(wh, s) : EntryAt(wh, p) \in WheelEntry /\ EntryAt(wh, p).session = s
    BY InPlaces DEF OfWheel
  <1>2. \A k \in OfQueue(q, s) : q[k] \in WheelEntry /\ q[k].session = s
    BY DEF OfQueue
  <1>3. HeldOf(q, wh, s) \subseteq {e \in WheelEntry : e.session = s}
    BY <1>1, <1>2 DEF HeldOf
  <1>4. ASSUME NEW e \in HeldOf(q, wh, s)
        PROVE  AgeOf(nx, e) \in Nat
    <2>1. e \in WheelEntry
      BY <1>3
    <2>2. e.session \in Sessions
      BY <2>1, EntryType
    <2>3. PICK nx2 : Counts(nx, e.session, nx2)
      BY DEF Counts
    <2>4. AgeOf(nx, e) \in 0 .. M - 1
      BY <2>1, <2>2, <2>3, Ages
    <2> QED
      BY <2>4, PktSizes
  <1>5. \A p \in OfWheel(wh, s) : EntryAt(wh, p) \in HeldOf(q, wh, s)
    BY DEF HeldOf
  <1> QED
    BY <1>3, <1>4, <1>5

\* Transmitting everything in the ready queue keeps Paced.
LEMMA SentPaced ==
  ASSUME NEW q, NEW wh, NEW tx, NEW cur, NEW prev, NEW nx, Paced(q, wh, tx, cur, prev, nx)
  PROVE  Paced(<<>>, wh, tx, cur, prev, nx)
  <1>1. /\ wh \in Wheels /\ q \in Seq(WheelEntry) /\ nx \in [Sessions -> PktNums]
        /\ Precise(q, wh, tx) /\ \A s \in Sessions : FifoOf(s, q, wh, tx, nx)
    BY DEF Paced
  <1>2. <<>> \in Seq(WheelEntry) /\ 1 .. Len(<<>>) = {}
    OBVIOUS
  <1>3. Precise(<<>>, wh, tx)
    BY <1>1, <1>2 DEF Precise
  <1>4. ASSUME NEW s \in Sessions
        PROVE  FifoOf(s, <<>>, wh, tx, nx)
    <2>1. \A p \in OfWheel(wh, s) : AgeOf(nx, EntryAt(wh, p)) \in Nat
      BY <1>1, AgeNat
    <2> QED
      BY <1>1, <2>1, SentFifo
  <1> QED
    BY <1>2, <1>3, <1>4 DEF Paced

-----------------------------------------------------------------------------
(***************************************************************************)
(* The invariant, and insert.                                              *)
(***************************************************************************)

\* No slot's time precedes the current one's; different times are W apart.
LEMMA TimedGap ==
  ASSUME NEW tx, NEW cur, Timed(tx, cur)
  PROVE  /\ \A i \in Wslots : tx[i] \in Int /\ tx[cur] <= tx[i]
         /\ \A i, j \in Wslots : tx[i] < tx[j] => tx[i] + W <= tx[j]
  <1>1. PICK d \in Nat \ {0}, c \in Wslots, t \in Int, w \in Nat \ {0} :
          d = N /\ c = cur /\ t = tx[cur] /\ w = W
    BY WheelSizes DEF Timed
  <1>2. \A i \in Wslots : \E n \in 0 .. d - 1 : (c + n) % d = i
    BY <1>1, InTurn
  <1>3. \A n \in 0 .. d - 1 : tx[(c + n) % d] = t + n * w
    BY <1>1 DEF Timed
  <1>4. ASSUME NEW i \in Wslots
        PROVE  tx[i] \in Int /\ t <= tx[i]
    <2>1. PICK n \in 0 .. d - 1 : tx[i] = t + n * w
      BY <1>2, <1>3
    <2>2. n * w \in Nat
      OBVIOUS
    <2> QED
      BY <2>1, <2>2
  <1>5. ASSUME NEW i \in Wslots, NEW j \in Wslots, tx[i] < tx[j]
        PROVE  tx[i] + w <= tx[j]
    <2>1. PICK n \in 0 .. d - 1 : tx[i] = t + n * w
      BY <1>2, <1>3
    <2>2. PICK m \in 0 .. d - 1 : tx[j] = t + m * w
      BY <1>2, <1>3
    <2>3. PICK x \in Nat, y \in Nat : x = n * w /\ y = m * w /\ x < y
      <3>1. n * w \in Nat /\ m * w \in Nat
        OBVIOUS
      <3> QED
        BY <1>5, <2>1, <2>2, <3>1
    <2>4. n + 1 <= m
      <3> SUFFICES ASSUME m <= n
                   PROVE  FALSE
        OBVIOUS
      <3>1. m * w <= n * w
        BY TimesLe
      <3> QED
        BY <2>3, <3>1
    <2>5. (n + 1) * w <= m * w /\ (n + 1) * w = n * w + w
      BY <2>4, TimesLe
    <2>6. x + w <= y
      BY <2>3, <2>5
    <2> QED
      BY <2>1, <2>2, <2>3, <2>6
  <1> QED
    BY <1>1, <1>4, <1>5

\* A packet of session s with desired time D is put into slot ws.
Enqueues(s, D, ws, q, wh, tx, prev, nx) ==
    /\ s \in Sessions /\ ws \in Wslots /\ D \in Nat /\ D <= horizon_tsc
    /\ tx[ws] - W <= D /\ D <= tx[ws]
    /\ prev[s] < D /\ (D = 0 \/ D <= prev[s] + kMaxDelta)
    /\ \A e \in HeldOf(q, wh, s) : AgeOf(nx, e) < kSessionCredits
Pkt(s, n, D) == [session |-> s, num |-> n, desired |-> D]

\* Inserting a packet keeps Paced.
LEMMA PutPaced ==
  ASSUME NEW q, NEW wh, NEW tx, NEW cur, NEW prev, NEW nx, Paced(q, wh, tx, cur, prev, nx),
         NEW s, NEW D, NEW ws, Enqueues(s, D, ws, q, wh, tx, prev, nx),
         NEW wh2, NewChain(wh, ws, Pkt(s, nx[s], D), wh2),
         NEW prev2, prev2 = [prev EXCEPT ![s] = D],
         NEW nx2, Counts(nx, s, nx2)
  PROVE  Paced(q, wh2, tx, cur, prev2, nx2)
  <1>1. /\ wh \in Wheels /\ q \in Seq(WheelEntry) /\ Timed(tx, cur) /\ tx[cur] <= W
        /\ prev \in [Sessions -> Int] /\ nx \in [Sessions -> PktNums]
        /\ Precise(q, wh, tx) /\ Recent(wh, prev)
        /\ \A t \in Sessions : FifoOf(t, q, wh, tx, nx)
        /\ \A t \in Sessions : Spaced(t, wh, prev, nx)
    BY DEF Paced
  <1>2. /\ s \in Sessions /\ ws \in Wslots /\ D \in Nat /\ D <= horizon_tsc
        /\ tx[ws] - W <= D /\ D <= tx[ws]
        /\ prev[s] < D /\ (D = 0 \/ D <= prev[s] + kMaxDelta)
        /\ \A e \in HeldOf(q, wh, s) : AgeOf(nx, e) < kSessionCredits
    BY DEF Enqueues
  <1>3. PICK ent \in WheelEntry : /\ ent = Pkt(s, nx[s], D)
                                  /\ ent.session = s /\ ent.num = nx[s] /\ ent.desired = D
    <2>1. Oldest \in Int /\ Oldest <= 0 /\ horizon_tsc \in Int
      <3>1. kMaxLag \in Nat
        BY WheelAssumption
      <3> QED
        BY <3>1, Horizon, WheelSizes DEF Oldest, W
    <2>2. D \in Oldest .. horizon_tsc /\ nx[s] \in PktNums
      BY <1>1, <1>2, <2>1
    <2>3. PICK n : n = nx[s]
      OBVIOUS
    <2>4. Pkt(s, n, D) \in WheelEntry /\ Pkt(s, n, D).session = s /\ Pkt(s, n, D).num = n
          /\ Pkt(s, n, D).desired = D
      BY <1>2, <2>2, <2>3 DEF Pkt, WheelEntry
    <2> HIDE DEF Pkt
    <2> QED
      BY <2>3, <2>4
  <1>4. PICK np : np = NewPlace(wh, ws)
    OBVIOUS
  <1>5. /\ wh2 \in Wheels /\ WheelPlaces(wh2) = WheelPlaces(wh) \cup {np}
        /\ np[1] = ws /\ np[2] \in Nat /\ np[3] \in Nat
        /\ EntryAt(wh2, np) = ent
        /\ \A p \in WheelPlaces(wh) :
              /\ p # np /\ EntryAt(wh2, p) = EntryAt(wh, p)
              /\ ~Ordered(np[2], np[3], p[2], p[3]) \/ p[1] # ws
    BY <1>1, <1>2, <1>3, <1>4, PutWheel
  <1>6. Puts(s, wh, np, ent, wh2)
    BY <1>3, <1>5 DEF Puts
  <1>7. \A p \in WheelPlaces(wh) : p[1] \in Wslots /\ EntryAt(wh, p) \in WheelEntry
    BY <1>1, InPlaces
  <1>8. /\ nx2 \in [Sessions -> PktNums]
        /\ \A e \in WheelEntry : e.session # s => AgeOf(nx2, e) = AgeOf(nx, e)
        /\ \A e \in WheelEntry : e.session = s /\ AgeOf(nx, e) < M - 1 => AgeOf(nx2, e) = AgeOf(nx, e) + 1
        /\ \A e \in WheelEntry : e.session = s /\ e.num = nx[s] => AgeOf(nx2, e) = 1
    BY <1>1, <1>2, Ages
  <1>9. AgeOf(nx2, ent) = 1
    BY <1>3, <1>8
  <1>10. ASSUME NEW e \in HeldOf(q, wh, s)
         PROVE  AgeOf(nx, e) \in Nat /\ AgeOf(nx2, e) = AgeOf(nx, e) + 1
    <2>1. e \in WheelEntry /\ e.session = s /\ AgeOf(nx, e) \in Nat
      BY <1>1, AgeNat
    <2>2. AgeOf(nx, e) < M - 1
      BY <1>2, <2>1, PktSizes
    <2> QED
      BY <1>8, <2>1, <2>2
  <1>11. ASSUME NEW t, t # s
         PROVE  \A e \in HeldOf(q, wh, t) : AgeOf(nx2, e) = AgeOf(nx, e)
    <2>1. HeldOf(q, wh, t) \subseteq {e \in WheelEntry : e.session = t}
      BY <1>1, AgeNat
    <2> QED
      BY <1>8, <1>11, <2>1
  <1>12. PICK P \in Int : P = prev[s] /\ P < D /\ D \in Nat
    BY <1>1, <1>2
  <1>13. PICK z \in Int, w \in Nat \ {0} : z = tx[ws] /\ w = W /\ z - w <= D /\ D <= z
    BY <1>1, <1>2, TimedGap, WheelSizes
  <1>14. ASSUME NEW p \in OfWheel(wh, s)
         PROVE  ~Before(tx, np, p) /\ EntryAt(wh, p).desired \in Int /\ EntryAt(wh, p).desired <= P
    <2>1. p \in WheelPlaces(wh) /\ EntryAt(wh, p).session = s
      BY DEF OfWheel
    <2>2. PICK e \in Int, y \in Int : e = EntryAt(wh, p).desired /\ y = tx[p[1]]
      BY <1>1, <1>7, <2>1, TimedGap, EntryType
    <2>3. y - w <= e /\ e <= P
      BY <1>1, <1>12, <1>13, <2>1, <2>2 DEF Precise, Recent
    <2>4. ~(z < y)
      <3> SUFFICES ASSUME z < y
                   PROVE  FALSE
        OBVIOUS
      <3>1. z + w <= y
        BY <1>1, <1>2, <1>7, <1>13, <2>1, <2>2, TimedGap
      <3> QED
        BY <1>12, <1>13, <2>3, <3>1
    <2>5. ~(ws = p[1] /\ Ordered(np[2], np[3], p[2], p[3]))
      BY <1>5, <2>1
    <2>6. ~Before(tx, np, p)
      BY <1>5, <1>13, <2>2, <2>4, <2>5 DEF Before
    <2> QED
      BY <2>2, <2>3, <2>6
  <1>15. ~Before(tx, np, np)
    <2>1. PICK b \in Nat, k \in Nat : b = np[2] /\ k = np[3]
      BY <1>5
    <2>2. ~Ordered(b, k, b, k)
      BY DEF Ordered
    <2>3. ~(z < z)
      OBVIOUS
    <2> QED
      BY <1>5, <1>13, <2>1, <2>2, <2>3 DEF Before
  <1>16. FifoOf(s, q, wh2, tx, nx2)
    BY <1>1, <1>2, <1>6, <1>9, <1>10, <1>14, <1>15, PutsFifo
  <1>17. ASSUME NEW t \in Sessions, t # s
         PROVE  FifoOf(t, q, wh2, tx, nx2)
    <2>1. \A e \in HeldOf(q, wh, t) : AgeOf(nx2, e) = AgeOf(nx, e)
      BY <1>11, <1>17
    <2> QED
      BY <1>1, <1>6, <1>17, <2>1, PutsFifoOther
  <1>18. Precise(q, wh2, tx)
    <2>1. ASSUME NEW p \in WheelPlaces(wh2)
          PROVE  tx[p[1]] - W <= EntryAt(wh2, p).desired /\ EntryAt(wh2, p).desired <= tx[p[1]]
      <3>1. CASE p = np
        BY <1>2, <1>3, <1>5, <3>1
      <3>2. CASE p \in WheelPlaces(wh)
        BY <1>1, <1>5, <3>2 DEF Precise
      <3> QED
        BY <1>5, <3>1, <3>2
    <2> QED
      BY <1>1, <2>1 DEF Precise
  <1>19. prev2 \in [Sessions -> Int] /\ prev2[s] = D /\ \A t \in Sessions : t # s => prev2[t] = prev[t]
    BY <1>1, <1>2
  <1>20. Recent(wh2, prev2)
    <2>1. ASSUME NEW p \in WheelPlaces(wh2)
          PROVE  EntryAt(wh2, p).desired <= prev2[EntryAt(wh2, p).session]
      <3>1. CASE p = np
        BY <1>3, <1>5, <1>19, <3>1
      <3>2. CASE p \in WheelPlaces(wh) /\ EntryAt(wh, p).session # s
        <4>1. EntryAt(wh, p).session \in Sessions
          BY <1>7, <3>2, EntryType
        <4> QED
          BY <1>1, <1>5, <1>19, <3>2, <4>1 DEF Recent
      <3>3. CASE p \in WheelPlaces(wh) /\ EntryAt(wh, p).session = s
        <4>1. p \in OfWheel(wh, s)
          BY <3>3 DEF OfWheel
        <4>2. PICK e \in Int : e = EntryAt(wh, p).desired /\ e <= P
          BY <1>14, <4>1
        <4>3. e <= D
          BY <1>12, <4>2
        <4> QED
          BY <1>5, <1>19, <3>3, <4>2, <4>3
      <3> QED
        BY <1>5, <3>1, <3>2, <3>3
    <2> QED
      BY <2>1 DEF Recent
  <1>21. PutHeld(s, q, wh, np, ent, wh2)
    BY <1>6, PutsHeld
  <1>22. /\ OfWheel(wh2, s) = OfWheel(wh, s) \cup {np}
         /\ \A t : t # s => OfWheel(wh2, t) = OfWheel(wh, t)
         /\ \A t, p : p \in OfWheel(wh, t) => EntryAt(wh2, p) = EntryAt(wh, p)
    BY <1>21 DEF PutHeld
  <1>23. Spaced(s, wh2, prev2, nx2)
    <2> SUFFICES ASSUME NEW T \in Nat, D > T
                 PROVE  \E p \in OfWheel(wh2, s) :
                           /\ EntryAt(wh2, p).desired > T
                           /\ D <= T + kMaxDelta * AgeOf(nx2, EntryAt(wh2, p))
      BY <1>19 DEF Spaced
    <2>1. PICK k \in Nat : k = kMaxDelta /\ D <= P + k
      <3>1. D # 0
        OBVIOUS
      <3> QED
        BY <1>2, <1>12, <3>1, Horizon
    <2>2. CASE P > T
      <3>1. PICK p \in OfWheel(wh, s) : /\ EntryAt(wh, p).desired > T
                                        /\ P <= T + k * AgeOf(nx, EntryAt(wh, p))
        BY <1>1, <1>2, <1>12, <2>1, <2>2 DEF Spaced
      <3>2. EntryAt(wh, p) \in HeldOf(q, wh, s)
        BY <1>1, AgeNat
      <3>3. PICK a \in Nat : a = AgeOf(nx, EntryAt(wh, p)) /\ AgeOf(nx2, EntryAt(wh, p)) = a + 1
        BY <1>10, <3>2
      <3>4. k * (a + 1) = k * a + k /\ k * a \in Nat
        OBVIOUS
      <3>5. D <= T + k * (a + 1)
        BY <1>12, <2>1, <3>1, <3>3, <3>4
      <3> QED
        BY <1>22, <2>1, <3>1, <3>3, <3>5
    <2>3. CASE ~(P > T)
      <3>1. D <= T + k * 1
        BY <1>12, <2>1, <2>3
      <3> QED
        BY <1>3, <1>5, <1>9, <1>22, <2>1, <3>1
    <2> QED
      BY <2>2, <2>3
  <1>24. ASSUME NEW t \in Sessions, t # s
         PROVE  Spaced(t, wh2, prev2, nx2)
    <2>1. \A p \in OfWheel(wh, t) : AgeOf(nx2, EntryAt(wh, p)) = AgeOf(nx, EntryAt(wh, p))
      BY <1>1, <1>11, <1>24, AgeNat
    <2>2. Spaced(t, wh, prev, nx) /\ prev2[t] = prev[t]
      BY <1>1, <1>19, <1>24
    <2> QED
      BY <1>22, <1>24, <2>1, <2>2 DEF Spaced
  <1>25. \A t \in Sessions : FifoOf(t, q, wh2, tx, nx2) /\ Spaced(t, wh2, prev2, nx2)
    BY <1>16, <1>17, <1>23, <1>24
  <1> QED
    BY <1>1, <1>5, <1>8, <1>18, <1>19, <1>20, <1>25 DEF Paced

-----------------------------------------------------------------------------
(***************************************************************************)
(* The invariant, and the clock.                                           *)
(***************************************************************************)

\* An entry one cycle later.
Ticked(e) == [e EXCEPT !.desired = Earlier(@)]
WheelTicks(wh, wh2) == wh2 = [i \in Wslots |-> [b \in DOMAIN wh[i] |-> Aged(wh[i][b])]]
TimesTick(tx, tx2) == tx2 = [i \in Wslots |-> tx[i] - 1]
PrevTicks(prev, prev2) == prev2 = [s \in Sessions |-> Earlier(prev[s])]

\* Oldest lies further back than any slot's time.
LEMMA OldestType == Oldest \in Int /\ Oldest <= -(kMaxLag + W) /\ Oldest < 0 /\ horizon_tsc \in Nat
  <1>1. kMaxLag \in Nat
    BY WheelAssumption
  <1> QED
    BY <1>1, Horizon, WheelSizes DEF Oldest, W

\* An entry keeps its session and number when a cycle passes.
LEMMA TickedEntry ==
  ASSUME NEW e \in WheelEntry
  PROVE  /\ Ticked(e) \in WheelEntry /\ Ticked(e).session = e.session /\ Ticked(e).num = e.num
         /\ Ticked(e).desired = Earlier(e.desired)
         /\ \A nx : AgeOf(nx, Ticked(e)) = AgeOf(nx, e)
  <1>1. PICK o \in Int, h \in Int : o = Oldest /\ h = horizon_tsc
    BY OldestType
  <1>2. PICK t \in o .. h : t = e.desired
    BY <1>1 DEF WheelEntry
  <1>3. PICK x : x = Earlier(t)
    OBVIOUS
  <1>4. x \in o .. h
    BY <1>1, <1>3 DEF Earlier
  <1>5. Ticked(e) = [e EXCEPT !.desired = x]
    BY <1>2, <1>3 DEF Ticked
  <1>6. /\ Ticked(e) \in WheelEntry /\ Ticked(e).session = e.session /\ Ticked(e).num = e.num
        /\ Ticked(e).desired = x
    BY <1>1, <1>4, <1>5 DEF WheelEntry
  <1> QED
    BY <1>2, <1>3, <1>6 DEF AgeOf

\* So do the entries of a sequence,
LEMMA TickedSeq ==
  ASSUME NEW q \in Seq(WheelEntry)
  PROVE  /\ Aged(q) \in Seq(WheelEntry) /\ Len(Aged(q)) = Len(q)
         /\ \A k \in 1 .. Len(q) : Aged(q)[k] = Ticked(q[k])
  <1>1. PICK L \in Nat : L = Len(q) /\ DOMAIN q = 1 .. L /\ \A k \in 1 .. L : q[k] \in WheelEntry
    OBVIOUS
  <1>2. PICK f : f = [k \in 1 .. L |-> Ticked(q[k])]
    OBVIOUS
  <1>3. Aged(q) = f
    BY <1>1, <1>2 DEF Aged, Ticked
  <1>4. f \in [1 .. L -> WheelEntry]
    BY <1>1, <1>2, TickedEntry
  <1>5. f \in Seq(WheelEntry) /\ Len(f) = L
    BY <1>4
  <1> QED
    BY <1>1, <1>2, <1>3, <1>5

\* and those of the wheel.
LEMMA TickedWheel ==
  ASSUME NEW wh \in Wheels, NEW wh2, WheelTicks(wh, wh2)
  PROVE  /\ wh2 \in Wheels /\ WheelPlaces(wh2) = WheelPlaces(wh)
         /\ \A p \in WheelPlaces(wh) : EntryAt(wh2, p) = Ticked(EntryAt(wh, p))
         /\ \A i \in Wslots : Len(wh2[i]) = Len(wh[i]) /\ Len(LastBkt(wh2, i)) = Len(LastBkt(wh, i))
  <1>1. ASSUME NEW i \in Wslots
        PROVE  /\ wh2[i] \in Seq(Seq(WheelEntry)) /\ wh2[i] # <<>> /\ Len(wh2[i]) = Len(wh[i])
               /\ \A b \in 1 .. Len(wh[i]) : wh2[i][b] = Aged(wh[i][b])
    <2>1. PICK L \in Nat \ {0} : L = Len(wh[i]) /\ DOMAIN wh[i] = 1 .. L
      BY WheelDef
    <2>2. \A b \in 1 .. L : Aged(wh[i][b]) \in Seq(WheelEntry)
      BY <2>1, WheelDef, TickedSeq
    <2>3. PICK f : f = [b \in 1 .. L |-> Aged(wh[i][b])]
      OBVIOUS
    <2>4. wh2[i] = f
      BY <2>1, <2>3 DEF WheelTicks
    <2>5. f \in [1 .. L -> Seq(WheelEntry)]
      BY <2>2, <2>3
    <2>6. f \in Seq(Seq(WheelEntry)) /\ Len(f) = L
      BY <2>5
    <2>7. f # <<>>
      <3>1. Len(<<>>) = 0
        OBVIOUS
      <3> QED
        BY <2>6, <3>1
    <2> QED
      BY <2>1, <2>3, <2>4, <2>6, <2>7
  <1>2. wh2 \in Wheels
    <2>1. wh2 = [i \in Wslots |-> wh2[i]]
      BY DEF WheelTicks
    <2>2. wh2 \in [Wslots -> Seq(Seq(WheelEntry))]
      BY <1>1, <2>1
    <2> QED
      BY <1>1, <2>2 DEF Wheels
  <1>3. ASSUME NEW i \in Wslots, NEW b \in 1 .. Len(wh[i])
        PROVE  /\ Len(wh2[i][b]) = Len(wh[i][b])
               /\ \A k \in 1 .. Len(wh[i][b]) : wh2[i][b][k] = Ticked(wh[i][b][k])
    <2>1. PICK z \in Seq(WheelEntry) : z = wh[i][b]
      BY WheelDef
    <2>2. wh2[i][b] = Aged(z)
      BY <1>1, <2>1
    <2> QED
      BY <2>1, <2>2, TickedSeq
  <1>4. ASSUME NEW p \in WheelPlaces(wh)
        PROVE  p \in WheelPlaces(wh2) /\ EntryAt(wh2, p) = Ticked(EntryAt(wh, p))
    <2>1. /\ p = <<p[1], p[2], p[3]>> /\ p[1] \in Wslots
          /\ p[2] \in 1 .. Len(wh[p[1]]) /\ p[3] \in 1 .. Len(wh[p[1]][p[2]])
      BY InPlaces
    <2>2. p[2] \in 1 .. Len(wh2[p[1]]) /\ p[3] \in 1 .. Len(wh2[p[1]][p[2]])
      BY <1>1, <1>3, <2>1
    <2>3. <<p[1], p[2], p[3]>> \in WheelPlaces(wh2)
      BY <1>2, <2>1, <2>2, InPlaces
    <2> QED
      BY <1>3, <2>1, <2>3 DEF EntryAt
  <1>5. ASSUME NEW p \in WheelPlaces(wh2)
        PROVE  p \in WheelPlaces(wh)
    <2>1. /\ p = <<p[1], p[2], p[3]>> /\ p[1] \in Wslots
          /\ p[2] \in 1 .. Len(wh2[p[1]]) /\ p[3] \in 1 .. Len(wh2[p[1]][p[2]])
      BY <1>2, InPlaces
    <2>2. p[2] \in 1 .. Len(wh[p[1]])
      BY <1>1, <2>1
    <2>3. p[3] \in 1 .. Len(wh[p[1]][p[2]])
      BY <1>3, <2>1, <2>2
    <2>4. <<p[1], p[2], p[3]>> \in WheelPlaces(wh)
      BY <2>1, <2>2, <2>3, InPlaces
    <2> QED
      BY <2>1, <2>4
  <1>6. ASSUME NEW i \in Wslots
        PROVE  Len(LastBkt(wh2, i)) = Len(LastBkt(wh, i))
    <2>1. Len(wh[i]) \in 1 .. Len(wh[i])
      BY WheelDef
    <2> QED
      BY <1>1, <1>3, <2>1, ZenonT(60) DEF LastBkt
  <1> QED
    BY <1>1, <1>2, <1>4, <1>5, <1>6

\* The order of a session's entries does not change when a cycle passes.
LEMMA TickFifo ==
  ASSUME NEW s, NEW q \in Seq(WheelEntry), NEW wh \in Wheels, NEW wh2, WheelTicks(wh, wh2),
         NEW tx, NEW tx2, NEW nx, FifoOf(s, q, wh, tx, nx),
         \A p, r \in WheelPlaces(wh) : Before(tx2, p, r) => Before(tx, p, r)
  PROVE  FifoOf(s, Aged(q), wh2, tx2, nx)
  <1>1. /\ WheelPlaces(wh2) = WheelPlaces(wh)
        /\ \A p \in WheelPlaces(wh) : /\ EntryAt(wh2, p) = Ticked(EntryAt(wh, p))
                                      /\ EntryAt(wh, p) \in WheelEntry
    BY TickedWheel, InPlaces
  <1>2. PICK z : /\ z = Aged(q) /\ Len(z) = Len(q)
                 /\ \A k \in 1 .. Len(q) : z[k] = Ticked(q[k]) /\ q[k] \in WheelEntry
    BY TickedSeq
  <1>3. OfQueue(z, s) = OfQueue(q, s)
    BY <1>2, TickedEntry DEF OfQueue
  <1>4. OfWheel(wh2, s) = OfWheel(wh, s)
    BY <1>1, TickedEntry DEF OfWheel
  <1>5. \A k \in OfQueue(q, s) : z[k] = Ticked(q[k]) /\ q[k] \in WheelEntry
    BY <1>2 DEF OfQueue
  <1>6. \A p \in OfWheel(wh, s) : /\ EntryAt(wh2, p) = Ticked(EntryAt(wh, p))
                                  /\ EntryAt(wh, p) \in WheelEntry /\ p \in WheelPlaces(wh)
    BY <1>1 DEF OfWheel
  <1>7. \A e \in WheelEntry : AgeOf(nx, Ticked(e)) = AgeOf(nx, e)
    BY TickedEntry
  <1>8. \A e, f \in WheelEntry : Older(nx, e, f) => Older(nx, Ticked(e), Ticked(f))
    BY <1>7 DEF Older
  <1>9. HeldOf(z, wh2, s) = {Ticked(e) : e \in HeldOf(q, wh, s)}
    BY <1>3, <1>4, <1>5, <1>6 DEF HeldOf
  <1>10. HeldOf(q, wh, s) \subseteq WheelEntry
    BY <1>5, <1>6 DEF HeldOf
  <1>11. /\ \A k, l \in OfQueue(z, s) : k < l => Older(nx, z[k], z[l])
         /\ \A k \in OfQueue(z, s), p \in OfWheel(wh2, s) : Older(nx, z[k], EntryAt(wh2, p))
    BY <1>3, <1>4, <1>5, <1>6, <1>8 DEF FifoOf
  <1>12. \A p, r \in OfWheel(wh2, s) : Before(tx2, p, r) => Older(nx, EntryAt(wh2, p), EntryAt(wh2, r))
    BY <1>4, <1>6, <1>8 DEF FifoOf
  <1>13. ASSUME NEW e \in HeldOf(z, wh2, s)
         PROVE  /\ AgeOf(nx, e) # 0
                /\ \A a \in 1 .. AgeOf(nx, e) : \E f \in HeldOf(z, wh2, s) : AgeOf(nx, f) = a
    <2>1. PICK g \in HeldOf(q, wh, s) : e = Ticked(g)
      BY <1>9
    <2>2. AgeOf(nx, e) = AgeOf(nx, g)
      BY <1>7, <1>10, <2>1
    <2>3. ASSUME NEW a \in 1 .. AgeOf(nx, g)
          PROVE  \E f \in HeldOf(z, wh2, s) : AgeOf(nx, f) = a
      <3>1. PICK f \in HeldOf(q, wh, s) : AgeOf(nx, f) = a
        BY DEF FifoOf
      <3>2. Ticked(f) \in HeldOf(z, wh2, s) /\ AgeOf(nx, Ticked(f)) = a
        BY <1>7, <1>9, <1>10, <3>1
      <3> QED
        BY <3>2
    <2> QED
      BY <2>2, <2>3 DEF FifoOf
  <1> QED
    BY <1>2, <1>11, <1>12, <1>13 DEF FifoOf

\* A cycle that passes keeps Paced.
LEMMA TickPaced ==
  ASSUME NEW q, NEW wh, NEW tx, NEW cur, NEW prev, NEW nx, Paced(q, wh, tx, cur, prev, nx),
         tx[cur] > -kMaxLag, NEW wh2, WheelTicks(wh, wh2), NEW tx2, TimesTick(tx, tx2),
         NEW prev2, PrevTicks(prev, prev2)
  PROVE  Paced(Aged(q), wh2, tx2, cur, prev2, nx)
  <1>1. /\ wh \in Wheels /\ q \in Seq(WheelEntry) /\ Timed(tx, cur) /\ tx[cur] <= W
        /\ prev \in [Sessions -> Int] /\ nx \in [Sessions -> PktNums]
        /\ Precise(q, wh, tx) /\ Recent(wh, prev)
        /\ \A t \in Sessions : FifoOf(t, q, wh, tx, nx)
        /\ \A t \in Sessions : Spaced(t, wh, prev, nx)
    BY DEF Paced
  <1>2. PICK d \in Nat \ {0}, c \in Wslots, t \in Int, w \in Nat \ {0}, g \in Nat, o \in Int :
          /\ d = N /\ c = cur /\ t = tx[cur] /\ w = W /\ g = kMaxLag /\ o = Oldest
          /\ t > -g /\ o <= -(g + w) /\ o < 0 /\ t <= w
    <2>1. kMaxLag \in Nat
      BY WheelAssumption
    <2>2. cur \in Wslots /\ tx[cur] \in Int
      BY <1>1 DEF Timed
    <2>3. N \in Nat \ {0} /\ W \in Nat \ {0}
      BY WheelSizes
    <2> QED
      BY <1>1, <2>1, <2>2, <2>3, OldestType
  <1>3. /\ \A i \in Wslots : tx[i] \in Int /\ t <= tx[i]
        /\ \A i \in Wslots : tx2[i] = tx[i] - 1
    BY <1>1, <1>2, TimedGap DEF TimesTick
  <1>4. Timed(tx2, cur) /\ tx2[cur] <= W
    <2>1. tx2 \in [Wslots -> Int]
      <3>1. \A i \in Wslots : tx[i] - 1 \in Int
        BY <1>3
      <3> QED
        BY <3>1 DEF TimesTick
    <2>2. ASSUME NEW n \in 0 .. d - 1
          PROVE  tx2[(c + n) % d] = tx2[c] + n * w
      <3>1. (c + n) % d \in Wslots
        BY <1>2, InTurn
      <3>2. tx[(c + n) % d] = t + n * w
        BY <1>1, <1>2 DEF Timed
      <3>3. PICK x \in Nat : x = n * w
        <4>1. n * w \in Nat
          OBVIOUS
        <4> QED
          BY <4>1
      <3>4. (t + x) - 1 = (t - 1) + x
        OBVIOUS
      <3> QED
        BY <1>2, <1>3, <3>1, <3>2, <3>3, <3>4
    <2>3. t - 1 <= w
      BY <1>2
    <2> QED
      BY <1>2, <1>3, <2>1, <2>2, <2>3 DEF Timed
  <1>5. /\ wh2 \in Wheels /\ WheelPlaces(wh2) = WheelPlaces(wh)
        /\ \A p \in WheelPlaces(wh) : EntryAt(wh2, p) = Ticked(EntryAt(wh, p))
    BY <1>1, TickedWheel
  <1>6. \A p \in WheelPlaces(wh) : p[1] \in Wslots /\ EntryAt(wh, p) \in WheelEntry
    BY <1>1, InPlaces
  <1>7. Aged(q) \in Seq(WheelEntry)
    BY <1>1, TickedSeq
  <1>8. ASSUME NEW p \in WheelPlaces(wh)
        PROVE  \E e \in Int, y \in Int :
                  /\ e = EntryAt(wh, p).desired /\ y = tx[p[1]] /\ tx2[p[1]] = y - 1
                  /\ y - w <= e /\ e <= y /\ EntryAt(wh2, p).desired = e - 1
                  /\ EntryAt(wh2, p).session = EntryAt(wh, p).session
    <2>1. PICK e \in Int, y \in Int : e = EntryAt(wh, p).desired /\ y = tx[p[1]] /\ t <= y
      BY <1>3, <1>6, EntryType
    <2>2. y - w <= e /\ e <= y
      BY <1>1, <1>2, <2>1 DEF Precise
    <2>3. e > o
      BY <1>2, <2>1, <2>2
    <2>4. EntryAt(wh2, p).desired = Earlier(e) /\ EntryAt(wh2, p).session = EntryAt(wh, p).session
      BY <1>5, <1>6, <2>1, TickedEntry
    <2>5. Earlier(e) = e - 1
      BY <1>2, <2>3 DEF Earlier
    <2> QED
      BY <1>3, <1>6, <2>1, <2>2, <2>4, <2>5
  <1>9. Precise(Aged(q), wh2, tx2)
    <2>1. ASSUME NEW p \in WheelPlaces(wh)
          PROVE  tx2[p[1]] - W <= EntryAt(wh2, p).desired /\ EntryAt(wh2, p).desired <= tx2[p[1]]
      <3>1. PICK e \in Int, y \in Int : /\ tx2[p[1]] = y - 1 /\ y - w <= e /\ e <= y
                                        /\ EntryAt(wh2, p).desired = e - 1
        BY <1>8
      <3>2. (y - 1) - w <= e - 1 /\ e - 1 <= y - 1
        BY <3>1
      <3> QED
        BY <1>2, <3>1, <3>2
    <2>2. ASSUME NEW k \in 1 .. Len(q)
          PROVE  Aged(q)[k].desired <= 0
      <3>1. PICK e \in Int : e = q[k].desired /\ e <= 0
        BY <1>1, EntryType DEF Precise
      <3>2. q[k] \in WheelEntry
        BY <1>1
      <3>3. Aged(q)[k].desired = Earlier(e)
        BY <1>1, <3>1, <3>2, TickedSeq, TickedEntry
      <3>4. Earlier(e) <= 0
        BY <1>2, <3>1 DEF Earlier
      <3> QED
        BY <3>3, <3>4
    <2>3. Len(Aged(q)) = Len(q)
      BY <1>1, TickedSeq
    <2> QED
      BY <1>5, <2>1, <2>2, <2>3 DEF Precise
  <1>10. prev2 \in [Sessions -> Int] /\ \A s \in Sessions : prev2[s] = Earlier(prev[s])
    <2>1. ASSUME NEW x \in Int
          PROVE  Earlier(x) \in Int
      BY <1>2 DEF Earlier
    <2> QED
      BY <1>1, <2>1 DEF PrevTicks
  <1>11. Recent(wh2, prev2)
    <2>1. ASSUME NEW p \in WheelPlaces(wh)
          PROVE  EntryAt(wh2, p).desired <= prev2[EntryAt(wh2, p).session]
      <3>1. PICK e \in Int, y \in Int : /\ e = EntryAt(wh, p).desired
                                        /\ EntryAt(wh2, p).desired = e - 1
                                        /\ EntryAt(wh2, p).session = EntryAt(wh, p).session
        BY <1>8
      <3>2. PICK s \in Sessions : s = EntryAt(wh, p).session
        BY <1>6, EntryType
      <3>3. PICK x \in Int : x = prev[s] /\ e <= x
        BY <1>1, <3>1, <3>2 DEF Recent
      <3>4. e - 1 <= Earlier(x)
        BY <1>2, <3>3 DEF Earlier
      <3> QED
        BY <1>10, <3>1, <3>2, <3>3, <3>4
    <2> QED
      BY <1>5, <2>1 DEF Recent
  <1>12. ASSUME NEW s \in Sessions
         PROVE  FifoOf(s, Aged(q), wh2, tx2, nx)
    <2>1. ASSUME NEW p \in WheelPlaces(wh), NEW r \in WheelPlaces(wh), Before(tx2, p, r)
          PROVE  Before(tx, p, r)
      <3>1. PICK x \in Int, y \in Int : /\ x = tx[p[1]] /\ y = tx[r[1]]
                                        /\ tx2[p[1]] = x - 1 /\ tx2[r[1]] = y - 1
        BY <1>3, <1>6
      <3>2. x - 1 < y - 1 => x < y
        OBVIOUS
      <3> QED
        BY <2>1, <3>1, <3>2 DEF Before
    <2> QED
      BY <1>1, <2>1, TickFifo
  <1>13. ASSUME NEW s \in Sessions
         PROVE  Spaced(s, wh2, prev2, nx)
    <2>1. PICK x \in Int : x = prev[s]
      BY <1>1
    <2> SUFFICES ASSUME NEW T \in Nat, prev2[s] > T
                 PROVE  \E p \in OfWheel(wh2, s) :
                           /\ EntryAt(wh2, p).desired > T
                           /\ prev2[s] <= T + kMaxDelta * AgeOf(nx, EntryAt(wh2, p))
      BY DEF Spaced
    <2>2. prev2[s] = x - 1 /\ x > T + 1
      <3>1. prev2[s] = Earlier(x)
        BY <1>10, <2>1
      <3>2. x > o
        <4> SUFFICES ASSUME x <= o
                     PROVE  FALSE
          OBVIOUS
        <4>1. Earlier(x) = x
          BY <1>2 DEF Earlier
        <4> QED
          BY <1>2, <3>1, <4>1
      <3>3. Earlier(x) = x - 1
        BY <1>2, <3>2 DEF Earlier
      <3> QED
        BY <3>1, <3>3
    <2>3. PICK p \in OfWheel(wh, s) : /\ EntryAt(wh, p).desired > T + 1
                                      /\ x <= (T + 1) + kMaxDelta * AgeOf(nx, EntryAt(wh, p))
      BY <1>1, <2>1, <2>2 DEF Spaced
    <2>4. p \in WheelPlaces(wh) /\ EntryAt(wh, p).session = s
      BY DEF OfWheel
    <2>5. PICK e \in Int, y \in Int : /\ e = EntryAt(wh, p).desired
                                      /\ EntryAt(wh2, p).desired = e - 1
                                      /\ EntryAt(wh2, p).session = EntryAt(wh, p).session
      BY <1>8, <2>4
    <2>6. PICK a \in Nat, k \in Nat : /\ a = AgeOf(nx, EntryAt(wh, p)) /\ k = kMaxDelta
                                      /\ AgeOf(nx, EntryAt(wh2, p)) = a
      <3>1. AgeOf(nx, EntryAt(wh, p)) \in Nat
        BY <1>1, AgeNat
      <3>2. AgeOf(nx, EntryAt(wh2, p)) = AgeOf(nx, EntryAt(wh, p))
        BY <1>5, <1>6, <2>4, TickedEntry
      <3> QED
        BY <3>1, <3>2, Horizon
    <2>7. e - 1 > T /\ x - 1 <= T + k * a
      <3>1. PICK z \in Nat : z = k * a
        <4>1. k * a \in Nat
          OBVIOUS
        <4> QED
          BY <4>1
      <3> QED
        BY <2>3, <2>5, <2>6, <3>1
    <2>8. p \in OfWheel(wh2, s)
      BY <1>5, <2>4, <2>5 DEF OfWheel
    <2> QED
      BY <2>2, <2>5, <2>6, <2>7, <2>8
  <1> QED
    BY <1>1, <1>4, <1>5, <1>7, <1>9, <1>10, <1>11, <1>12, <1>13 DEF Paced

-----------------------------------------------------------------------------
(***************************************************************************)
(* The steps of the wheel.                                                 *)
(***************************************************************************)

\* What a session asks for: the time of the next packet lies within the horizon.
LEMMA Asked ==
  ASSUME SlotsCover, PacketsTakeTime,
         Paced(ready_queue, wheel, tx_tsc, cur_wslot, prev_desired, pkt_next),
         timely_rate \in [Sessions -> kMinRate .. kLinkBandwidth],
         NEW s \in Sessions, NEW z \in 1 .. kMTU, InWheel(s) < kSessionCredits
  PROVE  /\ cc_getupdate_tx_tsc(s, z) \in Nat /\ cc_getupdate_tx_tsc(s, z) <= horizon_tsc
         /\ prev_desired[s] < cc_getupdate_tx_tsc(s, z)
         /\ \/ cc_getupdate_tx_tsc(s, z) = 0
            \/ cc_getupdate_tx_tsc(s, z) <= prev_desired[s] + kMaxDelta
         /\ \A e \in HeldOf(ready_queue, wheel, s) : AgeOf(pkt_next, e) < kSessionCredits
  <1>1. /\ wheel \in Wheels /\ ready_queue \in Seq(WheelEntry) /\ prev_desired \in [Sessions -> Int]
        /\ pkt_next \in [Sessions -> PktNums] /\ Spaced(s, wheel, prev_desired, pkt_next)
        /\ FifoOf(s, ready_queue, wheel, tx_tsc, pkt_next)
    BY DEF Paced
  <1>2. InWheel(s) = Cardinality(OfWheel(wheel, s)) + Cardinality(OfQueue(ready_queue, s))
    <2>1. DOMAIN ready_queue = 1 .. Len(ready_queue)
      BY <1>1
    <2>2. WheelOf(s) = OfWheel(wheel, s)
      BY DEF WheelOf, OfWheel
    <2>3. ReadyOf(s) = OfQueue(ready_queue, s)
      BY <2>1 DEF ReadyOf, OfQueue
    <2> QED
      BY <2>2, <2>3 DEF InWheel
  <1>3. kSessionCredits \in Nat \ {0} /\ kMaxDelta \in Nat /\ horizon_tsc \in Nat
        /\ kSessionCredits * kMaxDelta <= horizon_tsc
    BY Horizon, PktSizes
  <1>4. ASSUME NEW e \in HeldOf(ready_queue, wheel, s)
        PROVE  AgeOf(pkt_next, e) \in Nat /\ AgeOf(pkt_next, e) < kSessionCredits
    <2>1. AgeOf(pkt_next, e) \in Nat
      BY <1>1, <1>4, AgeNat
    <2>2. PICK cw, cq \in Nat : /\ cw = Cardinality(OfWheel(wheel, s))
                                /\ cq = Cardinality(OfQueue(ready_queue, s))
                                /\ AgeOf(pkt_next, e) <= cw + cq
      BY <1>1, <1>4, <2>1, AgeBound
    <2>3. cw + cq < kSessionCredits
      BY <1>2, <2>2
    <2> QED
      BY <1>3, <2>1, <2>2, <2>3
  <1>5. PICK p, d \in Int, c \in Nat, m \in Nat, h \in Nat :
           /\ p = prev_desired[s] /\ c = kSessionCredits /\ m = kMaxDelta /\ h = horizon_tsc
           /\ d = (z * FreqNum) \div (FreqDen * timely_rate[s])
           /\ 1 <= d /\ d <= m
    <2>1. timely_rate[s] \in kMinRate .. kLinkBandwidth /\ prev_desired[s] \in Int
      BY <1>1
    <2> QED
      BY <1>3, <2>1, Delay
  <1>6. cc_getupdate_tx_tsc(s, z) = IF p + d >= 0 THEN p + d ELSE 0
    BY <1>5 DEF cc_getupdate_tx_tsc, MaxOf
  <1>7. c * m <= h /\ c >= 1 /\ m <= c * m
    <2>1. c * m <= h /\ c >= 1
      BY <1>3, <1>5
    <2>2. 1 * m <= c * m
      BY <2>1, <1>5, TimesLe
    <2> QED
      BY <2>1, <2>2
  <1>8. p + d <= h
    <2>1. CASE p <= 0
      BY <2>1, <1>5, <1>7
    <2>2. CASE p > 0
      <3>1. PICK x \in OfWheel(wheel, s) : p <= 0 + kMaxDelta * AgeOf(pkt_next, EntryAt(wheel, x))
        BY <1>1, <1>5, <2>2 DEF Spaced
      <3>2. EntryAt(wheel, x) \in HeldOf(ready_queue, wheel, s)
        BY <3>1, <1>1, AgeNat
      <3>3. PICK a \in Nat : a = AgeOf(pkt_next, EntryAt(wheel, x)) /\ a < c
        BY <3>2, <1>4, <1>5
      <3>4. p <= m * a
        BY <3>1, <3>3, <1>5
      <3>5. m * (a + 1) <= m * c
        BY <3>3, <1>5, TimesLe
      <3>6. m * (a + 1) = m * a + m /\ m * c = c * m /\ m * a \in Nat /\ c * m \in Nat
        BY <3>3, <1>5
      <3>7. ASSUME NEW u \in Nat, NEW v \in Nat, p <= u, u + m <= v, v <= h
            PROVE  p + d <= h
        BY <1>5, <3>7
      <3> QED
        BY <3>4, <3>5, <3>6, <3>7, <1>7
    <2> QED
      BY <2>1, <2>2, <1>5
  <1> QED
    <2>1. ASSUME NEW g, g = IF p + d >= 0 THEN p + d ELSE 0
          PROVE  g \in Nat /\ g <= h /\ p < g /\ (g = 0 \/ g <= p + m)
      BY <2>1, <1>5, <1>8
    <2> QED
      BY <2>1, <1>6, <1>5, <1>4

\* What insert_into_wslot does.
LEMMA Inserts ==
  ASSUME NEW r, r.wheel \in Wheels, NEW ws \in Wslots, NEW ent \in WheelEntry,
         num_to_alloc \in Nat \ {0}, insert_into_wslot(r, ws, ent)
  PROVE  /\ NewChain(r.wheel, ws, ent, wheel')
         /\ bkt_pool' = PoolAfter(r.wheel, ws, r.pool, num_to_alloc)
         /\ bkt_total' = TotalAfter(r.wheel, ws, r.pool, bkt_total, num_to_alloc)
         /\ num_to_alloc' \in Nat \ {0}
  <1>1. Put(r.wheel, ws, ent, wheel')
    BY DEF insert_into_wslot, Put
  <1>2. NewChain(r.wheel, ws, ent, wheel')
    BY <1>1, PutChain
  <1>3. LastBkt(r.wheel, ws) \in Seq(WheelEntry)
    <2>1. /\ Len(r.wheel[ws]) \in Nat \ {0}
          /\ \A b \in 1 .. Len(r.wheel[ws]) : r.wheel[ws][b] \in Seq(WheelEntry)
      BY WheelDef
    <2> QED
      BY <2>1 DEF LastBkt
  <1>4. (Len(Append(r.wheel[ws][Len(r.wheel[ws])], ent)) = kWheelBucketCap) <=> Full(r.wheel, ws)
    <2>1. Len(Append(LastBkt(r.wheel, ws), ent)) = Len(LastBkt(r.wheel, ws)) + 1
      BY <1>3
    <2> QED
      BY <2>1 DEF Full, LastBkt
  <1>5. bkt_pool' = PoolAfter(r.wheel, ws, r.pool, num_to_alloc)
    BY <1>4 DEF insert_into_wslot, PoolAfter
  <1>6. bkt_total' = TotalAfter(r.wheel, ws, r.pool, bkt_total, num_to_alloc)
    BY <1>4 DEF insert_into_wslot, TotalAfter
  <1>7. num_to_alloc' = num_to_alloc \/ num_to_alloc' = 2 * num_to_alloc
    BY DEF insert_into_wslot
  <1>8. num_to_alloc' \in Nat \ {0}
    BY <1>7
  <1> QED
    BY <1>2, <1>5, <1>6, <1>8

\* The inductive invariant.
WheelInv ==
    /\ Paced(ready_queue, wheel, tx_tsc, cur_wslot, prev_desired, pkt_next)
    /\ Buckets(wheel, bkt_pool, bkt_total)
    /\ num_to_alloc \in Nat \ {0} /\ timely_rate \in [Sessions -> kMinRate .. kLinkBandwidth]
    /\ wheel_bad = FALSE /\ wheel_up \in BOOLEAN

\* enqueue_wheel preserves the invariant; none of insert's assertions fails.
LEMMA EnqueuePaces ==
  ASSUME SlotsCover, PacketsTakeTime, WheelInv,
         NEW s \in Sessions, NEW z \in 1 .. kMTU, enqueue_wheel(s, z)
  PROVE  WheelInv'
  <1>1. /\ Paced(ready_queue, wheel, tx_tsc, cur_wslot, prev_desired, pkt_next)
        /\ Buckets(wheel, bkt_pool, bkt_total) /\ num_to_alloc \in Nat \ {0}
        /\ timely_rate \in [Sessions -> kMinRate .. kLinkBandwidth] /\ wheel_bad = FALSE
        /\ wheel_up \in BOOLEAN
    BY DEF WheelInv
  <1>2. PICK r, D : r = reap /\ D = cc_getupdate_tx_tsc(s, z)
    OBVIOUS
  <1>3. /\ InWheel(s) < kSessionCredits
        /\ wheel_bad' = (\/ wheel_bad
                         \/ D > horizon_tsc
                         \/ r.tx_tsc[r.cur] <= 0
                         \/ wslot_delta(r, D) >= kWheelNumWslots)
        /\ prev_desired' = [prev_desired EXCEPT ![s] = D]
        /\ pkt_next' = [pkt_next EXCEPT ![s] = (@ + 1) % Cardinality(PktNums)]
        /\ insert_into_wslot(r, dst_wslot(r, D),
               [session |-> s, num |-> pkt_next[s], desired |-> D])
        /\ tx_tsc' = r.tx_tsc /\ cur_wslot' = r.cur /\ ready_queue' = r.ready
        /\ timely_rate' = timely_rate /\ wheel_up' = wheel_up
    BY <1>2 DEF enqueue_wheel
  <1>4. /\ Paced(r.ready, r.wheel, r.tx_tsc, r.cur, prev_desired, pkt_next)
        /\ r.tx_tsc[r.cur] > 0
        /\ HeldOf(r.ready, r.wheel, s) = HeldOf(ready_queue, wheel, s)
    BY <1>1, <1>2, ReapPaced
  <1>5. Timed(tx_tsc, cur_wslot) /\ wheel \in Wheels /\ pkt_next \in [Sessions -> PktNums]
    BY <1>1 DEF Paced
  <1>6. Buckets(r.wheel, r.pool, bkt_total)
    BY <1>1, <1>2, <1>5, ReapBuckets
  <1>7. Timed(r.tx_tsc, r.cur) /\ r.tx_tsc[r.cur] <= W /\ r.wheel \in Wheels
    BY <1>4 DEF Paced
  <1>8. /\ D \in Nat /\ D <= horizon_tsc /\ prev_desired[s] < D
        /\ (D = 0 \/ D <= prev_desired[s] + kMaxDelta)
        /\ \A e \in HeldOf(ready_queue, wheel, s) : AgeOf(pkt_next, e) < kSessionCredits
    BY <1>1, <1>2, <1>3, Asked
  <1>9. /\ wslot_delta(r, D) < kWheelNumWslots /\ dst_wslot(r, D) \in Wslots
        /\ r.tx_tsc[dst_wslot(r, D)] - W <= D /\ D <= r.tx_tsc[dst_wslot(r, D)]
    BY <1>4, <1>7, <1>8, Slot
  <1>10. wheel_bad' = FALSE
    <2>1. ~(r.tx_tsc[r.cur] <= 0)
      <3>1. r.tx_tsc[r.cur] \in Int
        BY <1>7 DEF Timed
      <3> QED
        BY <3>1, <1>4
    <2>2. ~(D > horizon_tsc)
      BY <1>8, Horizon
    <2>3. ~(wslot_delta(r, D) >= kWheelNumWslots)
      <3>1. kWheelNumWslots \in Int
        BY WheelSizes DEF N
      <3>2. wslot_delta(r, D) \in Int
        <4>1. r.tx_tsc[r.cur] \in Int /\ wslot_width_tsc \in Nat \ {0}
          BY <1>7, WheelSizes DEF Timed, W
        <4>2. ASSUME NEW t \in Int, NEW w \in Nat \ {0}, NEW x \in Nat
              PROVE  1 + (x - t) \div w \in Int
          OBVIOUS
        <4> QED
          BY <4>1, <4>2, <1>8 DEF wslot_delta
      <3> QED
        BY <3>1, <3>2, <1>9
    <2> QED
      BY <2>1, <2>2, <2>3, <1>1, <1>3
  <1>11. PICK ws \in Wslots, ent \in WheelEntry :
            ws = dst_wslot(r, D) /\ ent = Pkt(s, pkt_next[s], D)
    <2>1. Oldest \in Int /\ Oldest < 0 /\ horizon_tsc \in Nat
      BY OldestType
    <2>2. D \in Oldest .. horizon_tsc
      BY <2>1, <1>8
    <2>3. Pkt(s, pkt_next[s], D) \in WheelEntry
      BY <2>2, <1>5 DEF Pkt, WheelEntry
    <2> QED
      BY <2>3, <1>9
  <1>12. insert_into_wslot(r, ws, ent)
    BY <1>3, <1>11 DEF Pkt
  <1>13. /\ NewChain(r.wheel, ws, ent, wheel')
         /\ bkt_pool' = PoolAfter(r.wheel, ws, r.pool, num_to_alloc)
         /\ bkt_total' = TotalAfter(r.wheel, ws, r.pool, bkt_total, num_to_alloc)
         /\ num_to_alloc' \in Nat \ {0}
    BY <1>12, <1>1, <1>7, Inserts
  <1>14. Buckets(wheel', bkt_pool', bkt_total')
    BY <1>13, <1>1, <1>6, <1>7, PutBuckets
  <1>15. Counts(pkt_next, s, pkt_next')
    BY <1>3, PktSizes DEF Counts
  <1>16. Enqueues(s, D, ws, r.ready, r.wheel, r.tx_tsc, prev_desired, pkt_next)
    BY <1>4, <1>8, <1>9, <1>11 DEF Enqueues
  <1>17. NewChain(r.wheel, ws, Pkt(s, pkt_next[s], D), wheel')
    BY <1>11, <1>13
  <1>18. Paced(r.ready, wheel', r.tx_tsc, r.cur, prev_desired', pkt_next')
    BY <1>3, <1>4, <1>15, <1>16, <1>17, PutPaced
  <1> QED
    BY <1>1, <1>3, <1>10, <1>13, <1>14, <1>18 DEF WheelInv

\* process_wheel_st and catchup preserve it.
LEMMA ReapPaces ==
  ASSUME WheelInv, process_wheel_st \/ catchup
  PROVE  WheelInv'
  <1>1. /\ Paced(ready_queue, wheel, tx_tsc, cur_wslot, prev_desired, pkt_next)
        /\ Buckets(wheel, bkt_pool, bkt_total) /\ num_to_alloc \in Nat \ {0}
        /\ timely_rate \in [Sessions -> kMinRate .. kLinkBandwidth] /\ wheel_bad = FALSE
        /\ wheel_up \in BOOLEAN
    BY DEF WheelInv
  <1>2. PICK r : r = reap
    OBVIOUS
  <1>3. /\ wheel' = r.wheel /\ tx_tsc' = r.tx_tsc /\ cur_wslot' = r.cur /\ bkt_pool' = r.pool
        /\ ready_queue' = r.ready \/ ready_queue' = <<>>
        /\ num_to_alloc' = num_to_alloc /\ bkt_total' = bkt_total /\ prev_desired' = prev_desired
        /\ timely_rate' = timely_rate /\ pkt_next' = pkt_next /\ wheel_bad' = wheel_bad
        /\ wheel_up' \in BOOLEAN
    BY <1>1, <1>2 DEF process_wheel_st, catchup
  <1>4. Paced(r.ready, r.wheel, r.tx_tsc, r.cur, prev_desired, pkt_next)
    BY <1>1, <1>2, ReapPaced
  <1>5. Paced(<<>>, r.wheel, r.tx_tsc, r.cur, prev_desired, pkt_next)
    BY <1>4, SentPaced
  <1>6. Timed(tx_tsc, cur_wslot) /\ wheel \in Wheels
    BY <1>1 DEF Paced
  <1>7. Buckets(r.wheel, r.pool, bkt_total)
    BY <1>1, <1>2, <1>6, ReapBuckets
  <1> QED
    BY <1>1, <1>3, <1>4, <1>5, <1>7 DEF WheelInv

\* wheel_tick preserves it.
LEMMA TickPaces ==
  ASSUME WheelInv, wheel_tick
  PROVE  WheelInv'
  <1>1. /\ Paced(ready_queue, wheel, tx_tsc, cur_wslot, prev_desired, pkt_next)
        /\ Buckets(wheel, bkt_pool, bkt_total) /\ num_to_alloc \in Nat \ {0}
        /\ timely_rate \in [Sessions -> kMinRate .. kLinkBandwidth] /\ wheel_bad = FALSE
        /\ wheel_up \in BOOLEAN
    BY DEF WheelInv
  <1>2. /\ tx_tsc[cur_wslot] > -kMaxLag /\ WheelTicks(wheel, wheel') /\ TimesTick(tx_tsc, tx_tsc')
        /\ PrevTicks(prev_desired, prev_desired') /\ ready_queue' = Aged(ready_queue)
        /\ cur_wslot' = cur_wslot /\ bkt_pool' = bkt_pool /\ bkt_total' = bkt_total
        /\ num_to_alloc' = num_to_alloc /\ timely_rate' = timely_rate /\ pkt_next' = pkt_next
        /\ wheel_bad' = wheel_bad /\ wheel_up' = wheel_up
    BY DEF wheel_tick, WheelTicks, TimesTick, PrevTicks
  <1>3. Paced(ready_queue', wheel', tx_tsc', cur_wslot', prev_desired', pkt_next')
    BY <1>1, <1>2, TickPaced
  <1>4. wheel \in Wheels
    BY <1>1 DEF Paced
  <1>5. \A i \in Wslots : /\ Len(wheel'[i]) = Len(wheel[i])
                          /\ Len(LastBkt(wheel', i)) = Len(LastBkt(wheel, i))
    BY <1>2, <1>4, TickedWheel
  <1>6. Chained(wheel', Wslots) = Chained(wheel, Wslots)
    <2>1. PICK wh2 : wh2 = wheel'
      OBVIOUS
    <2>2. \A i \in Wslots : Len(wh2[i]) = Len(wheel[i])
      BY <1>5, <2>1
    <2>3. \A x : x \in Chained(wh2, Wslots) <=> x \in Chained(wheel, Wslots)
      BY <2>2, InChained
    <2>4. Chained(wh2, Wslots) = Chained(wheel, Wslots)
      BY <2>3
    <2> QED
      BY <2>1, <2>4
  <1>7. Buckets(wheel', bkt_pool', bkt_total')
    BY <1>1, <1>2, <1>5, <1>6 DEF Buckets
  <1> QED
    BY <1>1, <1>2, <1>3, <1>7 DEF WheelInv

\* update_rate preserves it: the rate stays between the bounds.
LEMMA RatePaces ==
  ASSUME WheelInv, NEW s \in Sessions, NEW n \in 0 .. kLinkBandwidth, update_rate(s, n)
  PROVE  WheelInv'
  <1>1. PICK lo \in Nat, hi \in Nat : lo = kMinRate /\ hi = kLinkBandwidth /\ lo <= hi
    BY WheelAssumption
  <1>2. timely_rate \in [Sessions -> kMinRate .. kLinkBandwidth]
    BY DEF WheelInv
  <1>3. PICK c : c = CeilDiv(timely_rate[s], 2)
    OBVIOUS
  <1>4. c \in Int
    <2>1. timely_rate[s] \in Nat
      BY <1>1, <1>2
    <2> QED
      BY <2>1, <1>3 DEF CeilDiv
  <1>5. MaxOf(MinOf(MaxOf(n, c), kLinkBandwidth), kMinRate) \in kMinRate .. kLinkBandwidth
    <2>1. n \in Int
      BY <1>1
    <2>2. MaxOf(MinOf(MaxOf(n, c), hi), lo) \in lo .. hi
      BY <2>1, <1>1, <1>4 DEF MaxOf, MinOf
    <2> QED
      BY <2>2, <1>1
  <1>6. timely_rate' \in [Sessions -> kMinRate .. kLinkBandwidth]
    <2>1. timely_rate' = [timely_rate EXCEPT ![s] = MaxOf(MinOf(MaxOf(n, c), kLinkBandwidth), kMinRate)]
      BY <1>3 DEF update_rate
    <2> QED
      BY <2>1, <1>2, <1>5
  <1> QED
    BY <1>6 DEF WheelInv, update_rate

\* The wheel that the constructor makes satisfies it.
LEMMA InitPaces == ASSUME WheelInit PROVE WheelInv
  <1>1. /\ wheel = [i \in Wslots |-> EmptyChain]
        /\ tx_tsc = [i \in Wslots |-> (i + 1) * W]
        /\ cur_wslot = 0 /\ ready_queue = <<>>
        /\ bkt_pool = 0 /\ num_to_alloc = kPoolStart /\ bkt_total = 0
        /\ prev_desired = [s \in Sessions |-> Oldest]
        /\ timely_rate = [s \in Sessions |-> kLinkBandwidth]
        /\ pkt_next = [s \in Sessions |-> 0]
        /\ wheel_bad = FALSE /\ wheel_up = FALSE
    BY DEF WheelInit, W
  <1>2. N \in Nat \ {0} /\ W \in Nat \ {0} /\ Wslots = 0 .. N - 1
    BY WheelSizes
  <1>3. EmptyChain \in Seq(Seq(WheelEntry)) /\ EmptyChain # <<>> /\ Len(EmptyChain) = 1
        /\ EmptyChain[1] = <<>>
    BY DEF EmptyChain
  <1>4. wheel \in Wheels
    BY <1>1, <1>3 DEF Wheels
  <1>5. WheelPlaces(wheel) = {}
    <2>1. ASSUME NEW p \in WheelPlaces(wheel)
          PROVE  FALSE
      <3>1. p[1] \in Wslots /\ p[2] \in 1 .. Len(wheel[p[1]]) /\ p[3] \in 1 .. Len(wheel[p[1]][p[2]])
        BY <2>1, <1>4, InPlaces
      <3>2. wheel[p[1]] = EmptyChain
        BY <3>1, <1>1
      <3>3. p[2] = 1
        BY <3>1, <3>2, <1>3
      <3>4. p[3] \in 1 .. Len(<<>>)
        BY <3>1, <3>2, <3>3, <1>3
      <3> QED
        BY <3>4
    <2> QED
      BY <2>1
  <1>6. Chained(wheel, Wslots) = {}
    <2>1. 2 .. 1 = {}
      OBVIOUS
    <2>2. \A i \in Wslots : Len(wheel[i]) = 1
      BY <1>1, <1>3
    <2>3. ASSUME NEW x \in Chained(wheel, Wslots)
          PROVE  FALSE
      <3>1. \E i \in Wslots : \E b \in 2 .. Len(wheel[i]) : x = <<i, b>>
        BY <2>3, InChained
      <3>2. PICK i \in Wslots : \E b \in 2 .. Len(wheel[i]) : TRUE
        BY <3>1
      <3>3. Len(wheel[i]) = 1
        BY <2>2
      <3> QED
        BY <2>1, <3>2, <3>3
    <2> QED
      BY <2>3
  <1>7. kWheelBucketCap \in Nat \ {0} /\ kPoolStart \in Nat \ {0}
        /\ kMinRate \in Nat /\ kLinkBandwidth \in Nat /\ kMinRate <= kLinkBandwidth
    BY WheelAssumption
  <1>8. Buckets(wheel, bkt_pool, bkt_total)
    <2>1. \A i \in Wslots : Len(LastBkt(wheel, i)) < kWheelBucketCap
      <3>1. \A i \in Wslots : LastBkt(wheel, i) = <<>>
        BY <1>1, <1>3 DEF LastBkt
      <3> QED
        BY <3>1, <1>7
    <2>2. Cardinality(Chained(wheel, Wslots)) = 0
      BY <1>6, FS_EmptySet
    <2> QED
      BY <2>1, <2>2, <1>1 DEF Buckets
  <1>9. Timed(tx_tsc, cur_wslot) /\ tx_tsc[cur_wslot] = W
    <2>1. tx_tsc \in [Wslots -> Int] /\ cur_wslot \in Wslots
      BY <1>1, <1>2
    <2>2. tx_tsc[cur_wslot] = W
      BY <1>1, <1>2
    <2>3. ASSUME NEW n \in 0 .. N - 1
          PROVE  tx_tsc[(cur_wslot + n) % N] = tx_tsc[cur_wslot] + n * W
      <3>1. n \in Nat /\ n < N
        BY <1>2
      <3>2. cur_wslot + n = n
        BY <1>1, <3>1
      <3>3. n % N = n
        BY <3>1, <1>2, ModOf
      <3>4. tx_tsc[n] = (n + 1) * W
        BY <1>1, <1>2, <2>3
      <3>5. (n + 1) * W = W + n * W
        BY <3>1, <1>2
      <3> QED
        BY <3>2, <3>3, <3>4, <3>5, <2>2
    <2> QED
      BY <2>1, <2>2, <2>3 DEF Timed
  <1>10. Oldest \in Int /\ Oldest < 0
    BY OldestType
  <1>11. prev_desired \in [Sessions -> Int] /\ pkt_next \in [Sessions -> PktNums]
    <2>1. 0 \in PktNums
      BY PktSizes
    <2> QED
      BY <2>1, <1>1, <1>10
  <1>12. ready_queue \in Seq(WheelEntry) /\ 1 .. Len(ready_queue) = {}
    BY <1>1
  <1>13. Precise(ready_queue, wheel, tx_tsc) /\ Recent(wheel, prev_desired)
    BY <1>5, <1>12 DEF Precise, Recent
  <1>14. ASSUME NEW s \in Sessions
         PROVE  /\ FifoOf(s, ready_queue, wheel, tx_tsc, pkt_next)
                /\ Spaced(s, wheel, prev_desired, pkt_next)
    <2>1. OfQueue(ready_queue, s) = {} /\ OfWheel(wheel, s) = {}
      BY <1>5, <1>12 DEF OfQueue, OfWheel
    <2>2. HeldOf(ready_queue, wheel, s) = {}
      BY <2>1 DEF HeldOf
    <2>3. FifoOf(s, ready_queue, wheel, tx_tsc, pkt_next)
      BY <2>1, <2>2 DEF FifoOf
    <2>4. \A T \in Nat : ~(prev_desired[s] > T)
      BY <1>1, <1>10
    <2> QED
      BY <2>3, <2>4 DEF Spaced
  <1>15. Paced(ready_queue, wheel, tx_tsc, cur_wslot, prev_desired, pkt_next)
    BY <1>2, <1>4, <1>9, <1>11, <1>12, <1>13, <1>14 DEF Paced
  <1>16. timely_rate \in [Sessions -> kMinRate .. kLinkBandwidth]
    BY <1>1, <1>7
  <1> QED
    BY <1>1, <1>7, <1>8, <1>15, <1>16 DEF WheelInv

\* Every step preserves it.
LEMMA StepPaces ==
  ASSUME SlotsCover, PacketsTakeTime, WheelInv, [WheelNext]_wheelvars
  PROVE  WheelInv'
  <1>1. CASE process_wheel_st \/ catchup
    BY <1>1, ReapPaces
  <1>2. ASSUME NEW s \in Sessions, NEW z \in 1 .. kMTU, enqueue_wheel(s, z)
        PROVE  WheelInv'
    BY <1>2, EnqueuePaces
  <1>3. ASSUME NEW s \in Sessions, NEW n \in 0 .. kLinkBandwidth, update_rate(s, n)
        PROVE  WheelInv'
    BY <1>3, RatePaces
  <1>4. CASE wheel_tick
    BY <1>4, TickPaces
  <1>5. CASE UNCHANGED wheelvars
    BY <1>5 DEF wheelvars, WheelInv
  <1> QED
    BY <1>1, <1>2, <1>3, <1>4, <1>5 DEF WheelNext

\* Where the slot (cur + n) % N stands in the turn.
LEMMA TurnIs ==
  ASSUME NEW n \in 0 .. N - 1, cur_wslot \in Wslots
  PROVE  Turn((cur_wslot + n) % N) = n
  <1>1. N \in Nat \ {0} /\ cur_wslot \in Nat /\ cur_wslot < N /\ n \in Nat /\ n < N
    BY WheelSizes, InTurn
  <1>2. PICK c \in Nat : c = cur_wslot
    BY <1>1
  <1>3. PICK q \in Nat, m \in 0 .. N - 1 : m = (c + n) % N /\ c + n = q * N + m
    <2>1. c + n \in Nat
      BY <1>1
    <2>2. (c + n) % N \in 0 .. N - 1 /\ \E q \in Nat : c + n = q * N + ((c + n) % N)
      BY <2>1, <1>1, ModOf
    <2> QED
      BY <2>2
  <1>4. q = 0 \/ q = 1
    <2>1. q * N < 2 * N
      <3>1. q * N \in Nat
        BY <1>1
      <3> QED
        BY <3>1, <1>1, <1>2, <1>3
    <2>2. q >= 2 => 2 * N <= q * N
      BY <1>1, TimesLe
    <2>3. q * N \in Nat /\ 2 * N \in Nat
      BY <1>1
    <2> QED
      BY <2>1, <2>2, <2>3
  <1>5. (m + N - c) % N = n
    <2>1. m + N - c = n + N \/ m + N - c = n
      <3>1. m \in Int /\ N \in Int
        BY <1>1, <1>3
      <3>2. CASE q = 0
        <4>1. 0 * N = 0
          BY <3>1
        <4>2. c + n = m
          BY <3>1, <3>2, <4>1, <1>1, <1>3
        <4> QED
          BY <3>1, <4>2, <1>1
      <3>3. CASE q = 1
        <4>1. 1 * N = N
          BY <3>1
        <4>2. c + n = N + m
          BY <3>1, <3>3, <4>1, <1>1, <1>3
        <4> QED
          BY <3>1, <4>2, <1>1
      <3> QED
        BY <3>2, <3>3, <1>4
    <2>2. (n + N) % N = n
      <3>1. (n + 1 * N) % N = n % N
        BY <1>1, ModAdd
      <3>2. n % N = n
        BY <1>1, ModOf
      <3> QED
        BY <3>1, <3>2, <1>1
    <2>3. n % N = n
      BY <1>1, ModOf
    <2> QED
      BY <2>1, <2>2, <2>3
  <1> QED
    BY <1>2, <1>3, <1>5 DEF Turn, N

\* The order of the turn is that of the slots' times.
LEMMA SoonerBefore ==
  ASSUME wheel \in Wheels, Timed(tx_tsc, cur_wslot),
         NEW p \in WheelPlaces(wheel), NEW q \in WheelPlaces(wheel), Sooner(p, q)
  PROVE  Before(tx_tsc, p, q)
  <1>1. p[1] \in Wslots /\ q[1] \in Wslots
    BY InPlaces
  <1>2. cur_wslot \in Wslots /\ tx_tsc \in [Wslots -> Int]
    BY DEF Timed
  <1>3. PICK n \in 0 .. N - 1 : (cur_wslot + n) % N = p[1]
    BY <1>1, <1>2, InTurn
  <1>4. PICK m \in 0 .. N - 1 : (cur_wslot + m) % N = q[1]
    BY <1>1, <1>2, InTurn
  <1>5. Turn(p[1]) = n /\ Turn(q[1]) = m
    BY <1>2, <1>3, <1>4, TurnIs
  <1>6. CASE n < m
    <2>1. PICK t \in Int, w \in Nat \ {0} : t = tx_tsc[cur_wslot] /\ w = W
      BY <1>2, WheelSizes
    <2>2. tx_tsc[p[1]] = t + n * w /\ tx_tsc[q[1]] = t + m * w
      BY <1>3, <1>4, <2>1 DEF Timed
    <2>3. n \in Nat /\ m \in Nat
      BY WheelSizes
    <2>4. n * w < m * w
      BY <1>6, <2>1, <2>3
    <2>5. n * w \in Nat /\ m * w \in Nat
      BY <2>3
    <2> QED
      BY <2>1, <2>2, <2>4, <2>5 DEF Before
  <1>7. CASE ~(n < m)
    <2>1. p[1] = q[1] /\ (p[2] < q[2] \/ (p[2] = q[2] /\ p[3] < q[3]))
      BY <1>5, <1>7 DEF Sooner
    <2> QED
      BY <2>1 DEF Before, Ordered
  <1> QED
    BY <1>6, <1>7

\* Paced implies the order that WheelFifo states.
LEMMA PacedFifo ==
  ASSUME Paced(ready_queue, wheel, tx_tsc, cur_wslot, prev_desired, pkt_next)
  PROVE  WheelFifo
  <1>1. /\ wheel \in Wheels /\ ready_queue \in Seq(WheelEntry) /\ Timed(tx_tsc, cur_wslot)
        /\ pkt_next \in [Sessions -> PktNums]
        /\ \A s \in Sessions : FifoOf(s, ready_queue, wheel, tx_tsc, pkt_next)
    BY DEF Paced
  <1>2. \A e : Age(e) = AgeOf(pkt_next, e)
    BY PktSizes DEF Age, AgeOf
  <1>3. DOMAIN ready_queue = 1 .. Len(ready_queue)
    BY <1>1
  <1> SUFFICES ASSUME NEW s \in Sessions
               PROVE  /\ \A k, l \in ReadyOf(s) : k < l => Age(ready_queue[k]) > Age(ready_queue[l])
                      /\ \A k \in ReadyOf(s), p \in WheelOf(s) :
                            Age(ready_queue[k]) > Age(EntryAt(wheel, p))
                      /\ \A p, q \in WheelOf(s) :
                            Sooner(p, q) => Age(EntryAt(wheel, p)) > Age(EntryAt(wheel, q))
                      /\ \A e \in Entries(s) :
                            Age(e) # 0 /\ 1 .. Age(e) \subseteq {Age(f) : f \in Entries(s)}
    BY DEF WheelFifo
  <1>4. WheelOf(s) = OfWheel(wheel, s) /\ ReadyOf(s) = OfQueue(ready_queue, s)
    BY <1>3 DEF WheelOf, OfWheel, ReadyOf, OfQueue
  <1>5. Entries(s) = HeldOf(ready_queue, wheel, s)
    BY <1>4 DEF Entries, HeldOf
  <1>6. FifoOf(s, ready_queue, wheel, tx_tsc, pkt_next)
    BY <1>1
  <1>7. \A k, l \in ReadyOf(s) : k < l => Age(ready_queue[k]) > Age(ready_queue[l])
    BY <1>2, <1>4, <1>6 DEF FifoOf, Older
  <1>8. \A k \in ReadyOf(s), p \in WheelOf(s) : Age(ready_queue[k]) > Age(EntryAt(wheel, p))
    BY <1>2, <1>4, <1>6 DEF FifoOf, Older
  <1>9. ASSUME NEW p \in WheelOf(s), NEW q \in WheelOf(s), Sooner(p, q)
        PROVE  Age(EntryAt(wheel, p)) > Age(EntryAt(wheel, q))
    <2>1. p \in WheelPlaces(wheel) /\ q \in WheelPlaces(wheel)
      BY DEF WheelOf
    <2>2. Before(tx_tsc, p, q)
      BY <2>1, <1>1, <1>9, SoonerBefore
    <2> QED
      BY <2>2, <1>2, <1>4, <1>6 DEF FifoOf, Older
  <1>10. ASSUME NEW e \in Entries(s)
         PROVE  Age(e) # 0 /\ 1 .. Age(e) \subseteq {Age(f) : f \in Entries(s)}
    <2>1. /\ AgeOf(pkt_next, e) # 0
          /\ \A a \in 1 .. AgeOf(pkt_next, e) :
                \E f \in HeldOf(ready_queue, wheel, s) : AgeOf(pkt_next, f) = a
      BY <1>5, <1>6 DEF FifoOf
    <2> QED
      BY <2>1, <1>2, <1>5
  <1> QED
    BY <1>7, <1>8, <1>9, <1>10

\* The invariant implies the properties.
LEMMA InvPaces == ASSUME WheelInv PROVE WheelPaces /\ WheelTypeOK
  <1>1. /\ Paced(ready_queue, wheel, tx_tsc, cur_wslot, prev_desired, pkt_next)
        /\ Buckets(wheel, bkt_pool, bkt_total) /\ num_to_alloc \in Nat \ {0}
        /\ timely_rate \in [Sessions -> kMinRate .. kLinkBandwidth] /\ wheel_bad = FALSE
        /\ wheel_up \in BOOLEAN
    BY DEF WheelInv
  <1>2. /\ wheel \in Wheels /\ ready_queue \in Seq(WheelEntry) /\ Timed(tx_tsc, cur_wslot)
        /\ prev_desired \in [Sessions -> Int] /\ pkt_next \in [Sessions -> PktNums]
        /\ Precise(ready_queue, wheel, tx_tsc)
    BY <1>1 DEF Paced
  <1>3. WheelAsserts
    BY <1>1 DEF WheelAsserts
  <1>4. WheelPrecise
    <2>1. DOMAIN ready_queue = 1 .. Len(ready_queue)
      BY <1>2
    <2> QED
      BY <2>1, <1>2 DEF WheelPrecise, Precise, W
  <1>5. WheelFifo
    BY <1>1, PacedFifo
  <1>6. BucketsConserved
    BY <1>1 DEF BucketsConserved, Buckets, LastBkt
  <1>7. WheelTypeOK
    BY <1>1, <1>2 DEF WheelTypeOK, Wheels, Timed, Buckets
  <1> QED
    BY <1>3, <1>4, <1>5, <1>6, <1>7 DEF WheelPaces

(***************************************************************************)
(* WheelInv is an invariant of the wheel: of its insertions, of the event  *)
(* loop that reaps it (timing_wheel.h:110-184, rpc_tx.cc), of Timely's     *)
(* rate updates and of the clock, when the slots span the horizon and      *)
(* packets take time.                                                      *)
(***************************************************************************)
THEOREM WheelInvariant == ASSUME SlotsCover, PacketsTakeTime PROVE WheelSpec => []WheelInv
  <1>1. WheelInit => WheelInv
    BY InitPaces
  <1>2. WheelInv /\ [WheelNext]_wheelvars => WheelInv'
    BY StepPaces
  <1> QED
    BY <1>1, <1>2, PTL DEF WheelSpec

(***************************************************************************)
(* The wheel paces: none of insert's assertions fails, every packet leaves *)
(* no earlier than its time and at most a slot late, a session's packets   *)
(* leave in order, and every bucket is accounted for                       *)
(* (timing_wheel.h:115-184), when the slots span the horizon and packets   *)
(* take time.                                                              *)
(***************************************************************************)
THEOREM WheelPaced == ASSUME SlotsCover, PacketsTakeTime PROVE WheelSpec => []WheelPaces
  <1>1. WheelInv => WheelPaces
    BY InvPaces
  <1> QED
    BY <1>1, WheelInvariant, PTL

(***************************************************************************)
(* The wheel's state has its type; in particular every desired time in it  *)
(* lies within the horizon (timing_wheel.h:140).                           *)
(***************************************************************************)
THEOREM WheelTyped == ASSUME SlotsCover, PacketsTakeTime PROVE WheelSpec => []WheelTypeOK
  <1>1. WheelInv => WheelTypeOK
    BY InvPaces
  <1> QED
    BY <1>1, WheelInvariant, PTL
=============================================================================
