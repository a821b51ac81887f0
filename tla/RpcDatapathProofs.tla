-------------------------- MODULE RpcDatapathProofs --------------------------
(***************************************************************************)
(* IInv is an inductive invariant of RpcDatapath, for any number of slots, *)
(* credits and requests and any message sizes, with and without pacing;    *)
(* the safety properties follow from it.                                   *)
(*                                                                         *)
(* A step changes the client's half of the state or the server's half, and *)
(* adds packets.  The lemmas up to PacketsNext say what one half's steps   *)
(* leave of the invariant to prove; then there is one lemma per action.    *)
(***************************************************************************)
EXTENDS RpcDatapathInv, FiniteSetTheorems, SequenceTheorems, TLAPS

-----------------------------------------------------------------------------
(***************************************************************************)
(* Facts about the operators RpcDatapath is built from: slot numbers,      *)
(* indexes modulo the number of credits, intervals of packet numbers, and  *)
(* the number of outstanding packets.                                      *)
(***************************************************************************)

\* Division with remainder.
LEMMA DivMod ==
    ASSUME NEW d \in Nat \ {0}, NEW n \in Nat
    PROVE  /\ n % d \in 0..(d - 1)
           /\ n \div d \in Nat
           /\ n = d * (n \div d) + (n % d)
  OBVIOUS

\* A multiple of d that lies strictly between -d and d is 0.
LEMMA SmallMultiple ==
    ASSUME NEW d \in Nat \ {0}, NEW k \in Int, d * k < d, -d < d * k
    PROVE  k = 0
<1>1. CASE k >= 1
  <2>1. d * k >= d * 1
    BY <1>1
  <2> QED BY <2>1
<1>2. CASE k <= -1
  <2>1. d * k <= d * (-1)
    BY <1>2
  <2> QED BY <2>1
<1> QED BY <1>1, <1>2

\* The remainder is unique.
LEMMA ModUnique ==
    ASSUME NEW d \in Nat \ {0}, NEW n \in Nat, NEW k \in Int,
           NEW v \in 0..(d - 1), n = d * k + v
    PROVE  n % d = v
<1> DEFINE q == n \div d
<1>1. n % d \in 0..(d - 1) /\ q \in Nat /\ n = d * q + (n % d)
  BY DivMod
<1> HIDE DEF q
<1>2. d * (q - k) = d * q - d * k
  BY <1>1
<1>3. d * (q - k) = v - (n % d)
  BY <1>1, <1>2
<1>4. q - k = 0
  BY <1>1, <1>3, SmallMultiple
<1> QED BY <1>1, <1>4

\* Numbers less than d apart have different remainders.
LEMMA ModDistinct ==
    ASSUME NEW d \in Nat \ {0}, NEW i \in Nat, NEW j \in Nat, i < j, j < i + d
    PROVE  i % d # j % d
<1> DEFINE p == i \div d
           q == j \div d
<1>1. /\ i % d \in 0..(d - 1) /\ p \in Nat /\ i = d * p + (i % d)
      /\ j % d \in 0..(d - 1) /\ q \in Nat /\ j = d * q + (j % d)
  BY DivMod
<1> SUFFICES ASSUME i % d = j % d PROVE FALSE
  OBVIOUS
<1> HIDE DEF p, q
<1>2. d * (q - p) = d * q - d * p
  BY <1>1
<1>3. d * (q - p) = j - i
  BY <1>1, <1>2
<1>4. q - p = 0
  BY <1>1, <1>3, SmallMultiple
<1> QED BY <1>1, <1>4

\* Adding the divisor keeps the residue.
LEMMA ModPlus ==
    ASSUME NEW d \in Nat \ {0}, NEW n \in Nat
    PROVE  (n + d) % d = n % d
<1> DEFINE p == n \div d
<1>1. n % d \in 0..(d - 1) /\ p \in Nat /\ n = d * p + (n % d)
  BY DivMod
<1> HIDE DEF p
<1>2. d * (p + 1) = d * p + d
  BY <1>1
<1>3. n + d = d * (p + 1) + (n % d)
  BY <1>1, <1>2
<1> DEFINE x == n + d
           k == p + 1
<1>4. x \in Nat /\ k \in Int /\ x = d * k + (n % d)
  BY <1>1, <1>3
<1> HIDE DEF x, k
<1>5. x % d = n % d
  BY <1>1, <1>4, ModUnique
<1> QED BY <1>5 DEF x

\* Numbers below the divisor are their own residue.
LEMMA ModSmall ==
    ASSUME NEW d \in Nat \ {0}, NEW v \in 0..(d - 1)
    PROVE  v % d = v
<1>1. v = d * 0 + v
  OBVIOUS
<1> QED BY <1>1, ModUnique

\* process_comps_st finds a slot for every request number.
LEMMA SlotOfType == \A n \in Nat : SlotOf(n) \in Slots
  BY SessionAssumption, DivMod DEF SlotOf, Slots

\* The request after n of the same slot.
LEMMA SlotOfNext == \A n \in Nat : SlotOf(n + kSessionReqWindow) = SlotOf(n)
  BY SessionAssumption, ModPlus DEF SlotOf

\* The first request number of a slot.
LEMMA SlotOfSlot == \A s \in Slots : SlotOf(s) = s
  BY SessionAssumption, ModSmall DEF SlotOf, Slots

\* The entries of one slot with consecutive packet numbers.
Entries(s, a, b) == {<<s, i>> : i \in a..(b - 1)}

\* There are b - a packet numbers in a window.
LEMMA EntriesCard ==
    ASSUME NEW s, NEW a \in Int, NEW b \in Int, a <= b
    PROVE  IsFiniteSet(Entries(s, a, b)) /\ Cardinality(Entries(s, a, b)) = b - a
<1> DEFINE f == [i \in a..(b - 1) |-> <<s, i>>]
           S == Entries(s, a, b)
<1>1. IsFiniteSet(a..(b - 1)) /\ Cardinality(a..(b - 1)) = b - a
  <2> DEFINE c == b - 1
  <2>1. c \in Int
    OBVIOUS
  <2> HIDE DEF c
  <2>2. IsFiniteSet(a..c) /\ Cardinality(a..c) = IF a > c THEN 0 ELSE c - a + 1
    BY <2>1, FS_Interval
  <2> QED BY <2>2 DEF c
<1>2. f \in [a..(b - 1) -> S]
  BY DEF Entries
<1>3. \A i, j \in a..(b - 1) : f[i] = f[j] => i = j
  OBVIOUS
<1>4. \A e \in S : \E i \in a..(b - 1) : f[i] = e
  BY DEF Entries
<1> HIDE DEF f, S
<1>5. f \in Bijection(a..(b - 1), S)
  BY <1>2, <1>3, <1>4, Zenon DEF Bijection, Injection, Surjection, IsInjective
<1>6. ExistsBijection(a..(b - 1), S)
  BY <1>5 DEF ExistsBijection
<1> QED BY <1>1, <1>6, FS_Bijection DEF S

\* A session has finitely many slots.
LEMMA SlotsFinite == IsFiniteSet(Slots)
  BY SessionAssumption, FS_Interval DEF Slots

-------------------------------------------------------------------------------
(***************************************************************************)
(* Outstanding packets.                                                    *)
(***************************************************************************)
OthersOutstanding(rx, tx, s) == {e \in Outstanding(rx, tx) : e[1] # s}

\* The outstanding packets of slot s are those from num_rx to num_tx - 1.
LEMMA OutstandingSplit ==
    ASSUME NEW rx \in [Slots -> Nat], NEW tx \in [Slots -> Nat], NEW s \in Slots,
           rx[s] <= tx[s], tx[s] <= 2 * MaxPkts
    PROVE  /\ IsFiniteSet(OthersOutstanding(rx, tx, s))
           /\ Cardinality(OthersOutstanding(rx, tx, s)) \in Nat
           /\ Cardinality(Outstanding(rx, tx)) =
                Cardinality(OthersOutstanding(rx, tx, s)) + tx[s] - rx[s]
<1> DEFINE O == Outstanding(rx, tx)
           A == OthersOutstanding(rx, tx, s)
           B == Entries(s, rx[s], tx[s])
<1>1. IsFiniteSet(Slots \X (0..(2 * MaxPkts)))
  <2>1. IsFiniteSet(0..(2 * MaxPkts))
    BY PktsAssumption, FS_Interval
  <2> QED BY <2>1, SlotsFinite, FS_Product
<1>2. A \in SUBSET (Slots \X (0..(2 * MaxPkts)))
  BY DEF OthersOutstanding, Outstanding
<1>3. IsFiniteSet(A) /\ Cardinality(A) \in Nat
  BY <1>1, <1>2, FS_Subset, FS_CardinalityType
<1>4. IsFiniteSet(B) /\ Cardinality(B) = tx[s] - rx[s]
  BY EntriesCard
<1>5. O = A \cup B
  <2>1. ASSUME NEW e \in O PROVE e \in A \cup B
    <3>1. e = <<e[1], e[2]>> /\ e[1] \in Slots /\ e[2] \in 0..(2 * MaxPkts)
      BY DEF Outstanding
    <3>2. CASE e[1] = s
      <4>1. e[2] \in rx[s]..(tx[s] - 1)
        BY <3>1, <3>2 DEF Outstanding
      <4> QED BY <3>1, <3>2, <4>1 DEF Entries
    <3>3. CASE e[1] # s
      BY <3>3 DEF OthersOutstanding
    <3> QED BY <3>2, <3>3
  <2>2. ASSUME NEW e \in B PROVE e \in O
    BY PktsAssumption DEF Entries, Outstanding
  <2>3. A \subseteq O
    BY DEF OthersOutstanding
  <2> QED BY <2>1, <2>2, <2>3
<1>6. A \cap B = {}
  BY DEF OthersOutstanding, Entries
<1> HIDE DEF O, A, B
<1>7. Cardinality(O) = Cardinality(A) + (tx[s] - rx[s]) - 0
  BY <1>3, <1>4, <1>5, <1>6, FS_Union, FS_EmptySet
<1> QED BY <1>3, <1>7 DEF O, A

\* When the counters of one slot change, the number of outstanding packets
\* changes by as much as its window does.
LEMMA OutstandingStep ==
    ASSUME NEW rx \in [Slots -> Nat], NEW tx \in [Slots -> Nat],
           NEW rx2 \in [Slots -> Nat], NEW tx2 \in [Slots -> Nat], NEW s \in Slots,
           \A t \in Slots \ {s} : rx2[t] = rx[t] /\ tx2[t] = tx[t],
           rx[s] <= tx[s], tx[s] <= 2 * MaxPkts,
           rx2[s] <= tx2[s], tx2[s] <= 2 * MaxPkts
    PROVE  /\ Cardinality(Outstanding(rx2, tx2)) \in Nat
           /\ Cardinality(Outstanding(rx2, tx2)) =
                Cardinality(Outstanding(rx, tx)) - (tx[s] - rx[s]) + (tx2[s] - rx2[s])
           /\ tx2[s] - rx2[s] <= Cardinality(Outstanding(rx2, tx2))
<1>1. OthersOutstanding(rx, tx, s) = OthersOutstanding(rx2, tx2, s)
  BY DEF OthersOutstanding, Outstanding
<1>2. rx[s] \in Nat /\ tx[s] \in Nat /\ rx2[s] \in Nat /\ tx2[s] \in Nat
  OBVIOUS
<1>3. /\ Cardinality(OthersOutstanding(rx, tx, s)) \in Nat
      /\ Cardinality(Outstanding(rx, tx)) =
           Cardinality(OthersOutstanding(rx, tx, s)) + tx[s] - rx[s]
  BY OutstandingSplit
<1>4. /\ Cardinality(OthersOutstanding(rx2, tx2, s)) \in Nat
      /\ Cardinality(Outstanding(rx2, tx2)) =
           Cardinality(OthersOutstanding(rx2, tx2, s)) + tx2[s] - rx2[s]
  BY OutstandingSplit
<1> QED BY <1>1, <1>2, <1>3, <1>4

-------------------------------------------------------------------------------
(***************************************************************************)
(* The timing wheel's entries of one slot.                                 *)
(***************************************************************************)
\* iw and wc describe the set E of entries, as in_wheel_ and wheel_count_ do.
Tracked(E, iw, wc) ==
    /\ iw = {e[2] % kSessionCredits : e \in E}
    /\ wc = Cardinality(E)
    /\ \A e, f \in E : e[2] % kSessionCredits = f[2] % kSessionCredits => e = f

\* A set of wheel entries of one window is finite, and empty if it has none.
LEMMA EntriesFinite ==
    ASSUME NEW s, NEW a \in Nat, NEW b \in Nat, a <= b,
           NEW E \in SUBSET Entries(s, a, b)
    PROVE  /\ IsFiniteSet(E) /\ Cardinality(E) \in Nat
           /\ Cardinality(E) = 0 => E = {}
<1>1. IsFiniteSet(E)
  BY EntriesCard, FS_Subset
<1> QED BY <1>1, FS_CardinalityType, FS_EmptySet

\* enqueue_wheel_req_st of packets b .. c-1, in a window of at most
\* kSessionCredits packets that starts at a.
LEMMA TrackedAdd ==
    ASSUME NEW s, NEW a \in Nat, NEW b \in Nat, NEW c \in Nat, a <= b, b <= c,
           c - a <= kSessionCredits,
           NEW E \in SUBSET Entries(s, a, b), NEW iw, NEW wc, Tracked(E, iw, wc)
    PROVE  /\ Tracked(E \cup Entries(s, b, c),
                      iw \cup {i % kSessionCredits : i \in b..(c - 1)}, wc + (c - b))
           /\ E \cup Entries(s, b, c) \subseteq Entries(s, a, c)
<1> DEFINE N == Entries(s, b, c)
           F == E \cup N
<1>1. F \subseteq Entries(s, a, c)
  BY DEF Entries
<1>2. iw \cup {i % kSessionCredits : i \in b..(c - 1)}
        = {e[2] % kSessionCredits : e \in F}
  <2>1. \A i \in b..(c - 1) : <<s, i>> \in N /\ <<s, i>>[2] = i
    BY DEF Entries
  <2>2. \A e \in N : e[2] \in b..(c - 1)
    BY DEF Entries
  <2> HIDE DEF N
  <2>3. {i % kSessionCredits : i \in b..(c - 1)} = {e[2] % kSessionCredits : e \in N}
    BY <2>1, <2>2, Zenon
  <2>4. iw = {e[2] % kSessionCredits : e \in E}
    BY DEF Tracked
  <2> QED BY <2>3, <2>4, Zenon
<1>3. Cardinality(F) = wc + (c - b)
  <2>1. E \cap N = {}
    BY DEF Entries
  <2>2. IsFiniteSet(E) /\ Cardinality(E) \in Nat
    BY EntriesFinite
  <2>3. IsFiniteSet(N) /\ Cardinality(N) = c - b
    BY EntriesCard
  <2> HIDE DEF N
  <2>4. Cardinality(E \cup N) = Cardinality(E) + (c - b) - 0
    <3>1. Cardinality(E \cap N) = 0
      BY <2>1, FS_EmptySet
    <3>2. Cardinality(E \cup N) = Cardinality(E) + Cardinality(N) - Cardinality(E \cap N)
      BY <2>2, <2>3, FS_Union
    <3> QED BY <3>1, <3>2, <2>3
  <2>5. wc = Cardinality(E)
    BY DEF Tracked
  <2> QED BY <2>2, <2>4, <2>5 DEF F
<1>4. ASSUME NEW e \in F, NEW f \in F,
             e[2] % kSessionCredits = f[2] % kSessionCredits
      PROVE  e = f
  <2>1. PICK i \in a..(c - 1) : e = <<s, i>>
    BY <1>1 DEF Entries
  <2>2. PICK j \in a..(c - 1) : f = <<s, j>>
    BY <1>1 DEF Entries
  <2>3. i \in Nat /\ j \in Nat /\ i < j + kSessionCredits /\ j < i + kSessionCredits
    BY SessionAssumption
  <2>4. i % kSessionCredits = j % kSessionCredits
    BY <2>1, <2>2, <1>4
  <2>5. ~(i < j) /\ ~(j < i)
    BY <2>3, <2>4, ModDistinct, SessionAssumption
  <2> QED BY <2>1, <2>2, <2>3, <2>5
<1> HIDE DEF F
<1>5. Tracked(F, iw \cup {i % kSessionCredits : i \in b..(c - 1)}, wc + (c - b))
  BY <1>2, <1>3, <1>4 DEF Tracked
<1> QED BY <1>1, <1>5 DEF F

\* process_wheel_st of entry e.
LEMMA TrackedRemove ==
    ASSUME NEW s, NEW a \in Nat, NEW b \in Nat, a <= b,
           NEW E \in SUBSET Entries(s, a, b), NEW iw, NEW wc, Tracked(E, iw, wc),
           NEW e \in E
    PROVE  Tracked(E \ {e}, iw \ {e[2] % kSessionCredits}, wc - 1)
<1>1. IsFiniteSet(E) /\ Cardinality(E) \in Nat
  BY EntriesFinite
<1>2. Cardinality(E \ {e}) = wc - 1
  BY <1>1, FS_RemoveElement DEF Tracked
<1>3. iw \ {e[2] % kSessionCredits} = {f[2] % kSessionCredits : f \in E \ {e}}
  BY DEF Tracked
<1> QED BY <1>2, <1>3 DEF Tracked

-------------------------------------------------------------------------------
(***************************************************************************)
(* Prefixes of messages.                                                   *)
(***************************************************************************)
LEMMA PrefixEmpty == \A r : \A n \in Int : n <= 0 => Prefix(r, n) = {}
  BY DEF Prefix

\* The packet after the first n extends the buffer by one piece.
LEMMA PrefixNext ==
    ASSUME NEW r, NEW n \in Nat
    PROVE  Prefix(r, n + 1) = Prefix(r, n) \cup {<<n, r, n>>}
<1>1. 0..(n + 1 - 1) = 0..(n - 1) \cup {n}
  OBVIOUS
<1> QED BY <1>1 DEF Prefix

\* A one-packet message is its first piece.
LEMMA PrefixOne == \A r : Prefix(r, 1) = {<<0, r, 0>>}
  BY DEF Prefix

\* Buffers filled in order are sets of pieces.
LEMMA PrefixType == \A r \in Req : \A n \in Int : Prefix(r, n) \in Pieces
  BY DEF Prefix, Pieces

\* The MsgBuffers of the requests and responses.
LEMMA PktsType ==
    \A r \in Req : /\ ReqPkts[r] \in Nat /\ ReqPkts[r] >= 1 /\ ReqPkts[r] <= MaxPkts
                   /\ RespPkts[r] \in Nat /\ RespPkts[r] >= 1 /\ RespPkts[r] <= MaxPkts
                   /\ Wire(r) \in Nat /\ ReqPkts[r] <= Wire(r)
                   /\ Wire(r) <= 2 * MaxPkts - 1
                   /\ MaxPkts \in Nat
  BY PktsAssumption DEF Wire

-----------------------------------------------------------------------------
(***************************************************************************)
(* The invariant.                                                          *)
(***************************************************************************)

\* A session that was just connected satisfies IInv.
LEMMA InitIInv == Init => IInv
<1> SUFFICES ASSUME Init PROVE IInv
  OBVIOUS
<1> USE DEF Init
<1>1. TypeOK
  BY SessionAssumption, ReqAssumption DEF TypeOK, Slots, Pieces
<1>2. Numbering
  BY SessionAssumption, SlotOfSlot DEF Numbering, Active, Slots, Started
<1>3. Packets
  BY DEF Packets
<1>4. ClientSlots
  BY PktsAssumption DEF ClientSlots, Active
<1>5. ServerSlots
  BY DEF ServerSlots, Fresh
<1>6. Applications
  BY DEF Applications
<1>7. SlotBookkeeping /\ Backlog
  BY DEF SlotBookkeeping, Backlog, Active
<1>8. StalledIffIdle /\ Stalled
  BY DEF StalledIffIdle, Stalled, Active
<1>9. CreditConservation
  <2>1. Outstanding(num_rx, num_tx) = {}
    BY DEF Outstanding
  <2>2. Cardinality(Outstanding(num_rx, num_tx)) = 0
    BY <2>1, FS_EmptySet, Zenon
  <2>3. credits = kSessionCredits /\ kSessionCredits \in Nat
    BY SessionAssumption
  <2> HIDE DEF Init
  <2> QED BY <2>2, <2>3 DEF CreditConservation
<1>10. WheelTracking /\ WheelPackets
  <2>1. \A s \in Slots : WheelEntries(s) = {}
    BY DEF WheelEntries
  <2> QED BY <2>1, FS_EmptySet DEF WheelTracking, WheelPackets
<1> QED BY <1>1, <1>2, <1>3, <1>4, <1>5, <1>6, <1>7, <1>8, <1>9, <1>10 DEF IInv

-------------------------------------------------------------------------------
(***************************************************************************)
(* What the steps of one half leave of the invariant.                      *)
(***************************************************************************)
\* The conjuncts of IInv that speak of the client's state alone.
ClientInv ==
    /\ SlotBookkeeping /\ Backlog
    /\ StalledIffIdle /\ Stalled
    /\ CreditConservation
    /\ WheelTracking /\ WheelPackets

\* A step that leaves the client and issued alone preserves ClientInv.
LEMMA ClientInvFrame ==
    ASSUME ClientInv, UNCHANGED clientVars, issued' = issued
    PROVE  ClientInv'
<1> USE DEF clientVars, sessVars, slotVars, wheelVars
<1>1. SlotBookkeeping' /\ Backlog'
  BY DEF ClientInv, SlotBookkeeping, Backlog, Active, Started
<1>2. StalledIffIdle' /\ Stalled'
  BY DEF ClientInv, StalledIffIdle, Stalled, Active
<1>3. CreditConservation'
  BY DEF ClientInv, CreditConservation, Outstanding
<1>4. WheelTracking' /\ WheelPackets'
  BY DEF ClientInv, WheelTracking, WheelPackets, WheelEntries, Active
<1> QED BY <1>1, <1>2, <1>3, <1>4 DEF ClientInv

\* What no step undoes: a request keeps its number, a response stays given, and
\* a server slot never goes back.
Stable ==
    /\ \A r \in Req : Started(r) => reqNum'[r] = reqNum[r]
    /\ responded \subseteq responded'
    /\ \A s \in Slots : sCur[s] <= sCur'[s]
    /\ \A s \in Slots : sCur'[s] = sCur[s] => sNumRx[s] <= sNumRx'[s]

\* A Stable step keeps what is known about a packet.
LEMMA PacketStable ==
    ASSUME TypeOK, TypeOK', Stable, NEW m \in Pkt, PacketOK(m)
    PROVE  PacketOK(m)'
<1> DEFINE s == SlotOf(m.req_num)
<1>1. s \in Slots /\ m.req_num \in Nat /\ m.pkt_num \in Nat
  BY SlotOfType DEF Pkt
<1>2. /\ sCur[s] \in Nat /\ sCur'[s] \in Nat /\ sCur[s] <= sCur'[s]
      /\ sNumRx[s] \in Nat /\ sNumRx'[s] \in Nat
      /\ sCur'[s] = sCur[s] => sNumRx[s] <= sNumRx'[s]
  BY <1>1 DEF TypeOK, Stable
<1>3. \A r \in Req : Started(r) => Started(r)' /\ reqNum'[r] = reqNum[r]
  BY DEF Stable, Started
<1>4. SlotOf(m.req_num)' = s
  BY DEF SlotOf
<1> HIDE DEF s
<1>5. CASE m.type = "req"
  BY <1>3, <1>5 DEF PacketOK
<1>6. CASE m.type = "resp"
  BY <1>1, <1>2, <1>3, <1>4, <1>6 DEF PacketOK, Stable, s
<1>7. CASE m.type = "cr"
  BY <1>1, <1>2, <1>3, <1>4, <1>7 DEF PacketOK, s
<1>8. CASE m.type = "rfr"
  BY <1>1, <1>2, <1>3, <1>4, <1>8 DEF PacketOK, Stable, s
<1>9. m.type \in {"req", "resp", "cr", "rfr"}
  BY DEF Pkt, PktType
<1> QED BY <1>5, <1>6, <1>7, <1>8, <1>9

\* So packets stay right if the ones a Stable step adds are.
LEMMA PacketsNext ==
    ASSUME TypeOK, TypeOK', Packets, Stable,
           \A m \in net' \cup txq' : m \in net \cup txq \/ PacketOK(m)'
    PROVE  Packets'
<1>1. ASSUME NEW m \in net \cup txq PROVE PacketOK(m)'
  <2>1. m \in Pkt /\ PacketOK(m)
    BY DEF TypeOK, Packets
  <2> QED BY <2>1, PacketStable
<1> QED BY <1>1 DEF Packets

\* A step that only moves, loses or adds packets.
LEMMA OnlyPackets ==
    ASSUME IInv, UNCHANGED <<appVars, clientVars, serverVars>>,
           txq' \subseteq Pkt, net' \subseteq Pkt,
           \A m \in net' \cup txq' : m \in net \cup txq \/ PacketOK(m)
    PROVE  IInv'
<1> USE DEF IInv
<1>1. TypeOK'
  BY DEF TypeOK, appVars, clientVars, sessVars, slotVars, wheelVars, serverVars
<1>2. \A m : PacketOK(m) => PacketOK(m)'
  BY DEF PacketOK, appVars, clientVars, slotVars, serverVars, Started
<1>3. Packets'
  BY <1>2 DEF Packets
<1>4. ClientInv'
  BY ClientInvFrame DEF ClientInv, appVars
<1>5. Numbering' /\ ClientSlots'
  BY DEF Numbering, ClientSlots, ClientSlotOK, Active, Started, appVars, clientVars,
         slotVars, serverVars
<1>6. ServerSlots' /\ Applications'
  BY DEF ServerSlots, Applications, Fresh, Serving, Receiving, Handling, Answering,
         Active, Done, Started, appVars, clientVars, slotVars, serverVars
<1> QED BY <1>1, <1>3, <1>4, <1>5, <1>6 DEF ClientInv

\* Transmission by a NIC preserves IInv.
LEMMA NicTxIInv == ASSUME IInv, NEW m \in txq, NicTx(m) PROVE IInv'
<1>1. txq \subseteq Pkt /\ net \subseteq Pkt
  BY DEF IInv, TypeOK
<1> QED BY <1>1, OnlyPackets DEF NicTx

\* The loss of a packet preserves IInv.
LEMMA LoseIInv == ASSUME IInv, NEW m \in net, Lose(m) PROVE IInv'
<1>1. txq \subseteq Pkt /\ net \subseteq Pkt
  BY DEF IInv, TypeOK
<1> QED BY <1>1, OnlyPackets DEF Lose

-------------------------------------------------------------------------------
(***************************************************************************)
(* Steps of the server.                                                    *)
(***************************************************************************)
ServerSlotSame(t) ==
    /\ sTx'[t] = sTx[t] /\ sCur'[t] = sCur[t] /\ sNumRx'[t] = sNumRx[t]
    /\ req_type'[t] = req_type[t] /\ reqN'[t] = reqN[t] /\ reqBuf'[t] = reqBuf[t]
    /\ sav'[t] = sav[t]

\* Type correctness of a step of the server.
LEMMA TypeServerStep ==
    ASSUME TypeOK, UNCHANGED clientVars, issued' = issued, conts' = conts,
           execs' \in [Req -> Seq(Pieces)], responded' \subseteq Req,
           sTx' \in [Slots -> Req \cup {NoReq}], sCur' \in [Slots -> Nat],
           sNumRx' \in [Slots -> Nat], req_type' \in [Slots -> Req \cup {NoReq}],
           reqN' \in [Slots -> Nat], reqBuf' \in [Slots -> Pieces],
           sav' \in [Slots -> Nat], txq' \subseteq Pkt, net' \subseteq Pkt
    PROVE  TypeOK'
  BY DEF TypeOK, clientVars, sessVars, slotVars, wheelVars

\* A step of server slot s after which it serves request r in one of its phases.
LEMMA ServerStep ==
    ASSUME IInv, TypeOK', Stable, UNCHANGED clientVars, issued' = issued, conts' = conts,
           NEW s \in Slots, NEW r \in Req, Started(r), Active(s), reqNum[r] = cCur[s],
           \A t \in Slots : t # s => ServerSlotSame(t),
           \A q \in Req : q # r => /\ execs'[q] = execs[q]
                                   /\ q \in responded' => q \in responded,
           Serving(s, r)',
           execs'[r] \in {<<>>, <<Prefix(r, ReqPkts[r])>>},
           r \in responded' => execs'[r] # <<>>,
           \A m \in net' \cup txq' : m \in net \cup txq \/ PacketOK(m)'
    PROVE  IInv'
<1> USE DEF IInv
<1>1. /\ reqNum' = reqNum /\ cCur' = cCur /\ cReq' = cReq /\ num_tx' = num_tx
      /\ num_rx' = num_rx /\ respN' = respN /\ respBuf' = respBuf
  BY DEF clientVars, slotVars
<1>2. sCur'[s] = reqNum[r] /\ SlotOf(reqNum[r]) = s
  BY <1>1 DEF Serving, Numbering
<1>3. \A t \in Slots : /\ sCur[t] \in Nat /\ sCur'[t] \in Nat /\ cCur[t] \in Nat
                       /\ sCur[t] <= sCur'[t] /\ sCur'[t] <= cCur[t]
  <2>1. reqNum[r] <= cCur[s]
    BY DEF Numbering
  <2> QED BY <1>2, <2>1 DEF TypeOK, Stable, Numbering, ServerSlotSame
<1>4. Numbering'
  <2>1. ASSUME NEW t \in Slots
        PROVE  /\ SlotOf(cCur[t]) = t /\ SlotOf(sCur'[t]) = t
               /\ cCur[t] <= sCur'[t] + kSessionReqWindow
               /\ ~Active(t) => sCur'[t] = cCur[t]
    <3>1. /\ SlotOf(cCur[t]) = t /\ SlotOf(sCur[t]) = t
          /\ cCur[t] <= sCur[t] + kSessionReqWindow
          /\ ~Active(t) => sCur[t] = cCur[t]
      BY DEF Numbering
    <3>2. CASE t = s
      BY <1>2, <1>3, <3>1, <3>2, SessionAssumption
    <3>3. CASE t # s
      BY <3>1, <3>3 DEF ServerSlotSame
    <3> QED BY <3>2, <3>3
  <2> QED BY <1>1, <1>3, <2>1 DEF Numbering, Active, Started, SlotOf
<1>5. Packets'
  BY PacketsNext
<1>6. ClientSlots'
  <2>1. ASSUME NEW t \in Slots, Active(t) PROVE ClientSlotOK(t, cReq[t])'
    <3>1. ClientSlotOK(t, cReq[t])
      BY <2>1 DEF ClientSlots
    <3>2. sCur[t] = cCur[t] => sCur'[t] = cCur[t]
      BY <1>3
    <3> QED BY <1>1, <3>1, <3>2 DEF ClientSlotOK, Stable
  <2> QED BY <1>1, <2>1 DEF ClientSlots, Active
<1>7. ServerSlots'
  <2>1. ASSUME NEW t \in Slots, t # s, NEW q \in Req, Serving(t, q)
        PROVE  /\ Serving(t, q)'
               /\ Answering(t, q) => Answering(t, q)'
    <3>1. ServerSlotSame(t)
      BY <2>1
    <3>2. q # r
      BY <1>2, <2>1 DEF Serving, Numbering
    <3>3. execs'[q] = execs[q] /\ (q \in responded' <=> q \in responded)
      BY <3>2 DEF Stable
    <3> QED BY <1>1, <2>1, <3>1, <3>3
            DEF Serving, Receiving, Handling, Answering, Started, ServerSlotSame
  <2>2. ASSUME NEW t \in Slots, t # s, Fresh(t) PROVE Fresh(t)'
    BY <2>2 DEF Fresh, ServerSlotSame
  <2>3. ASSUME NEW t \in Slots, t # s
        PROVE  /\ Fresh(t)' \/ \E q \in Req : Serving(t, q)'
               /\ Done(t) => \/ Fresh(t)'
                             \/ \E q \in Req : /\ Serving(t, q)' /\ Answering(t, q)'
                                               /\ sNumRx'[t] = Wire(q)
    <3>1. sNumRx'[t] = sNumRx[t]
      BY <2>3 DEF ServerSlotSame
    <3> QED BY <2>1, <2>2, <2>3, <3>1 DEF ServerSlots
  <2>4. ~Done(s)' /\ \A t \in Slots : t # s => (Done(t)' <=> Done(t))
    BY <1>1, <1>2 DEF Active, Done, ServerSlotSame
  <2> QED BY <2>3, <2>4 DEF ServerSlots, Wire
<1>8. Applications'
  <2>1. ASSUME NEW q \in Req, q # r
        PROVE  ~Started(q) \/ reqNum[q] > sCur'[SlotOf(reqNum[q])] => execs'[q] = <<>>
    <3>1. SlotOf(reqNum[q]) \in Slots /\ reqNum[q] \in Nat
      BY SlotOfType DEF TypeOK
    <3>2. reqNum[q] > sCur'[SlotOf(reqNum[q])] => reqNum[q] > sCur[SlotOf(reqNum[q])]
      BY <1>3, <3>1
    <3> QED BY <2>1, <3>2 DEF Applications
  <2>2. ~(~Started(r) \/ reqNum[r] > sCur'[SlotOf(reqNum[r])])
    BY <1>2, <1>3
  <2>3. \A q \in Req : Started(q)' <=> Started(q)
    BY <1>1 DEF Started
  <2>4. \A q \in Req : SlotOf(reqNum[q])' = SlotOf(reqNum[q])
    BY <1>1 DEF SlotOf
  <2>5. ASSUME NEW q \in Req, q # r
        PROVE  /\ execs'[q] \in {<<>>, <<Prefix(q, ReqPkts[q])>>}
               /\ q \in responded' => execs'[q] # <<>>
    BY <2>5 DEF Applications
  <2>6. ASSUME NEW q \in Req
        PROVE  /\ conts'[q] \in {<<>>, <<Prefix(q, RespPkts[q])>>}
               /\ conts'[q] # <<>> => q \in responded'
    BY DEF Applications, Stable
  <2> QED BY <1>1, <2>1, <2>2, <2>3, <2>4, <2>5, <2>6 DEF Applications, Prefix
<1>9. ClientInv'
  BY ClientInvFrame DEF ClientInv
<1> QED BY <1>4, <1>5, <1>6, <1>7, <1>8, <1>9 DEF ClientInv

\* The response packets are well-formed.
LEMMA RespPktType ==
    ASSUME TypeOK, NEW s \in Slots, NEW r \in Req, NEW i \in Nat
    PROVE  /\ RespPkt(s, r, ReqPkts[r], i) \in Pkt
           /\ RespPkt(s, r, ReqPkts[r], i) =
                [type |-> "resp", req_num |-> sCur[s], pkt_num |-> ReqPkts[r] - 1 + i,
                 num_pkts |-> RespPkts[r], msg |-> r, idx |-> i]
<1>1. sCur[s] \in Nat
  BY DEF TypeOK
<1>2. ReqPkts[r] - 1 + i \in Nat /\ RespPkts[r] \in Nat
  BY PktsType
<1> QED BY <1>1, <1>2 DEF RespPkt, Pkt, PktType

\* enqueue_response preserves IInv: the slot goes from Handling to Answering.
LEMMA enqueue_response_IInv ==
    ASSUME IInv, NEW s \in Slots, enqueue_response(s)
    PROVE  IInv'
<1> USE DEF IInv
<1>1. PICK r \in Req : r = req_type[s]
  BY DEF TypeOK, enqueue_response
<1>2. req_type[s] # NoReq
  BY <1>1, ReqAssumption
<1>3. Serving(s, r) /\ Handling(s, r)
  BY <1>1, <1>2 DEF ServerSlots, Fresh, Serving, Receiving, Handling, Answering
<1>4. Active(s) /\ sCur[s] = cCur[s]
  BY <1>2 DEF ServerSlots, Fresh, Answering, Done
<1>5. /\ Started(r) /\ reqNum[r] = sCur[s] /\ reqN[s] = ReqPkts[r]
      /\ sNumRx[s] = ReqPkts[r] /\ execs[r] # <<>> /\ SlotOf(sCur[s]) = s
  BY <1>3 DEF Serving, Handling, Numbering
<1>6. PICK p \in Pkt :
        /\ p = [type |-> "resp", req_num |-> sCur[s], pkt_num |-> ReqPkts[r] - 1,
                num_pkts |-> RespPkts[r], msg |-> r, idx |-> 0]
        /\ p = RespPkt(s, r, ReqPkts[r], 0)
  <2>1. 0 \in Nat /\ ReqPkts[r] - 1 + 0 = ReqPkts[r] - 1
    BY PktsType
  <2>2. RespPkt(s, r, ReqPkts[r], 0) \in Pkt
    BY <2>1, RespPktType, Zenon
  <2>3. RespPkt(s, r, ReqPkts[r], 0) =
          [type |-> "resp", req_num |-> sCur[s], pkt_num |-> ReqPkts[r] - 1 + 0,
           num_pkts |-> RespPkts[r], msg |-> r, idx |-> 0]
    BY <2>1, RespPktType, Zenon
  <2> QED BY <2>1, <2>2, <2>3, Zenon
<1>7. /\ responded' = responded \cup {r}
      /\ sav' = [sav EXCEPT ![s] = ReqPkts[r]]
      /\ reqBuf' = [reqBuf EXCEPT ![s] = {}]
      /\ sTx' = [sTx EXCEPT ![s] = r]
      /\ req_type' = [req_type EXCEPT ![s] = NoReq]
      /\ txq' = txq \cup {p} /\ net' = net
      /\ issued' = issued /\ execs' = execs /\ conts' = conts
      /\ sCur' = sCur /\ sNumRx' = sNumRx /\ reqN' = reqN
      /\ UNCHANGED clientVars
  BY <1>1, <1>5, <1>6 DEF enqueue_response, Post
<1>8. reqNum' = reqNum
  BY <1>7 DEF clientVars, slotVars
<1>9. ReqPkts[r] \in Nat /\ ReqPkts[r] >= 1 /\ RespPkts[r] >= 1 /\ RespPkts[r] \in Nat
      /\ ReqPkts[r] <= Wire(r) /\ Wire(r) \in Nat
  BY PktsType
<1>10. TypeOK'
  BY <1>7, <1>9 DEF TypeOK, clientVars, sessVars, slotVars, wheelVars, Pieces
<1>11. Stable
  <2>1. sCur \in [Slots -> Nat] /\ sNumRx \in [Slots -> Nat]
    BY DEF TypeOK
  <2> QED BY <1>7, <1>8, <2>1 DEF Stable
<1>12. PacketOK(p)'
  <2>1. sCur[s] \in Nat
    BY DEF TypeOK
  <2>2. SlotOf(p.req_num) = s
    BY <1>5, <1>6
  <2> QED BY <1>5, <1>6, <1>7, <1>8, <1>9, <2>1, <2>2 DEF PacketOK, Started, SlotOf
<1>13. Serving(s, r)'
  <2>1. Answering(s, r)'
    <3>1. /\ sav \in [Slots -> Nat] /\ reqBuf \in [Slots -> Pieces]
          /\ sTx \in [Slots -> Req \cup {NoReq}] /\ req_type \in [Slots -> Req \cup {NoReq}]
      BY DEF TypeOK
    <3>2. /\ sav'[s] = ReqPkts[r] /\ reqBuf'[s] = {} /\ sTx'[s] = r
          /\ req_type'[s] = NoReq /\ sNumRx'[s] = ReqPkts[r]
          /\ execs'[r] # <<>> /\ r \in responded'
      BY <1>5, <1>7, <3>1
    <3>3. ReqPkts[r] \in ReqPkts[r]..Wire(r)
      BY <1>9
    <3> QED BY <3>2, <3>3 DEF Answering, Wire
  <2> QED BY <1>5, <1>7, <1>8, <2>1 DEF Serving, Started
<1>14. \A t \in Slots : t # s => ServerSlotSame(t)
  BY <1>7 DEF ServerSlotSame, TypeOK
<1>15. execs'[r] \in {<<>>, <<Prefix(r, ReqPkts[r])>>} /\ execs'[r] # <<>>
  BY <1>5, <1>7 DEF Applications
<1>16. \A m \in net' \cup txq' : m \in net \cup txq \/ PacketOK(m)'
  BY <1>7, <1>12
<1>17. \A q \in Req : q # r => execs'[q] = execs[q] /\ (q \in responded' => q \in responded)
  BY <1>7
<1> QED BY <1>4, <1>5, <1>7, <1>10, <1>11, <1>13, <1>14, <1>15, <1>16, <1>17, ServerStep

\* The server slot whose number is that of request r serves r.
LEMMA ServedBy ==
    ASSUME IInv, NEW s \in Slots, NEW r \in Req, Started(r), reqNum[r] = sCur[s]
    PROVE  /\ Serving(s, r)
           /\ Done(s) => Answering(s, r) /\ sNumRx[s] = Wire(r)
<1>1. ~Fresh(s)
  <2>1. reqNum[r] >= kSessionReqWindow /\ reqNum[r] \in Nat
    BY DEF IInv, Numbering, TypeOK
  <2>2. s \in Nat /\ s < kSessionReqWindow
    BY SessionAssumption DEF Slots
  <2> QED BY <2>1, <2>2, SessionAssumption DEF Fresh
<1>2. \A q \in Req : Serving(s, q) => q = r
  BY DEF IInv, Numbering, Serving
<1> QED BY <1>1, <1>2 DEF IInv, ServerSlots

\* What the server knows of a request packet.
LEMMA ReqPacket ==
    ASSUME IInv, NEW m \in net, m.type = "req", NEW s, s = SlotOf(m.req_num)
    PROVE  /\ s \in Slots /\ m.req_num \in Nat /\ m.pkt_num \in Nat
           /\ m.msg \in Req /\ Started(m.msg) /\ reqNum[m.msg] = m.req_num
           /\ m.num_pkts = ReqPkts[m.msg] /\ m.idx = m.pkt_num
           /\ m.pkt_num < ReqPkts[m.msg]
           /\ m.req_num <= cCur[s]
           /\ m.req_num > sCur[s] =>
                /\ Active(s) /\ m.req_num = cCur[s]
                /\ m.req_num = sCur[s] + kSessionReqWindow
                /\ execs[m.msg] = <<>> /\ m.msg \notin responded
<1> USE DEF IInv
<1>1. m.req_num \in Nat /\ m.pkt_num \in Nat /\ s \in Slots
  BY SlotOfType DEF TypeOK, Pkt
<1>2. PacketOK(m)
  BY DEF Packets
<1>3. /\ m.msg \in Req /\ Started(m.msg) /\ reqNum[m.msg] = m.req_num
      /\ m.num_pkts = ReqPkts[m.msg] /\ m.idx = m.pkt_num
      /\ m.pkt_num < ReqPkts[m.msg]
  BY <1>2 DEF PacketOK
<1>4. m.req_num <= cCur[s]
  BY <1>3 DEF Numbering
<1>5. ASSUME m.req_num > sCur[s]
      PROVE  /\ Active(s) /\ m.req_num = cCur[s]
             /\ m.req_num = sCur[s] + kSessionReqWindow
             /\ execs[m.msg] = <<>> /\ m.msg \notin responded
  <2>1. execs[m.msg] = <<>>
    BY <1>3, <1>5 DEF Applications
  <2>2. sCur[s] # cCur[s]
    BY <1>1, <1>4, <1>5 DEF TypeOK
  <2>3. /\ sCur[s] \in Nat /\ cCur[s] \in Nat /\ SlotOf(sCur[s]) = s
        /\ cCur[s] <= sCur[s] + kSessionReqWindow
    BY <1>1 DEF Numbering, TypeOK
  <2>4. ~(m.req_num < sCur[s] + kSessionReqWindow)
    BY <1>1, <1>5, <2>3, ModDistinct, SessionAssumption DEF SlotOf
  <2>5. m.req_num = cCur[s] /\ m.req_num = sCur[s] + kSessionReqWindow
    BY <1>1, <1>4, <2>3, <2>4, SessionAssumption
  <2> QED BY <1>1, <1>3, <2>1, <2>2, <2>5 DEF Applications, Numbering
<1> QED BY <1>1, <1>3, <1>4, <1>5

\* The re-sent packet is one of the response that the slot holds.
LEMMA ResendResp_IInv ==
    ASSUME IInv, NEW s \in Slots, NEW r \in Req, Answering(s, r), Serving(s, r),
           NEW i \in Nat, i < RespPkts[r], ReqPkts[r] - 1 + i < sNumRx[s],
           ResendResp(s, i)
    PROVE  IInv'
<1> USE DEF IInv
<1>1. PICK p \in Pkt :
        /\ p = [type |-> "resp", req_num |-> sCur[s], pkt_num |-> ReqPkts[r] - 1 + i,
                num_pkts |-> RespPkts[r], msg |-> r, idx |-> i]
        /\ p = RespPkt(s, r, ReqPkts[r], i)
  BY RespPktType, Zenon
<1>2. sTx[s] = r /\ sav[s] = ReqPkts[r] /\ r \in responded
  BY DEF Answering
<1>3. Started(r) /\ reqNum[r] = sCur[s] /\ SlotOf(sCur[s]) = s
  BY DEF Serving, Numbering
<1>4. PacketOK(p)
  <2>1. sCur[s] \in Nat
    BY DEF TypeOK
  <2> QED BY <1>1, <1>2, <1>3, <2>1 DEF PacketOK
<1>5. /\ net' = net \cup ServerTx \cup {p} \cup {} /\ txq' = txq \ ServerTx
      /\ UNCHANGED <<appVars, clientVars, serverVars>>
  BY <1>1, <1>2 DEF ResendResp, PostAndDrain
<1>6. txq \subseteq Pkt /\ net \subseteq Pkt /\ ServerTx \subseteq txq
  BY DEF TypeOK, ServerTx
<1>7. net' \subseteq Pkt /\ txq' \subseteq Pkt
  BY <1>5, <1>6
<1>8. \A m \in net' \cup txq' : m \in net \cup txq \/ PacketOK(m)
  BY <1>4, <1>5, <1>6
<1> QED BY <1>5, <1>7, <1>8, OnlyPackets

\* process_small_req_st preserves IInv, for a new request and a retransmission.
LEMMA process_small_req_st_IInv ==
    ASSUME IInv, NEW m \in net, process_small_req_st(m)
    PROVE  IInv'
<1> USE DEF IInv
<1>1. PICK s : s = SlotOf(m.req_num)
  OBVIOUS
<1>2. m.type = "req" /\ m.num_pkts = 1
  BY DEF process_small_req_st
<1>3. PICK r \in Req : r = m.msg
  BY <1>1, <1>2, ReqPacket
<1>4. /\ s \in Slots /\ m.req_num \in Nat
      /\ Started(r) /\ reqNum[r] = m.req_num
      /\ ReqPkts[r] = 1 /\ m.idx = 0 /\ m.pkt_num = 0
      /\ m.req_num > sCur[s] => /\ Active(s) /\ m.req_num = cCur[s]
                                /\ execs[r] = <<>> /\ r \notin responded
  BY <1>1, <1>2, <1>3, ReqPacket
<1>5. CASE m.req_num = sCur[s] /\ sTx[s] # NoReq /\ ResendResp(s, 0)
  <2>1. Serving(s, r)
    BY <1>4, <1>5, ServedBy
  <2>2. Answering(s, r)
    BY <1>5, <2>1 DEF Serving, Receiving, Handling
  <2>3. 0 \in Nat /\ 0 < RespPkts[r] /\ ReqPkts[r] - 1 + 0 < sNumRx[s]
    BY <2>2, <1>4, PktsType DEF Answering
  <2> QED BY <1>4, <1>5, <2>1, <2>2, <2>3, ResendResp_IInv
<1>6. CASE /\ m.req_num > sCur[s]
           /\ sTx' = [sTx EXCEPT ![s] = NoReq]
           /\ sCur' = [sCur EXCEPT ![s] = m.req_num]
           /\ sNumRx' = [sNumRx EXCEPT ![s] = 1]
           /\ reqN' = [reqN EXCEPT ![s] = 1]
           /\ reqBuf' = [reqBuf EXCEPT ![s] = {<<0, m.msg, m.idx>>}]
           /\ InvokeHandler(s, m.msg, {<<0, m.msg, m.idx>>})
           /\ UNCHANGED <<sav, clientVars, txq, net>>
  <2>1. {<<0, m.msg, m.idx>>} = Prefix(r, ReqPkts[r]) /\ Prefix(r, ReqPkts[r]) \in Pieces
    BY <1>3, <1>4, PrefixOne, PrefixType
  <2>2. /\ reqBuf' = [reqBuf EXCEPT ![s] = Prefix(r, ReqPkts[r])]
        /\ req_type' = [req_type EXCEPT ![s] = r]
        /\ execs' = [execs EXCEPT ![r] = Append(@, Prefix(r, ReqPkts[r]))]
        /\ issued' = issued /\ responded' = responded /\ conts' = conts
    BY <1>3, <1>6, <2>1 DEF InvokeHandler
  <2>3. execs[r] = <<>> /\ Active(s) /\ reqNum[r] = cCur[s] /\ r \notin responded
    BY <1>4, <1>6
  <2>4. execs'[r] = <<Prefix(r, ReqPkts[r])>> /\ execs' \in [Req -> Seq(Pieces)]
    BY <2>1, <2>2, <2>3 DEF TypeOK
  <2>5. TypeOK'
    <3>1. /\ sTx' \in [Slots -> Req \cup {NoReq}] /\ sCur' \in [Slots -> Nat]
          /\ sNumRx' \in [Slots -> Nat] /\ req_type' \in [Slots -> Req \cup {NoReq}]
      BY <1>4, <1>6, <2>2 DEF TypeOK
    <3>2. reqN' \in [Slots -> Nat] /\ reqBuf' \in [Slots -> Pieces] /\ sav' \in [Slots -> Nat]
      <4>1. /\ reqN \in [Slots -> Nat] /\ reqBuf \in [Slots -> Pieces]
            /\ sav \in [Slots -> Nat]
        BY DEF TypeOK
      <4>2. reqN' = [reqN EXCEPT ![s] = 1] /\ sav' = sav
        BY <1>6
      <4>3. reqN' \in [Slots -> Nat]
        BY <4>1, <4>2
      <4>4. reqBuf' \in [Slots -> Pieces]
        BY <2>1, <2>2, <4>1
      <4> QED BY <4>1, <4>2, <4>3, <4>4
    <3>3. responded' \subseteq Req /\ net' \subseteq Pkt /\ txq' \subseteq Pkt
      BY <1>6, <2>2 DEF TypeOK
    <3> QED BY <1>6, <2>2, <2>4, <3>1, <3>2, <3>3, TypeServerStep
  <2>6. reqNum' = reqNum
    BY <1>6 DEF clientVars, slotVars
  <2>7. Stable
    <3>1. sCur \in [Slots -> Nat] /\ sNumRx \in [Slots -> Nat]
      BY DEF TypeOK
    <3> QED BY <1>4, <1>6, <2>2, <2>6, <3>1 DEF Stable
  <2>8. Serving(s, r)'
    <3>1. Handling(s, r)'
      BY <1>4, <1>6, <2>2, <2>3, <2>4 DEF Handling, TypeOK, Prefix
    <3> QED BY <1>4, <1>6, <2>6, <3>1 DEF Serving, Started, TypeOK
  <2>9. \A t \in Slots : t # s => ServerSlotSame(t)
    BY <1>6, <2>2 DEF ServerSlotSame, TypeOK
  <2>10. \A q \in Req : q # r => execs'[q] = execs[q] /\ (q \in responded' => q \in responded)
    BY <2>2 DEF TypeOK
  <2>12. \A x \in net' \cup txq' : x \in net \cup txq \/ PacketOK(x)'
    BY <1>6
  <2>13. UNCHANGED clientVars
    BY <1>6
  <2>14. execs'[r] \in {<<>>, <<Prefix(r, ReqPkts[r])>>} /\ execs'[r] # <<>>
    BY <2>4
  <2> QED BY <1>4, <2>2, <2>3, <2>5, <2>7, <2>8, <2>9, <2>10, <2>12, <2>13,
             <2>14, ServerStep
<1> QED BY <1>1, <1>5, <1>6 DEF process_small_req_st

\* The control packets are well-formed.
LEMMA CtrlPktType ==
    ASSUME NEW type \in {"cr", "rfr"}, NEW n \in Nat, NEW i \in Nat
    PROVE  /\ CtrlPkt(type, n, i) \in Pkt
           /\ CtrlPkt(type, n, i) = [type |-> type, req_num |-> n, pkt_num |-> i,
                                     num_pkts |-> 0, msg |-> NoReq, idx |-> 0]
  BY DEF CtrlPkt, Pkt, PktType

\* The server's credit return for packet i of request r.
LEMMA CrPacket ==
    ASSUME IInv, NEW s \in Slots, NEW r \in Req, Started(r), SlotOf(reqNum[r]) = s,
           reqNum[r] <= sCur[s], NEW i \in Nat, i + 1 < ReqPkts[r]
    PROVE  PacketOK(CtrlPkt("cr", reqNum[r], i))
  BY DEF PacketOK, CtrlPkt

\* process_large_req_one_st receives the packet it expects.
NextReqPacket(m) ==
    m.type = "req" /\ m.num_pkts > 1 /\ LargeReqInOrder(SlotOf(m.req_num), m)

\* process_large_req_one_st receives a packet again.
PastReqPacket(m) ==
    m.type = "req" /\ m.num_pkts > 1 /\ LargeReqPast(SlotOf(m.req_num), m)

\* The next packet of a multi-packet request preserves IInv.
LEMMA LargeReqInOrder_IInv ==
    ASSUME IInv, NEW m \in net, NextReqPacket(m)
    PROVE  IInv'
<1> USE DEF IInv
<1>0. PICK s : s = SlotOf(m.req_num)
  OBVIOUS
<1>a. m.type = "req" /\ m.num_pkts > 1 /\ LargeReqInOrder(s, m)
  BY <1>0 DEF NextReqPacket
<1>1. PICK r \in Req : r = m.msg
  BY <1>a, ReqPacket
<1>2. PICK k \in Nat : k = m.pkt_num
  BY <1>a, ReqPacket
<1>3. /\ s \in Slots /\ m.req_num \in Nat /\ Started(r) /\ reqNum[r] = m.req_num
      /\ m.num_pkts = ReqPkts[r] /\ m.idx = k /\ k < ReqPkts[r]
  BY <1>0, <1>a, <1>1, <1>2, ReqPacket
<1>4. ReqPkts[r] \in Nat /\ ReqPkts[r] > 1 /\ ReqPkts[r] <= Wire(r) /\ Wire(r) \in Nat
  BY <1>a, <1>3, PktsType
\* The state before: the slot has the packets before k, and none after.
<1>5. /\ Active(s) /\ reqNum[r] = cCur[s] /\ req_type[s] = NoReq
      /\ execs[r] = <<>> /\ r \notin responded /\ sCur[s] <= m.req_num
      /\ k = 0 => sCur[s] < m.req_num
      /\ k # 0 => /\ sTx[s] = NoReq /\ sCur[s] = m.req_num /\ sNumRx[s] = k
                  /\ reqN[s] = ReqPkts[r] /\ reqBuf[s] = Prefix(r, k)
  <2>1. sCur[s] \in Nat /\ sNumRx[s] \in Nat
    BY <1>3 DEF TypeOK
  <2>2. CASE m.req_num = sCur[s] /\ k = sNumRx[s]
    <3>1. Serving(s, r) /\ (Done(s) => sNumRx[s] = Wire(r))
      BY <1>3, <2>2, ServedBy
    <3>2. Receiving(s, r) /\ k # 0
      BY <1>3, <1>4, <2>1, <2>2, <3>1 DEF Serving, Handling, Answering, Receiving
    <3>3. ~Done(s)
      <4>1. sNumRx[s] # Wire(r)
        BY <1>3, <1>4, <2>2
      <4> QED BY <3>1, <4>1, Zenon
    <3> QED BY <1>3, <2>1, <2>2, <3>1, <3>2, <3>3 DEF Receiving, Serving, Done
  <2>3. CASE m.req_num = sCur[s] + kSessionReqWindow /\ k = 0
    <3>1. m.req_num > sCur[s]
      BY <2>1, <2>3, SessionAssumption
    <3>2. /\ Active(s) /\ m.req_num = cCur[s] /\ execs[r] = <<>> /\ r \notin responded
      BY <1>0, <1>a, <1>1, <3>1, ReqPacket
    <3>3. Done(s)
      BY <2>1, <3>1, <3>2 DEF Done
    <3>4. req_type[s] = NoReq
      BY <1>3, <3>3 DEF ServerSlots, Fresh, Answering
    <3> QED BY <1>3, <2>1, <2>3, <3>1, <3>2, <3>4
  <2> QED BY <1>a, <1>2, <2>2, <2>3 DEF LargeReqInOrder
<1>6. /\ (IF m.pkt_num = 0 THEN m.num_pkts ELSE reqN[s]) = ReqPkts[r]
      /\ (IF m.pkt_num = 0 THEN 1 ELSE sNumRx[s] + 1) = k + 1
      /\ (IF m.pkt_num = 0 THEN {} ELSE reqBuf[s]) \cup {<<m.pkt_num, m.msg, m.idx>>}
           = Prefix(r, k + 1)
  <2>1. CASE k = 0
    <3>1. Prefix(r, k + 1) = {<<0, r, 0>>}
      BY <2>1, PrefixOne
    <3> QED BY <1>1, <1>2, <1>3, <2>1, <3>1
  <2>2. CASE k # 0
    <3>1. Prefix(r, k + 1) = Prefix(r, k) \cup {<<k, r, k>>}
      BY PrefixNext
    <3> QED BY <1>1, <1>2, <1>3, <1>5, <2>2, <3>1
  <2> QED BY <2>1, <2>2
<1>7. PICK C : C = IF k # ReqPkts[r] - 1 THEN {CtrlPkt("cr", m.req_num, k)} ELSE {}
  OBVIOUS
<1>8. /\ sTx' = IF k = 0 THEN [sTx EXCEPT ![s] = NoReq] ELSE sTx
      /\ sCur' = IF k = 0 THEN [sCur EXCEPT ![s] = m.req_num] ELSE sCur
      /\ sNumRx' = [sNumRx EXCEPT ![s] = k + 1]
      /\ reqN' = [reqN EXCEPT ![s] = ReqPkts[r]]
      /\ reqBuf' = [reqBuf EXCEPT ![s] = Prefix(r, k + 1)]
      /\ txq' = txq /\ net' = net \cup C
      /\ IF k + 1 = ReqPkts[r]
         THEN InvokeHandler(s, r, Prefix(r, k + 1))
         ELSE UNCHANGED <<appVars, req_type>>
      /\ sav' = sav /\ UNCHANGED clientVars
  BY <1>a, <1>1, <1>2, <1>6, <1>7 DEF LargeReqInOrder, Post
<1>9. /\ reqNum' = reqNum /\ issued' = issued /\ conts' = conts /\ responded' = responded
      /\ \A q \in Req : q # r => execs'[q] = execs[q]
  BY <1>8 DEF InvokeHandler, appVars, clientVars, slotVars, TypeOK
<1>10. Prefix(r, k + 1) \in Pieces
  BY PrefixType
<1>11. IF k + 1 = ReqPkts[r]
       THEN /\ execs'[r] = <<Prefix(r, ReqPkts[r])>> /\ execs' \in [Req -> Seq(Pieces)]
            /\ req_type' = [req_type EXCEPT ![s] = r]
       ELSE execs' = execs /\ req_type' = req_type
  <2>1. execs \in [Req -> Seq(Pieces)]
    BY DEF TypeOK
  <2>2. CASE k + 1 = ReqPkts[r]
    <3>1. /\ execs' = [execs EXCEPT ![r] = Append(execs[r], Prefix(r, k + 1))]
          /\ req_type' = [req_type EXCEPT ![s] = r]
      BY <1>8, <2>2 DEF InvokeHandler
    <3>2. Append(execs[r], Prefix(r, k + 1)) = <<Prefix(r, k + 1)>>
      BY <1>5
    <3>3. <<Prefix(r, k + 1)>> \in Seq(Pieces)
      BY <1>10
    <3> QED BY <2>1, <2>2, <3>1, <3>2, <3>3
  <2>3. CASE k + 1 # ReqPkts[r]
    BY <1>8, <2>3 DEF appVars
  <2> QED BY <2>2, <2>3
<1>12. \A p \in C : p \in Pkt /\ PacketOK(p)'
  <2>1. CASE k # ReqPkts[r] - 1
    <3>1. PICK p : p = [type |-> "cr", req_num |-> m.req_num, pkt_num |-> k,
                        num_pkts |-> 0, msg |-> NoReq, idx |-> 0]
      OBVIOUS
    <3>2. C = {p} /\ p \in Pkt
      BY <1>3, <1>7, <2>1, <3>1, CtrlPktType
    <3>3. k + 1 < ReqPkts[r]
      BY <1>3, <1>4, <2>1
    <3>4. sCur'[s] = m.req_num
      BY <1>3, <1>5, <1>8 DEF TypeOK
    <3>5. PacketOK(p)'
      BY <1>0, <1>3, <1>9, <3>1, <3>3, <3>4 DEF PacketOK, Started, SlotOf
    <3> QED BY <3>2, <3>5
  <2> QED BY <1>7, <2>1
<1>13. TypeOK'
  <2>1. sTx' \in [Slots -> Req \cup {NoReq}] /\ sCur' \in [Slots -> Nat]
    BY <1>3, <1>8 DEF TypeOK
  <2>2. sNumRx' \in [Slots -> Nat] /\ req_type' \in [Slots -> Req \cup {NoReq}]
    <3>1. sNumRx \in [Slots -> Nat] /\ req_type \in [Slots -> Req \cup {NoReq}]
      BY DEF TypeOK
    <3>2. sNumRx' \in [Slots -> Nat]
      <4>1. sNumRx' = [sNumRx EXCEPT ![s] = k + 1]
        BY <1>8, Zenon
      <4>2. k + 1 \in Nat
        OBVIOUS
      <4> QED BY <3>1, <4>1, <4>2, Zenon
    <3>3. req_type' = [req_type EXCEPT ![s] = r] \/ req_type' = req_type
      BY <1>11, Zenon
    <3> QED BY <3>1, <3>2, <3>3
  <2>3. reqN' \in [Slots -> Nat] /\ reqBuf' \in [Slots -> Pieces] /\ sav' \in [Slots -> Nat]
    BY <1>3, <1>4, <1>8, <1>10 DEF TypeOK
  <2>4. /\ responded' \subseteq Req /\ net' \subseteq Pkt /\ txq' \subseteq Pkt
        /\ execs' \in [Req -> Seq(Pieces)]
    BY <1>8, <1>9, <1>11, <1>12 DEF TypeOK
  <2> QED BY <1>8, <1>9, <2>1, <2>2, <2>3, <2>4, TypeServerStep
<1>14. Stable
  <2>1. sCur \in [Slots -> Nat] /\ sNumRx \in [Slots -> Nat]
    BY DEF TypeOK
  <2>2. \A t \in Slots : /\ sCur[t] <= sCur'[t]
                         /\ sCur'[t] = sCur[t] => sNumRx[t] <= sNumRx'[t]
    <3>1. ASSUME NEW t \in Slots, t # s PROVE sCur'[t] = sCur[t] /\ sNumRx'[t] = sNumRx[t]
      BY <1>8, <2>1, <3>1
    <3>2. sCur'[s] = m.req_num /\ sNumRx'[s] = k + 1
      BY <1>3, <1>5, <1>8, <2>1
    <3>3. sCur[s] <= m.req_num /\ (m.req_num = sCur[s] => sNumRx[s] <= k + 1)
      BY <1>3, <1>5, <2>1
    <3> QED BY <2>1, <3>1, <3>2, <3>3
  <2> QED BY <1>9, <2>2 DEF Stable
<1>15. Serving(s, r)'
  <2>1. /\ sTx'[s] = NoReq /\ sCur'[s] = m.req_num /\ sNumRx'[s] = k + 1
        /\ reqN'[s] = ReqPkts[r] /\ reqBuf'[s] = Prefix(r, k + 1)
    BY <1>3, <1>5, <1>8 DEF TypeOK
  <2>2. CASE k + 1 = ReqPkts[r]
    <3>1. req_type'[s] = r
      BY <1>3, <1>11, <2>2 DEF TypeOK
    <3>2. execs'[r] # <<>> /\ r \notin responded'
      <4>1. execs'[r] = <<Prefix(r, ReqPkts[r])>>
        BY <1>11, <2>2, Zenon
      <4>2. <<Prefix(r, ReqPkts[r])>> # <<>>
        OBVIOUS
      <4> QED BY <1>5, <1>9, <4>1, <4>2, Zenon
    <3>3. Handling(s, r)'
      BY <2>1, <2>2, <3>1, <3>2 DEF Handling, Prefix
    <3> QED BY <1>3, <1>9, <2>1, <3>3 DEF Serving, Started
  <2>3. CASE k + 1 # ReqPkts[r]
    <3>1. Receiving(s, r)'
      BY <1>3, <1>4, <1>5, <1>9, <1>11, <2>1, <2>3 DEF Receiving, Prefix
    <3> QED BY <1>3, <1>9, <2>1, <3>1 DEF Serving, Started
  <2> QED BY <2>2, <2>3
<1>16. \A t \in Slots : t # s => ServerSlotSame(t)
  BY <1>8, <1>11 DEF ServerSlotSame, TypeOK
<1>17. \A p \in net' \cup txq' : p \in net \cup txq \/ PacketOK(p)'
  BY <1>8, <1>12
<1>18. execs'[r] \in {<<>>, <<Prefix(r, ReqPkts[r])>>} /\ (r \in responded' => execs'[r] # <<>>)
  BY <1>5, <1>9, <1>11
<1>19. \A q \in Req : q # r => execs'[q] = execs[q] /\ (q \in responded' => q \in responded)
  BY <1>9
<1> QED BY <1>3, <1>5, <1>8, <1>9, <1>13, <1>14, <1>15, <1>16, <1>17, <1>18, <1>19,
           ServerStep

\* A packet of the current request that was received before preserves IInv.
LEMMA LargeReqPast_IInv ==
    ASSUME IInv, NEW m \in net, PastReqPacket(m)
    PROVE  IInv'
<1> USE DEF IInv
<1>0. PICK s : s = SlotOf(m.req_num)
  OBVIOUS
<1>a. m.type = "req" /\ m.num_pkts > 1 /\ LargeReqPast(s, m)
  BY <1>0 DEF PastReqPacket
<1>1. PICK r \in Req : r = m.msg
  BY <1>a, ReqPacket
<1>2. /\ s \in Slots /\ m.req_num \in Nat /\ Started(r) /\ reqNum[r] = m.req_num
      /\ m.num_pkts = ReqPkts[r] /\ m.pkt_num \in Nat /\ m.pkt_num < ReqPkts[r]
  BY <1>0, <1>a, <1>1, ReqPacket
<1>3. m.req_num = sCur[s] /\ m.pkt_num < sNumRx[s]
  BY <1>a DEF LargeReqPast
<1>4. ReqPkts[r] \in Nat /\ RespPkts[r] \in Nat /\ RespPkts[r] >= 1
  BY PktsType
<1>5. CASE /\ m.pkt_num # m.num_pkts - 1
           /\ Post({}, {CtrlPkt("cr", m.req_num, m.pkt_num)})
           /\ UNCHANGED <<appVars, clientVars, serverVars>>
  <2>1. PICK p \in Pkt : p = CtrlPkt("cr", m.req_num, m.pkt_num)
    BY <1>2, CtrlPktType
  <2>2. m.pkt_num + 1 < ReqPkts[r]
    BY <1>2, <1>4, <1>5
  <2>3. sCur[s] \in Nat /\ reqNum[r] <= sCur[s] /\ SlotOf(reqNum[r]) = s
    BY <1>0, <1>2, <1>3
  <2>4. PacketOK(CtrlPkt("cr", reqNum[r], m.pkt_num))
    BY <1>2, <2>2, <2>3, CrPacket
  <2>5. PacketOK(p)
    BY <1>2, <2>1, <2>4
  <2>6. txq' = txq /\ net' = net \cup {p}
    BY <1>5, <2>1 DEF Post
  <2>7. txq \subseteq Pkt /\ net \subseteq Pkt
    BY DEF TypeOK
  <2>8. txq' \subseteq Pkt /\ net' \subseteq Pkt
    BY <2>6, <2>7
  <2>9. \A x \in net' \cup txq' : x \in net \cup txq \/ PacketOK(x)
    BY <2>5, <2>6
  <2> QED BY <1>5, <2>8, <2>9, OnlyPackets
<1>6. CASE m.pkt_num = m.num_pkts - 1 /\ sTx[s] # NoReq /\ ResendResp(s, 0)
  <2>1. Serving(s, r)
    BY <1>2, <1>3, ServedBy
  <2>2. Answering(s, r)
    BY <1>6, <2>1 DEF Serving, Receiving, Handling
  <2>3. ReqPkts[r] - 1 + 0 < sNumRx[s]
    BY <1>2, <1>4, <2>2 DEF Answering
  <2> QED BY <1>2, <1>4, <1>6, <2>1, <2>2, <2>3, ResendResp_IInv
<1> QED BY <1>a, <1>5, <1>6 DEF LargeReqPast

\* process_large_req_one_st preserves IInv.
LEMMA process_large_req_one_st_IInv ==
    ASSUME IInv, NEW m \in net, process_large_req_one_st(m)
    PROVE  IInv'
<1>1. NextReqPacket(m) \/ PastReqPacket(m)
  BY DEF process_large_req_one_st, NextReqPacket, PastReqPacket
<1> QED BY <1>1, LargeReqInOrder_IInv, LargeReqPast_IInv

\* process_rfr_st preserves IInv: the response is still held.
LEMMA process_rfr_st_IInv ==
    ASSUME IInv, NEW m \in net, process_rfr_st(m)
    PROVE  IInv'
<1> USE DEF IInv
<1>0. PICK s : s = SlotOf(m.req_num)
  OBVIOUS
<1>1. m.type = "rfr" /\ m.req_num = sCur[s]
  BY <1>0 DEF process_rfr_st
<1>2. PICK k \in Nat : k = m.pkt_num
  BY DEF TypeOK, Pkt
<1>3. s \in Slots /\ m.req_num \in Nat
  BY <1>0, SlotOfType DEF TypeOK, Pkt
<1>4. PICK r \in Req : /\ Started(r) /\ reqNum[r] = m.req_num
                       /\ ReqPkts[r] <= k /\ k < Wire(r) /\ r \in responded
  BY <1>1, <1>2 DEF Packets, PacketOK
<1>5. /\ ReqPkts[r] \in Nat /\ ReqPkts[r] >= 1 /\ RespPkts[r] \in Nat
      /\ Wire(r) = ReqPkts[r] + RespPkts[r] - 1
  BY PktsType DEF Wire
<1>6. Serving(s, r) /\ Answering(s, r) /\ (Done(s) => sNumRx[s] = Wire(r))
  <2>1. Serving(s, r) /\ (Done(s) => sNumRx[s] = Wire(r))
    BY <1>1, <1>3, <1>4, ServedBy
  <2> QED BY <1>4, <2>1 DEF Serving, Receiving, Handling
<1>7. /\ sTx[s] = r /\ sav[s] = ReqPkts[r] /\ sNumRx[s] \in Nat
      /\ sNumRx[s] >= ReqPkts[r] /\ sNumRx[s] <= Wire(r) /\ sCur[s] = reqNum[r]
  BY <1>1, <1>3, <1>4, <1>6 DEF Answering, TypeOK
<1>8. PICK i \in Nat : /\ i = resp_ntoi(m.pkt_num, sav[s])
                       /\ i < RespPkts[r] /\ ReqPkts[r] - 1 + i = k
  BY <1>2, <1>4, <1>5, <1>7 DEF resp_ntoi
<1>9. CASE m.pkt_num < sNumRx[s] /\ ResendResp(s, i)
  BY <1>2, <1>3, <1>6, <1>8, <1>9, ResendResp_IInv
<1>10. CASE /\ m.pkt_num = sNumRx[s]
            /\ sNumRx' = [sNumRx EXCEPT ![s] = @ + 1]
            /\ Post({RespPkt(s, sTx[s], sav[s], i)}, {})
            /\ UNCHANGED <<appVars, clientVars, sTx, sCur, req_type, reqN, reqBuf, sav>>
  <2>1. PICK p \in Pkt :
          /\ p = [type |-> "resp", req_num |-> sCur[s], pkt_num |-> ReqPkts[r] - 1 + i,
                  num_pkts |-> RespPkts[r], msg |-> r, idx |-> i]
          /\ p = RespPkt(s, r, ReqPkts[r], i)
    BY <1>3, RespPktType, Zenon
  <2>2. txq' = txq \cup {p} /\ net' = net
    BY <1>7, <1>10, <2>1 DEF Post
  <2>3. sNumRx' = [sNumRx EXCEPT ![s] = k + 1] /\ k = sNumRx[s]
    BY <1>2, <1>10
  <2>4. /\ sTx' = sTx /\ sCur' = sCur /\ req_type' = req_type /\ reqN' = reqN
        /\ reqBuf' = reqBuf /\ sav' = sav /\ UNCHANGED clientVars /\ reqNum' = reqNum
        /\ issued' = issued /\ execs' = execs /\ responded' = responded /\ conts' = conts
    BY <1>10 DEF appVars, clientVars, slotVars
  <2>5. TypeOK'
    <3>1. /\ sNumRx \in [Slots -> Nat] /\ txq \subseteq Pkt
      BY DEF TypeOK
    <3>2. k + 1 \in Nat
      OBVIOUS
    <3>3. sNumRx' \in [Slots -> Nat] /\ txq' \subseteq Pkt
      BY <2>2, <2>3, <3>1, <3>2, Zenon
    <3> QED BY <2>2, <2>4, <3>3, TypeServerStep DEF TypeOK
  <2>6. \A t \in Slots : t # s => ServerSlotSame(t)
    BY <2>3, <2>4 DEF ServerSlotSame, TypeOK
  <2>7. sNumRx'[s] = k + 1
    BY <1>3, <2>3 DEF TypeOK
  <2>8. Stable
    <3>1. sCur \in [Slots -> Nat] /\ sNumRx \in [Slots -> Nat]
      BY DEF TypeOK
    <3>2. \A t \in Slots : sCur[t] <= sCur'[t] /\ sNumRx[t] <= sNumRx'[t]
      BY <2>3, <2>4, <2>6, <2>7, <3>1 DEF ServerSlotSame
    <3> QED BY <2>4, <3>2 DEF Stable
  <2>9. Serving(s, r)'
    <3>1. sTx[s] = r /\ req_type[s] = NoReq /\ reqBuf[s] = {} /\ execs[r] # <<>>
      BY <1>6 DEF Answering
    <3>2. k + 1 \in ReqPkts[r]..Wire(r)
      BY <1>4, <1>5
    <3>3. Answering(s, r)'
      BY <1>4, <1>7, <2>4, <2>7, <3>1, <3>2 DEF Answering, Wire
    <3>4. reqN[s] = ReqPkts[r]
      BY <1>6 DEF Serving
    <3> QED BY <1>4, <1>7, <2>4, <3>3, <3>4 DEF Serving, Started
  <2>10. PacketOK(p)'
    <3>1. SlotOf(sCur[s]) = s /\ sCur[s] \in Nat
      BY <1>3 DEF Numbering, TypeOK
    <3> QED BY <1>4, <1>7, <1>8, <2>1, <2>4, <2>7, <3>1 DEF PacketOK, Started, SlotOf
  <2>11. \A x \in net' \cup txq' : x \in net \cup txq \/ PacketOK(x)'
    BY <2>2, <2>10
  <2>12. Active(s) /\ reqNum[r] = cCur[s]
    <3>1. ~Done(s)
      <4>1. sNumRx[s] # Wire(r)
        BY <1>4, <1>5, <2>3
      <4> QED BY <1>6, <4>1, Zenon
    <3> QED BY <1>7, <3>1 DEF Done
  <2>13. execs'[r] \in {<<>>, <<Prefix(r, ReqPkts[r])>>} /\ execs'[r] # <<>>
    BY <1>6, <2>4 DEF Applications, Answering
  <2>14. \A q \in Req : q # r => execs'[q] = execs[q] /\ (q \in responded' => q \in responded)
    BY <2>4
  <2> QED BY <1>3, <1>4, <2>4, <2>5, <2>6, <2>8, <2>9, <2>11, <2>12, <2>13, <2>14,
             ServerStep
<1> QED BY <1>0, <1>8, <1>9, <1>10 DEF process_rfr_st
===============================================================================
