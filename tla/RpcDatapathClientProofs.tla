----------------------- MODULE RpcDatapathClientProofs -----------------------
(***************************************************************************)
(* The steps of the client preserve IInv.                                  *)
(*                                                                         *)
(* A step changes the counters of one slot.  Credits are conserved because *)
(* the window num_tx - num_rx of that slot changes by as many packets as   *)
(* credits are spent or returned; the wheel stays tracked because the      *)
(* packets of a window have distinct indexes modulo kSessionCredits.       *)
(***************************************************************************)
EXTENDS RpcDatapathProofs

\* The part of WheelTracking and WheelPackets that speaks of slot s.
SlotWheel(s) ==
    /\ Tracked(WheelEntries(s), in_wheel[s], wheel_count[s])
    /\ WheelEntries(s) \subseteq Entries(s, num_rx[s], num_tx[s])
    /\ WheelEntries(s) # {} => Active(s) /\ kCcPacing
    /\ \A e \in WheelEntries(s) : e[2] < ReqPkts[cReq[s]]

\* WheelTracking and WheelPackets are SlotWheel for every slot.
LEMMA WheelSlots ==
    ASSUME TypeOK, WheelTracking, WheelPackets
    PROVE  \A s \in Slots : SlotWheel(s)
<1> SUFFICES ASSUME NEW s \in Slots PROVE SlotWheel(s)
  OBVIOUS
<1>1. num_rx[s] \in Nat /\ num_tx[s] \in Nat
  BY DEF TypeOK
<1>2. Tracked(WheelEntries(s), in_wheel[s], wheel_count[s])
  BY DEF WheelTracking, Tracked
<1>3. ASSUME NEW e \in WheelEntries(s)
      PROVE  /\ e \in Entries(s, num_rx[s], num_tx[s]) /\ Active(s) /\ kCcPacing
             /\ e[2] < ReqPkts[cReq[s]]
  <2>1. e \in wheel /\ e[1] = s /\ e \in Slots \X Nat
    BY DEF WheelEntries, TypeOK
  <2>2. Active(s) /\ num_rx[s] <= e[2] /\ e[2] < num_tx[s]
    BY DEF WheelTracking
  <2>3. e = <<s, e[2]>> /\ e[2] \in num_rx[s]..(num_tx[s] - 1)
    BY <1>1, <2>1, <2>2
  <2>4. kCcPacing /\ e[2] < ReqPkts[cReq[s]]
    BY <2>1 DEF WheelPackets
  <2> QED BY <2>2, <2>3, <2>4 DEF Entries
<1> QED BY <1>2, <1>3 DEF SlotWheel

\* The converse, in the next state.
LEMMA WheelSlotsNext ==
    ASSUME TypeOK', \A s \in Slots : SlotWheel(s)'
    PROVE  WheelTracking' /\ WheelPackets'
<1>1. ASSUME NEW s \in Slots, NEW e \in WheelEntries(s)'
      PROVE  Active(s)' /\ num_rx'[s] <= e[2] /\ e[2] < num_tx'[s]
  <2>1. num_rx'[s] \in Nat /\ num_tx'[s] \in Nat
    BY DEF TypeOK
  <2>2. e \in Entries(s, num_rx[s], num_tx[s])' /\ Active(s)'
    BY DEF SlotWheel
  <2> QED BY <2>1, <2>2 DEF Entries
<1>2. \A s \in Slots : Tracked(WheelEntries(s), in_wheel[s], wheel_count[s])'
  BY DEF SlotWheel
<1>3. WheelTracking'
  BY <1>1, <1>2 DEF WheelTracking, Tracked
<1>4. ASSUME NEW e \in wheel'
      PROVE  kCcPacing /\ Active(e[1])' /\ e[2] < ReqPkts[cReq'[e[1]]]
  <2>1. PICK s \in Slots : s = e[1]
    BY DEF TypeOK
  <2>2. e \in WheelEntries(s)'
    BY <2>1 DEF WheelEntries
  <2>3. kCcPacing /\ Active(s)' /\ e[2] < ReqPkts[cReq'[s]]
    BY <2>2 DEF SlotWheel
  <2> QED BY <2>1, <2>3
<1> QED BY <1>3, <1>4 DEF WheelPackets

\* The counters of a client slot stay within the bound of Outstanding.
LEMMA Counters ==
    ASSUME TypeOK, ClientSlots, NEW s \in Slots
    PROVE  /\ num_rx[s] \in Nat /\ num_tx[s] \in Nat
           /\ num_rx[s] <= num_tx[s] /\ num_tx[s] <= 2 * MaxPkts
<1>1. num_rx[s] \in Nat /\ num_tx[s] \in Nat
  BY DEF TypeOK
<1>2. CASE Active(s)
  <2>1. cReq[s] \in Req
    BY <1>2 DEF TypeOK, Active
  <2>2. Wire(cReq[s]) \in Nat /\ Wire(cReq[s]) <= 2 * MaxPkts - 1 /\ MaxPkts \in Nat
    BY <2>1, PktsType
  <2>3. num_rx[s] <= num_tx[s] /\ num_tx[s] <= Wire(cReq[s])
    BY <1>2 DEF ClientSlots, ClientSlotOK
  <2> QED BY <1>1, <2>2, <2>3
<1>3. CASE ~Active(s)
  BY <1>1, <1>3 DEF ClientSlots
<1> QED BY <1>2, <1>3

\* A slot's window and the available credits fit into the session's credits.
LEMMA Window ==
    ASSUME TypeOK, ClientSlots, CreditConservation, NEW s \in Slots
    PROVE  credits + (num_tx[s] - num_rx[s]) <= kSessionCredits
<1>1. num_rx \in [Slots -> Nat] /\ num_tx \in [Slots -> Nat]
  BY DEF TypeOK
<1>2. /\ num_rx[s] \in Nat /\ num_tx[s] \in Nat
      /\ num_rx[s] <= num_tx[s] /\ num_tx[s] <= 2 * MaxPkts
  BY Counters
<1>3. /\ Cardinality(Outstanding(num_rx, num_tx)) \in Nat
      /\ num_tx[s] - num_rx[s] <= Cardinality(Outstanding(num_rx, num_tx))
  BY <1>1, <1>2, OutstandingStep
<1>4. credits \in Nat /\ kSessionCredits \in Nat
  BY SessionAssumption DEF TypeOK
<1> QED BY <1>2, <1>3, <1>4 DEF CreditConservation

\* Credits are conserved when the window of slot s changes by what is spent.
LEMMA CreditStep ==
    ASSUME TypeOK, ClientSlots, CreditConservation, NEW s \in Slots,
           num_rx' \in [Slots -> Nat], num_tx' \in [Slots -> Nat],
           \A t \in Slots \ {s} : num_rx'[t] = num_rx[t] /\ num_tx'[t] = num_tx[t],
           num_rx'[s] <= num_tx'[s], num_tx'[s] <= 2 * MaxPkts,
           credits' \in Nat,
           credits' + (num_tx'[s] - num_rx'[s]) = credits + (num_tx[s] - num_rx[s])
    PROVE  CreditConservation' /\ credits' \in 0..kSessionCredits
<1>1. num_rx \in [Slots -> Nat] /\ num_tx \in [Slots -> Nat]
  BY DEF TypeOK
<1>2. /\ num_rx[s] \in Nat /\ num_tx[s] \in Nat
      /\ num_rx[s] <= num_tx[s] /\ num_tx[s] <= 2 * MaxPkts
  BY Counters
<1>3. PICK O : O = Cardinality(Outstanding(num_rx, num_tx))
  OBVIOUS
<1>4. PICK P : P = Cardinality(Outstanding(num_rx', num_tx'))
  OBVIOUS
<1>5. O \in Nat /\ P \in Nat /\ P = O - (num_tx[s] - num_rx[s]) + (num_tx'[s] - num_rx'[s])
  <2>1. O \in Nat
    BY <1>1, <1>2, <1>3, OutstandingStep
  <2>2. P \in Nat /\ P = O - (num_tx[s] - num_rx[s]) + (num_tx'[s] - num_rx'[s])
    BY <1>1, <1>2, <1>3, <1>4, OutstandingStep, SMTT(30)
  <2> QED BY <2>1, <2>2
<1>6. credits \in Nat /\ kSessionCredits \in Nat /\ credits + O = kSessionCredits
  BY <1>3, SessionAssumption DEF TypeOK, CreditConservation
<1>7. num_rx'[s] \in Nat /\ num_tx'[s] \in Nat
  OBVIOUS
<1>8. credits' + P = kSessionCredits
  BY <1>2, <1>5, <1>6, <1>7, SMTT(30)
<1>9. CreditConservation'
  BY <1>4, <1>8 DEF CreditConservation, Outstanding
<1> QED BY <1>5, <1>6, <1>8, <1>9

-------------------------------------------------------------------------------
(***************************************************************************)
(* Kicking a slot.                                                         *)
(***************************************************************************)
\* The wheel's entries of slot t are the same in the next state.
WheelSame(t) ==
    /\ in_wheel'[t] = in_wheel[t] /\ wheel_count'[t] = wheel_count[t]
    /\ WheelEntries(t)' = WheelEntries(t)

\* A credit comes back for the packet that num_rx = x counts.
LEMMA CreditBack ==
    ASSUME NEW c \in Nat, NEW t \in Nat, NEW x \in Nat, NEW a, a = x + 1
    PROVE  /\ c + 1 > 0 /\ c + 1 \in Nat
           /\ (c + 1) + (t - a) = c + (t - x)
  OBVIOUS

\* The parts of TypeOK that kick_req_st and kick_rfr_st can disturb.
KickType ==
    /\ num_tx \in [Slots -> Nat]
    /\ wheel \subseteq Slots \X Nat
    /\ in_wheel \in [Slots -> SUBSET (0..(kSessionCredits - 1))]
    /\ wheel_count \in [Slots -> Nat]
    /\ txq \subseteq Pkt
    /\ net \subseteq Pkt

\* Packets of a request MsgBuffer are packets.
LEMMA ReqPktType ==
    ASSUME NEW r \in Req, NEW n \in Nat, NEW i \in Nat
    PROVE  ReqPkt(r, n, i) \in Pkt
  BY PktsType DEF ReqPkt, Pkt, PktType

\* What kick_req_st does: it sends the packets from .. to-1, at least one, and
\* spends a credit on each; the window of the slot starts at packet a.
Kicked(s, r, num, from, crd, to, a) ==
    /\ from < to /\ to <= ReqPkts[r]
    /\ num_tx' = [num_tx EXCEPT ![s] = to]
    /\ credits' \in Nat /\ credits' + to = crd + from
    /\ KickType'
    /\ \A m \in net' \cup txq' :
         m \in net \cup txq \/ \E i \in from..(to - 1) : m = ReqPkt(r, num, i)
    /\ Tracked(WheelEntries(s), in_wheel[s], wheel_count[s])'
    /\ WheelEntries(s)' \subseteq Entries(s, a, to)
    /\ WheelEntries(s)' # {} => kCcPacing
    /\ \A t \in Slots \ {s} : WheelSame(t)

\* kick_req_st does so when the wheel entries of the slot lie in its window.
LEMMA KickReq ==
    ASSUME TypeOK, NEW s \in Slots, NEW r \in Req, NEW num \in Nat,
           NEW a \in Nat, NEW from \in Nat, a <= from, from < ReqPkts[r],
           NEW crd \in Nat, crd > 0, crd + (from - a) <= kSessionCredits,
           NEW drain \in BOOLEAN, kick_req_st(s, r, num, from, crd, drain),
           Tracked(WheelEntries(s), in_wheel[s], wheel_count[s]),
           WheelEntries(s) \subseteq Entries(s, a, from),
           WheelEntries(s) # {} => kCcPacing
    PROVE  \E to \in Nat : Kicked(s, r, num, from, crd, to, a)
<1>1. ReqPkts[r] \in Nat
  BY PktsType
<1>2. PICK k \in Nat : k = Minimum(crd, ReqPkts[r] - from)
  BY <1>1 DEF Minimum
<1>3. k > 0 /\ k <= crd /\ from + k <= ReqPkts[r]
  BY <1>1, <1>2 DEF Minimum
<1>4. PICK to \in Nat : to = from + k
  OBVIOUS
<1> DEFINE sending == Minimum(crd, ReqPkts[r] - from)
           nums    == from..(from + sending - 1)
           D       == {ReqPkt(r, num, i) : i \in nums}
           W       == {<<s, i>> : i \in nums}
           I       == {i % kSessionCredits : i \in nums}
<1>5. /\ num_tx' = [num_tx EXCEPT ![s] = from + sending]
      /\ credits' = crd - sending
      /\ \/ /\ IF drain THEN PostAndDrain(ClientTx, D, {}) ELSE Post(D, {})
            /\ UNCHANGED wheelVars
         \/ /\ kCcPacing
            /\ IF drain THEN PostAndDrain(ClientTx, {}, {}) ELSE Post({}, {})
            /\ wheel' = wheel \cup W
            /\ in_wheel' = [in_wheel EXCEPT ![s] = @ \cup I]
            /\ wheel_count' = [wheel_count EXCEPT ![s] = @ + sending]
  BY Zenon DEF kick_req_st
<1>a. sending = k /\ nums = from..(to - 1)
  BY <1>2, <1>4
<1> HIDE DEF sending, nums
<1>b. /\ D = {ReqPkt(r, num, i) : i \in from..(to - 1)}
      /\ W = Entries(s, from, to)
      /\ I = {i % kSessionCredits : i \in from..(to - 1)}
  BY <1>a, Zenon DEF Entries
<1> HIDE DEF D, W, I
<1>6. /\ num_tx' = [num_tx EXCEPT ![s] = to]
      /\ credits' = crd - k
      /\ \/ /\ IF drain THEN PostAndDrain(ClientTx, D, {}) ELSE Post(D, {})
            /\ UNCHANGED wheelVars
         \/ /\ kCcPacing
            /\ IF drain THEN PostAndDrain(ClientTx, {}, {}) ELSE Post({}, {})
            /\ wheel' = wheel \cup Entries(s, from, to)
            /\ in_wheel' = [in_wheel EXCEPT ![s] = @ \cup I]
            /\ wheel_count' = [wheel_count EXCEPT ![s] = @ + k]
  BY <1>4, <1>5, <1>a, <1>b, Zenon
<1>7. /\ num_tx \in [Slots -> Nat] /\ wheel \subseteq Slots \X Nat
      /\ in_wheel \in [Slots -> SUBSET (0..(kSessionCredits - 1))]
      /\ wheel_count \in [Slots -> Nat] /\ txq \subseteq Pkt /\ net \subseteq Pkt
  BY DEF TypeOK
<1>8. D \subseteq Pkt
  BY <1>b, ReqPktType
<1>9. /\ txq' \subseteq Pkt /\ net' \subseteq Pkt
      /\ \A m \in net' \cup txq' : m \in net \cup txq \/ m \in D
  BY <1>6, <1>7, <1>8 DEF Post, PostAndDrain, ClientTx
<1>10. \A m \in net' \cup txq' :
         m \in net \cup txq \/ \E i \in from..(to - 1) : m = ReqPkt(r, num, i)
  BY <1>9, <1>b
<1>11. num_tx' \in [Slots -> Nat]
  BY <1>6, <1>7, Zenon
<1>12. credits' \in Nat /\ credits' + to = crd + from
  BY <1>3, <1>4, <1>6
<1>13. /\ wheel' \subseteq Slots \X Nat
       /\ in_wheel' \in [Slots -> SUBSET (0..(kSessionCredits - 1))]
       /\ wheel_count' \in [Slots -> Nat]
       /\ Tracked(WheelEntries(s), in_wheel[s], wheel_count[s])'
       /\ WheelEntries(s)' \subseteq Entries(s, a, to)
       /\ WheelEntries(s)' # {} => kCcPacing
       /\ \A t \in Slots \ {s} : WheelSame(t)
  <2>1. CASE UNCHANGED wheelVars
    <3>1. wheel' = wheel /\ in_wheel' = in_wheel /\ wheel_count' = wheel_count
      BY <2>1 DEF wheelVars
    <3>2. \A t : WheelEntries(t)' = WheelEntries(t)
      BY <3>1 DEF WheelEntries
    <3>3. Entries(s, a, from) \subseteq Entries(s, a, to)
      BY <1>3, <1>4 DEF Entries
    <3>4. Tracked(WheelEntries(s), in_wheel[s], wheel_count[s])'
      BY <3>1, <3>2 DEF Tracked
    <3> QED BY <1>7, <3>1, <3>2, <3>3, <3>4 DEF WheelSame
  <2>2. CASE /\ kCcPacing
             /\ wheel' = wheel \cup Entries(s, from, to)
             /\ in_wheel' = [in_wheel EXCEPT ![s] = @ \cup I]
             /\ wheel_count' = [wheel_count EXCEPT ![s] = @ + k]
    <3>1. wheel' = wheel \cup Entries(s, from, to)
      BY <2>2
    <3>2. \A e \in Entries(s, from, to) : e \in Slots \X Nat /\ e[1] = s
      BY DEF Entries
    <3>3. WheelEntries(s)' = WheelEntries(s) \cup Entries(s, from, to)
      BY <3>1, <3>2 DEF WheelEntries
    <3>4. \A t \in Slots \ {s} : WheelEntries(t)' = WheelEntries(t)
      BY <3>1, <3>2 DEF WheelEntries
    <3>5. /\ in_wheel'[s] = in_wheel[s] \cup {i % kSessionCredits : i \in from..(to - 1)}
          /\ wheel_count'[s] = wheel_count[s] + (to - from)
      <4>1. wheel_count'[s] = wheel_count[s] + k /\ to - from = k
        BY <1>4, <1>7, <2>2
      <4>2. in_wheel'[s] = in_wheel[s] \cup {i % kSessionCredits : i \in from..(to - 1)}
        BY <1>7, <1>b, <2>2, Zenon
      <4> QED BY <4>1, <4>2
    <3>6. /\ Tracked(WheelEntries(s) \cup Entries(s, from, to),
                     in_wheel[s] \cup {i % kSessionCredits : i \in from..(to - 1)},
                     wheel_count[s] + (to - from))
          /\ WheelEntries(s) \cup Entries(s, from, to) \subseteq Entries(s, a, to)
      <4>1. from <= to /\ to - a <= kSessionCredits
        BY <1>3, <1>4, SessionAssumption
      <4> QED BY <4>1, TrackedAdd
    <3>7. Tracked(WheelEntries(s), in_wheel[s], wheel_count[s])'
      BY <3>3, <3>5, <3>6 DEF Tracked
    <3>8. wheel_count' \in [Slots -> Nat]
      <4>1. wheel_count[s] + k \in Nat
        BY <1>7
      <4> QED BY <1>7, <2>2, <4>1, Zenon
    <3>9. in_wheel' \in [Slots -> SUBSET (0..(kSessionCredits - 1))]
      <4>1. \A i \in from..(to - 1) : i % kSessionCredits \in 0..(kSessionCredits - 1)
        BY SessionAssumption, DivMod
      <4>2. in_wheel[s] \cup I \in SUBSET (0..(kSessionCredits - 1))
        BY <1>7, <1>b, <4>1
      <4> QED BY <1>7, <2>2, <4>2, Zenon
    <3>10. wheel' \subseteq Slots \X Nat
      BY <1>7, <3>1, <3>2
    <3>11. \A t \in Slots \ {s} : WheelSame(t)
      BY <1>7, <2>2, <3>4 DEF WheelSame
    <3> QED BY <2>2, <3>3, <3>6, <3>7, <3>8, <3>9, <3>10, <3>11
  <2> QED BY <1>6, <2>1, <2>2
<1>14. from < to /\ to <= ReqPkts[r]
  BY <1>3, <1>4
<1>15. KickType'
  BY <1>9, <1>11, <1>13 DEF KickType
<1> QED BY <1>6, <1>10, <1>12, <1>13, <1>14, <1>15, Zenon DEF Kicked

\* What kick_rfr_st does: it sends the RFRs from .. to-1, at least one.
LEMMA KickRfr ==
    ASSUME TypeOK, NEW s \in Slots, NEW r \in Req, r = cReq[s],
           NEW from \in Nat, from < Wire(r), NEW crd \in Nat, crd > 0,
           NEW drain \in BOOLEAN, kick_rfr_st(s, RespPkts[r], from, crd, drain)
    PROVE  \E to \in Nat :
             /\ from < to /\ to <= Wire(r)
             /\ num_tx' = [num_tx EXCEPT ![s] = to]
             /\ credits' \in Nat /\ credits' + to = crd + from
             /\ num_tx' \in [Slots -> Nat] /\ txq' \subseteq Pkt /\ net' \subseteq Pkt
             /\ \A m \in net' \cup txq' :
                  \/ m \in net \cup txq
                  \/ \E i \in from..(to - 1) : m = CtrlPkt("rfr", cCur[s], i)
<1>1. Wire(r) \in Nat /\ wire_pkts(cReq[s], RespPkts[r]) = Wire(r)
  BY PktsType DEF Wire, wire_pkts
<1>2. PICK k \in Nat : k = Minimum(crd, Wire(r) - from)
  BY <1>1 DEF Minimum
<1>3. k > 0 /\ k <= crd /\ from + k <= Wire(r)
  BY <1>1, <1>2 DEF Minimum
<1>4. PICK to \in Nat : to = from + k
  OBVIOUS
<1> DEFINE sending == Minimum(crd, wire_pkts(cReq[s], RespPkts[r]) - from)
           nums    == from..(from + sending - 1)
           D       == {CtrlPkt("rfr", cCur[s], i) : i \in nums}
<1>5. /\ num_tx' = [num_tx EXCEPT ![s] = from + sending]
      /\ credits' = crd - sending
      /\ IF drain THEN PostAndDrain(ClientTx, {}, D) ELSE Post({}, D)
  BY Zenon DEF kick_rfr_st
<1>a. sending = k /\ nums = from..(to - 1)
  BY <1>1, <1>2, <1>4
<1> HIDE DEF sending, nums
<1>b. D = {CtrlPkt("rfr", cCur[s], i) : i \in from..(to - 1)}
  BY <1>a, Zenon
<1> HIDE DEF D
<1>6. /\ num_tx' = [num_tx EXCEPT ![s] = to]
      /\ credits' = crd - k
      /\ IF drain THEN PostAndDrain(ClientTx, {}, D) ELSE Post({}, D)
  BY <1>4, <1>5, <1>a, Zenon
<1>7. num_tx \in [Slots -> Nat] /\ txq \subseteq Pkt /\ net \subseteq Pkt /\ cCur[s] \in Nat
  BY DEF TypeOK
<1>8. D \subseteq Pkt
  <2>1. \A i \in from..(to - 1) : i \in Nat
    OBVIOUS
  <2>2. \A i \in Nat : CtrlPkt("rfr", cCur[s], i) \in Pkt
    BY <1>7, CtrlPktType
  <2> QED BY <1>b, <2>1, <2>2, Zenon
<1>9. /\ txq' \subseteq Pkt /\ net' \subseteq Pkt
      /\ \A m \in net' \cup txq' : m \in net \cup txq \/ m \in D
  BY <1>6, <1>7, <1>8 DEF Post, PostAndDrain, ClientTx
<1>10. num_tx' \in [Slots -> Nat]
  BY <1>6, <1>7, Zenon
<1>11. from < to /\ to <= Wire(r) /\ credits' \in Nat /\ credits' + to = crd + from
  BY <1>3, <1>4, <1>6
<1> QED BY <1>6, <1>9, <1>10, <1>11, <1>b

-------------------------------------------------------------------------------
(***************************************************************************)
(* Steps within a request.                                                 *)
(***************************************************************************)
\* Client slot t is the same in the next state.
ClientSlotSame(t) ==
    /\ cReq'[t] = cReq[t] /\ cCur'[t] = cCur[t]
    /\ num_tx'[t] = num_tx[t] /\ num_rx'[t] = num_rx[t]
    /\ respN'[t] = respN[t] /\ respBuf'[t] = respBuf[t]
    /\ WheelSame(t)

\* What holds of the wheel of an unchanged slot still holds.
LEMMA SlotWheelSame ==
    ASSUME NEW t \in Slots, SlotWheel(t), ClientSlotSame(t)
    PROVE  SlotWheel(t)'
<1>1. /\ cReq'[t] = cReq[t] /\ num_tx'[t] = num_tx[t] /\ num_rx'[t] = num_rx[t]
      /\ in_wheel'[t] = in_wheel[t] /\ wheel_count'[t] = wheel_count[t]
      /\ WheelEntries(t)' = WheelEntries(t)
  BY DEF ClientSlotSame, WheelSame
<1>2. Tracked(WheelEntries(t), in_wheel[t], wheel_count[t])'
  BY <1>1, Zenon DEF SlotWheel, Tracked
<1>3. WheelEntries(t)' \subseteq Entries(t, num_rx[t], num_tx[t])'
  BY <1>1 DEF SlotWheel, Entries
<1>4. Active(t)' <=> Active(t)
  BY <1>1 DEF Active
<1> QED BY <1>1, <1>2, <1>3, <1>4 DEF SlotWheel

\* A slot with packets outstanding before and after is not in stallq_.
LEMMA StallSame ==
    ASSUME IInv, NEW s \in Slots, stallq' = stallq, cReq' = cReq,
           \A t \in Slots \ {s} : ClientSlotSame(t),
           num_tx[s] # num_rx[s], num_tx'[s] # num_rx'[s]
    PROVE  StalledIffIdle' /\ Stalled'
<1> USE DEF IInv
<1>1. \A i \in 1..Len(stallq) : stallq[i] \in Slots /\ stallq[i] # s
  <2>1. stallq \in Seq(Slots)
    BY DEF TypeOK
  <2>2. \A i \in 1..Len(stallq) : stallq[i] # s
    BY Zenon DEF StalledIffIdle
  <2> QED BY <2>1, <2>2
<1>2. \A t \in Slots : Active(t)' <=> Active(t)
  BY DEF Active
<1>3. Stalled'
  BY <1>1 DEF Stalled, ClientSlotSame
<1>4. \A t \in Slots \ {s} : num_tx'[t] = num_tx[t] /\ num_rx'[t] = num_rx[t]
  BY DEF ClientSlotSame
<1>5. StalledIffIdle'
  BY <1>1, <1>2, <1>4 DEF StalledIffIdle
<1> QED BY <1>3, <1>5

\* A step of client slot s that keeps its request.
LEMMA SameRequest ==
    ASSUME IInv, NEW s \in Slots, Active(s),
           UNCHANGED <<appVars, free, backlog, cReq, cCur, reqNum, serverVars>>,
           \A t \in Slots \ {s} : ClientSlotSame(t),
           KickType', credits' \in Nat, stallq' \in Seq(Slots),
           num_rx' \in [Slots -> Nat], respN' \in [Slots -> Nat],
           respBuf' \in [Slots -> Pieces],
           ClientSlotOK(s, cReq[s])', SlotWheel(s)',
           credits' + (num_tx'[s] - num_rx'[s]) = credits + (num_tx[s] - num_rx[s]),
           StalledIffIdle', Stalled',
           \A m \in net' \cup txq' : m \in net \cup txq \/ PacketOK(m)'
    PROVE  IInv'
<1> USE DEF IInv
<1>1. /\ issued' = issued /\ execs' = execs /\ responded' = responded /\ conts' = conts
      /\ free' = free /\ backlog' = backlog /\ cReq' = cReq /\ cCur' = cCur
      /\ reqNum' = reqNum /\ sTx' = sTx /\ sCur' = sCur /\ sNumRx' = sNumRx
      /\ req_type' = req_type /\ reqN' = reqN /\ reqBuf' = reqBuf /\ sav' = sav
  BY DEF appVars, serverVars
<1>2. CreditConservation' /\ credits' \in 0..kSessionCredits
  <2>1. \A t \in Slots \ {s} : num_rx'[t] = num_rx[t] /\ num_tx'[t] = num_tx[t]
    BY DEF ClientSlotSame
  <2>2. num_rx'[s] <= num_tx'[s] /\ num_tx'[s] <= Wire(cReq[s])
    BY <1>1 DEF ClientSlotOK, Wire
  <2>3. cReq[s] \in Req
    BY DEF TypeOK, Active
  <2>4. Wire(cReq[s]) \in Nat /\ Wire(cReq[s]) <= 2 * MaxPkts - 1 /\ MaxPkts \in Nat
    BY <2>3, PktsType
  <2>5. num_tx' \in [Slots -> Nat]
    BY DEF KickType
  <2>6. num_tx'[s] <= 2 * MaxPkts
    BY <2>2, <2>4, <2>5
  <2> QED BY <2>1, <2>2, <2>5, <2>6, CreditStep
<1>3. TypeOK'
  BY <1>1, <1>2 DEF TypeOK, KickType
<1>4. Numbering'
  BY <1>1 DEF Numbering, Active, Started, SlotOf
<1>5. Packets'
  <2>1. \A t \in Slots : sCur[t] \in Nat /\ sNumRx[t] \in Nat
    BY DEF TypeOK
  <2>2. Stable
    BY <1>1, <2>1 DEF Stable
  <2> QED BY <1>3, <2>2, PacketsNext
<1>6. ClientSlots'
  <2>1. ASSUME NEW t \in Slots, t # s
        PROVE  /\ Active(t) => ClientSlotOK(t, cReq[t])'
               /\ ~Active(t) => num_tx'[t] = num_rx'[t] /\ num_tx'[t] <= 2 * MaxPkts
    <3>1. /\ cReq'[t] = cReq[t] /\ num_tx'[t] = num_tx[t] /\ num_rx'[t] = num_rx[t]
          /\ respN'[t] = respN[t] /\ respBuf'[t] = respBuf[t]
      BY <2>1 DEF ClientSlotSame
    <3>2. ASSUME Active(t) PROVE ClientSlotOK(t, cReq[t])'
      <4>1. PICK q : q = cReq[t]
        OBVIOUS
      <4>2. ClientSlotOK(t, q)
        BY <3>2, <4>1 DEF ClientSlots
      <4>3. ClientSlotOK(t, q)'
        BY <1>1, <3>1, <4>2 DEF ClientSlotOK
      <4> QED BY <3>1, <4>1, <4>3
    <3> QED BY <3>1, <3>2 DEF ClientSlots
  <2> QED BY <1>1, <2>1 DEF ClientSlots, Active
<1>7. ServerSlots' /\ Applications'
  BY <1>1 DEF ServerSlots, Applications, Fresh, Serving, Receiving, Handling, Answering,
              Active, Done, Started
<1>8. SlotBookkeeping' /\ Backlog'
  BY <1>1 DEF SlotBookkeeping, Backlog, Active, Started
<1>9. WheelTracking' /\ WheelPackets'
  <2>1. \A t \in Slots : SlotWheel(t)
    BY WheelSlots
  <2>2. \A t \in Slots : SlotWheel(t)'
    BY <2>1, SlotWheelSame
  <2> QED BY <1>3, <2>2, WheelSlotsNext
<1> QED BY <1>2, <1>3, <1>4, <1>5, <1>6, <1>7, <1>8, <1>9

\* What an active client slot's invariant says, in one place.
LEMMA ActiveSlot ==
    ASSUME IInv, NEW s \in Slots, Active(s), NEW r \in Req, r = cReq[s]
    PROVE  /\ num_rx[s] \in Nat /\ num_tx[s] \in Nat /\ credits \in Nat
           /\ num_rx[s] <= num_tx[s] /\ num_tx[s] <= Wire(r) /\ num_rx[s] < Wire(r)
           /\ num_tx[s] > ReqPkts[r] => num_rx[s] >= ReqPkts[r]
           /\ num_rx[s] >= ReqPkts[r] => /\ respN[s] = RespPkts[r]
                                         /\ r \in responded /\ sCur[s] = cCur[s]
           /\ respBuf[s] = Prefix(r, num_rx[s] + 1 - ReqPkts[r])
           /\ reqNum[r] = cCur[s] /\ Started(r) /\ conts[r] = <<>>
           /\ cCur[s] \in Nat /\ SlotOf(cCur[s]) = s
           /\ credits + (num_tx[s] - num_rx[s]) <= kSessionCredits
           /\ SlotWheel(s)
<1> USE DEF IInv
<1>1. num_rx[s] \in Nat /\ num_tx[s] \in Nat /\ credits \in Nat /\ cCur[s] \in Nat
  BY SessionAssumption DEF TypeOK
<1>2. ClientSlotOK(s, r)
  BY DEF ClientSlots
<1>3. reqNum[r] = cCur[s] /\ Started(r) /\ SlotOf(cCur[s]) = s
  BY DEF Numbering
<1>4. credits + (num_tx[s] - num_rx[s]) <= kSessionCredits
  BY Window
<1>5. SlotWheel(s)
  BY WheelSlots
<1> QED BY <1>1, <1>2, <1>3, <1>4, <1>5 DEF ClientSlotOK

\* A packet of an active request may be sent.
LEMMA ReqPktOK ==
    ASSUME NEW r \in Req, Started(r)', NEW n \in Nat, reqNum'[r] = n,
           NEW i \in Nat, i < ReqPkts[r]
    PROVE  PacketOK(ReqPkt(r, n, i))'
  BY DEF PacketOK, ReqPkt

\* The step is right about stallq_ if it leaves packets of slot s outstanding.
Unstalled(s) ==
    num_tx'[s] # num_rx'[s] /\ (\A t \in Slots \ {s} : ClientSlotSame(t))
      => StalledIffIdle' /\ Stalled'

\* kick_req_st within a request whose window now starts at packet a.
KickReqIn(s, r, a, from, crd, drain) ==
    /\ UNCHANGED <<appVars, free, backlog, cReq, cCur, respN, respBuf, reqNum, serverVars>>
    /\ num_rx' = [num_rx EXCEPT ![s] = a]
    /\ kick_req_st(s, r, reqNum[r], from, crd, drain)
    /\ WheelEntries(s) \subseteq Entries(s, a, from)
    /\ stallq' \in Seq(Slots) /\ Unstalled(s)

\* Such a step preserves IInv.
LEMMA KickReqStep ==
    ASSUME IInv, NEW s \in Slots, Active(s), NEW r \in Req, r = cReq[s],
           NEW a \in Nat, num_rx[s] <= a, NEW from \in Nat, a <= from, from < ReqPkts[r],
           NEW crd \in Nat, crd > 0,
           crd + (from - a) = credits + (num_tx[s] - num_rx[s]),
           NEW drain \in BOOLEAN, KickReqIn(s, r, a, from, crd, drain)
    PROVE  IInv'
<1>1. /\ num_rx[s] \in Nat /\ num_tx[s] \in Nat /\ credits \in Nat
      /\ respBuf[s] = Prefix(r, num_rx[s] + 1 - ReqPkts[r])
      /\ reqNum[r] = cCur[s] /\ Started(r) /\ conts[r] = <<>> /\ cCur[s] \in Nat
      /\ credits + (num_tx[s] - num_rx[s]) <= kSessionCredits
      /\ SlotWheel(s)
  BY ActiveSlot
<1>2. PICK to \in Nat : Kicked(s, r, reqNum[r], from, crd, to, a)
  <2>1. TypeOK
    BY DEF IInv
  <2>2. /\ Tracked(WheelEntries(s), in_wheel[s], wheel_count[s])
        /\ WheelEntries(s) # {} => kCcPacing
    BY <1>1 DEF SlotWheel
  <2>3. crd + (from - a) <= kSessionCredits
    BY <1>1
  <2>4. reqNum[r] \in Nat
    BY <1>1
  <2>5. /\ kick_req_st(s, r, reqNum[r], from, crd, drain)
        /\ WheelEntries(s) \subseteq Entries(s, a, from)
    BY DEF KickReqIn
  <2> QED BY <2>1, <2>2, <2>3, <2>4, <2>5, KickReq
<1>3. /\ from < to /\ to <= ReqPkts[r]
      /\ num_tx' = [num_tx EXCEPT ![s] = to]
      /\ credits' \in Nat /\ credits' + to = crd + from
      /\ KickType'
      /\ Tracked(WheelEntries(s), in_wheel[s], wheel_count[s])'
      /\ WheelEntries(s)' \subseteq Entries(s, a, to)
      /\ WheelEntries(s)' # {} => kCcPacing
      /\ \A t \in Slots \ {s} : WheelSame(t)
  BY <1>2, Zenon DEF Kicked
<1>4. /\ ReqPkts[r] \in Nat /\ ReqPkts[r] <= Wire(r) /\ Wire(r) \in Nat
  BY PktsType
<1>5. /\ num_rx \in [Slots -> Nat] /\ num_tx \in [Slots -> Nat]
      /\ respN \in [Slots -> Nat] /\ respBuf \in [Slots -> Pieces]
  BY DEF IInv, TypeOK
<1>a. num_rx' = [num_rx EXCEPT ![s] = a] /\ stallq' \in Seq(Slots) /\ Unstalled(s)
  BY DEF KickReqIn
<1>6. num_rx'[s] = a /\ num_tx'[s] = to /\ num_rx' \in [Slots -> Nat]
  BY <1>3, <1>5, <1>a
<1>7. /\ respN' = respN /\ respBuf' = respBuf /\ cReq' = cReq /\ cCur' = cCur
      /\ reqNum' = reqNum /\ conts' = conts
  BY DEF appVars, KickReqIn
<1>8. \A t \in Slots \ {s} : ClientSlotSame(t)
  BY <1>3, <1>5, <1>7, <1>a DEF ClientSlotSame
<1>9. ClientSlotOK(s, cReq[s])'
  <2>1. respBuf'[s] = Prefix(r, a + 1 - ReqPkts[r])
    <3>1. /\ num_rx[s] + 1 - ReqPkts[r] \in Int /\ num_rx[s] + 1 - ReqPkts[r] <= 0
          /\ a + 1 - ReqPkts[r] \in Int /\ a + 1 - ReqPkts[r] <= 0
      <4>1. num_rx[s] \in Nat /\ ReqPkts[r] \in Nat
        BY <1>1, <1>4, Zenon
      <4> QED BY <4>1
    <3> QED BY <1>1, <1>7, <3>1, PrefixEmpty, Zenon
  <2>2. a <= to /\ to <= Wire(r) /\ a < Wire(r) /\ ~(to > ReqPkts[r]) /\ ~(a >= ReqPkts[r])
    <3>1. from < to /\ to <= ReqPkts[r]
      BY <1>3, Zenon
    <3> QED BY <1>4, <3>1
  <2>3. conts'[r] = <<>>
    BY <1>1, <1>7, Zenon
  <2>4. ClientSlotOK(s, r)'
    BY <1>6, <2>1, <2>2, <2>3 DEF ClientSlotOK, Prefix, Wire
  <2> QED BY <1>7, <2>4
<1>10. SlotWheel(s)'
  <2>1. \A e \in WheelEntries(s)' : e[2] < ReqPkts[r]
    BY <1>3, <1>4 DEF Entries
  <2>2. Entries(s, num_rx[s], num_tx[s])' = Entries(s, a, to)
    BY <1>6 DEF Entries
  <2>3. Active(s)'
    BY <1>7 DEF Active
  <2> QED BY <1>3, <1>7, <2>1, <2>2, <2>3 DEF SlotWheel
<1>11. credits' + (num_tx'[s] - num_rx'[s]) = credits + (num_tx[s] - num_rx[s])
  <2>1. credits' \in Nat /\ credits' + to = crd + from
    BY <1>3, Zenon
  <2>2. num_rx[s] \in Nat /\ num_tx[s] \in Nat /\ credits \in Nat
    BY <1>1, Zenon
  <2>3. credits' + (to - a) = credits + (num_tx[s] - num_rx[s])
    BY <2>1, <2>2
  <2> QED BY <1>6, <2>3, Zenon
<1>12. \A m \in net' \cup txq' : m \in net \cup txq \/ PacketOK(m)'
  <2>1. PICK n \in Nat : n = reqNum[r]
    BY <1>1
  <2>2. \A i \in from..(to - 1) : PacketOK(ReqPkt(r, n, i))'
    <3>1. Started(r)' /\ reqNum'[r] = n
      BY <1>1, <1>7, <2>1 DEF Started
    <3>2. \A i \in from..(to - 1) : i \in Nat /\ i < ReqPkts[r]
      <4>1. to <= ReqPkts[r]
        BY <1>3, Zenon
      <4> QED BY <1>4, <4>1
    <3> QED BY <3>1, <3>2, ReqPktOK
  <2>3. \A m \in net' \cup txq' :
          m \in net \cup txq \/ \E i \in from..(to - 1) : m = ReqPkt(r, n, i)
    BY <1>2, <2>1, Zenon DEF Kicked
  <2> QED BY <2>2, <2>3, Zenon
<1>13. num_tx'[s] # num_rx'[s]
  BY <1>3, <1>6
<1>14. StalledIffIdle' /\ Stalled'
  BY <1>8, <1>13, <1>a DEF Unstalled
<1>15. UNCHANGED <<appVars, free, backlog, cReq, cCur, reqNum, serverVars>>
  BY DEF KickReqIn
<1>16. respN' \in [Slots -> Nat] /\ respBuf' \in [Slots -> Pieces]
  BY <1>5, <1>7
<1>17. KickType' /\ credits' \in Nat
  BY <1>3, Zenon
<1> QED BY <1>6, <1>8, <1>9, <1>10, <1>11, <1>12, <1>14, <1>15, <1>16, <1>17, <1>a,
           SameRequest, Zenon

\* kick_rfr_st within a request whose window now starts at packet a.
LEMMA KickRfrStep ==
    ASSUME IInv, NEW s \in Slots, Active(s), NEW r \in Req, r = cReq[s],
           UNCHANGED <<appVars, free, backlog, stallq, cReq, cCur, reqNum, wheelVars,
                       serverVars>>,
           NEW a \in Nat, num_rx' = [num_rx EXCEPT ![s] = a], ReqPkts[r] <= a,
           NEW from \in Nat, a <= from, from < Wire(r),
           NEW crd \in Nat, crd > 0, num_tx[s] # num_rx[s],
           crd + (from - a) = credits + (num_tx[s] - num_rx[s]),
           NEW drain \in BOOLEAN, kick_rfr_st(s, RespPkts[r], from, crd, drain),
           r \in responded, sCur[s] = cCur[s], WheelEntries(s) = {},
           respN' = [respN EXCEPT ![s] = RespPkts[r]],
           respBuf' = [respBuf EXCEPT ![s] = Prefix(r, a + 1 - ReqPkts[r])]
    PROVE  IInv'
<1>1. /\ num_rx[s] \in Nat /\ num_tx[s] \in Nat /\ credits \in Nat
      /\ reqNum[r] = cCur[s] /\ Started(r) /\ conts[r] = <<>> /\ cCur[s] \in Nat
      /\ SlotWheel(s) /\ SlotOf(cCur[s]) = s
  BY ActiveSlot
<1>2. PICK to \in Nat :
        /\ from < to /\ to <= Wire(r)
        /\ num_tx' = [num_tx EXCEPT ![s] = to]
        /\ credits' \in Nat /\ credits' + to = crd + from
        /\ num_tx' \in [Slots -> Nat] /\ txq' \subseteq Pkt /\ net' \subseteq Pkt
        /\ \A m \in net' \cup txq' :
             \/ m \in net \cup txq
             \/ \E i \in from..(to - 1) : m = CtrlPkt("rfr", cCur[s], i)
  <2>1. TypeOK
    BY DEF IInv
  <2> QED BY <2>1, KickRfr
<1>3. /\ ReqPkts[r] \in Nat /\ ReqPkts[r] >= 1 /\ RespPkts[r] \in Nat
      /\ Wire(r) = ReqPkts[r] + RespPkts[r] - 1 /\ Wire(r) \in Nat
  BY PktsType DEF Wire
<1>4. /\ num_rx \in [Slots -> Nat] /\ num_tx \in [Slots -> Nat]
      /\ respN \in [Slots -> Nat] /\ respBuf \in [Slots -> Pieces]
      /\ stallq \in Seq(Slots) /\ wheel \subseteq Slots \X Nat
      /\ in_wheel \in [Slots -> SUBSET (0..(kSessionCredits - 1))]
      /\ wheel_count \in [Slots -> Nat]
  BY DEF IInv, TypeOK
<1>5. /\ cReq' = cReq /\ cCur' = cCur /\ reqNum' = reqNum /\ conts' = conts
      /\ responded' = responded /\ sCur' = sCur /\ stallq' = stallq
      /\ wheel' = wheel /\ in_wheel' = in_wheel /\ wheel_count' = wheel_count
  BY DEF appVars, serverVars, wheelVars
<1>6. /\ num_rx'[s] = a /\ num_tx'[s] = to /\ num_rx' \in [Slots -> Nat]
      /\ respN' \in [Slots -> Nat] /\ respN'[s] = RespPkts[r]
  BY <1>2, <1>3, <1>4
<1>7. /\ respBuf' \in [Slots -> Pieces]
      /\ respBuf'[s] = Prefix(r, a + 1 - ReqPkts[r])
  <2>1. Prefix(r, a + 1 - ReqPkts[r]) \in Pieces
    BY <1>3, PrefixType
  <2> QED BY <1>4, <2>1, Zenon
<1>8. \A t : WheelEntries(t)' = WheelEntries(t)
  BY <1>5 DEF WheelEntries
<1>9. \A t \in Slots \ {s} : ClientSlotSame(t)
  BY <1>2, <1>4, <1>5, <1>8 DEF ClientSlotSame, WheelSame
<1>10. ClientSlotOK(s, cReq[s])'
  <2>1. a <= to /\ to <= Wire(r) /\ a < Wire(r)
    <3>1. from < to /\ to <= Wire(r)
      BY <1>2, Zenon
    <3> QED BY <1>3, <3>1
  <2>2. conts'[r] = <<>> /\ r \in responded' /\ sCur'[s] = cCur'[s]
    BY <1>1, <1>5, Zenon
  <2>3. ClientSlotOK(s, r)'
    BY <1>6, <1>7, <2>1, <2>2 DEF ClientSlotOK, Prefix, Wire
  <2> QED BY <1>5, <2>3
<1>11. SlotWheel(s)'
  <2>1. Tracked(WheelEntries(s), in_wheel[s], wheel_count[s])'
    BY <1>1, <1>5, <1>8, Zenon DEF SlotWheel, Tracked
  <2> QED BY <1>8, <2>1 DEF SlotWheel
<1>12. KickType'
  BY <1>2, <1>4, <1>5 DEF KickType
<1>13. credits' + (num_tx'[s] - num_rx'[s]) = credits + (num_tx[s] - num_rx[s])
  <2>1. credits' \in Nat /\ credits' + to = crd + from
    BY <1>2, Zenon
  <2>2. num_rx[s] \in Nat /\ num_tx[s] \in Nat /\ credits \in Nat
    BY <1>1, Zenon
  <2>3. credits' + (to - a) = credits + (num_tx[s] - num_rx[s])
    BY <2>1, <2>2
  <2> QED BY <1>6, <2>3, Zenon
<1>14. \A m \in net' \cup txq' : m \in net \cup txq \/ PacketOK(m)'
  <2>1. ASSUME NEW i \in from..(to - 1) PROVE PacketOK(CtrlPkt("rfr", cCur[s], i))'
    <3>1. PICK p : p = [type |-> "rfr", req_num |-> cCur[s], pkt_num |-> i,
                        num_pkts |-> 0, msg |-> NoReq, idx |-> 0]
      OBVIOUS
    <3>2. ReqPkts[r] <= i /\ i < Wire(r)
      BY <1>2, <1>3
    <3>3. Started(r)' /\ reqNum'[r] = cCur[s] /\ r \in responded'
      BY <1>1, <1>5 DEF Started
    <3>4. cCur[s] <= sCur'[s] /\ SlotOf(cCur[s]) = s
      BY <1>1, <1>5
    <3>5. PacketOK(p)'
      BY <3>1, <3>2, <3>3, <3>4 DEF PacketOK, Wire, SlotOf
    <3>6. PICK n : n = cCur[s]
      OBVIOUS
    <3>7. p = CtrlPkt("rfr", n, i)
      BY <3>1, <3>6 DEF CtrlPkt
    <3>8. PacketOK(CtrlPkt("rfr", n, i))'
      BY <3>5, <3>7
    <3> QED BY <1>5, <3>6, <3>8
  <2> QED BY <1>2, <2>1
<1>15. num_tx'[s] # num_rx'[s]
  BY <1>2, <1>6
<1>16. StalledIffIdle' /\ Stalled'
  BY <1>5, <1>9, <1>15, StallSame
<1> QED BY <1>2, <1>4, <1>5, <1>6, <1>7, <1>9, <1>10, <1>11, <1>12, <1>13, <1>14, <1>16,
           SameRequest

-------------------------------------------------------------------------------
(***************************************************************************)
(* The event loop's queues and the loss scan.                              *)
(***************************************************************************)
\* Storing the value a function has changes nothing.
LEMMA ExceptSame ==
    ASSUME NEW S, NEW T, NEW f \in [S -> T], NEW x \in S
    PROVE  f = [f EXCEPT ![x] = f[x]]
  OBVIOUS

\* process_wheel_st preserves IInv: a ready entry is a packet of the active request.
LEMMA process_wheel_st_IInv ==
    ASSUME IInv, NEW e \in wheel, process_wheel_st(e[1], e[2])
    PROVE  IInv'
<1>0. PICK s \in Slots, i \in Nat : e = <<s, i>>
  BY DEF IInv, TypeOK
<1>1. process_wheel_st(s, i) /\ e \in WheelEntries(s)
  BY <1>0 DEF WheelEntries
<1>2. SlotWheel(s)
  BY WheelSlots DEF IInv
<1>3. Active(s) /\ kCcPacing /\ i < ReqPkts[cReq[s]]
  <2>1. e[2] = i
    BY <1>0
  <2> QED BY <1>1, <1>2, <2>1 DEF SlotWheel
<1>4. PICK r \in Req : r = cReq[s]
  BY <1>3 DEF IInv, TypeOK, Active
<1>5. PICK n \in Nat : n = reqNum[r]
  BY DEF IInv, TypeOK
<1>6. /\ wheel' = wheel \ {e}
      /\ in_wheel' = [in_wheel EXCEPT ![s] = @ \ {i % kSessionCredits}]
      /\ wheel_count' = [wheel_count EXCEPT ![s] = @ - 1]
      /\ txq' = txq \cup {ReqPkt(r, n, i)} /\ net' = net \cup {}
      /\ UNCHANGED <<appVars, sessVars, slotVars, serverVars>>
  BY <1>0, <1>1, <1>3, <1>4, <1>5 DEF process_wheel_st, Post
<1>7. /\ num_tx \in [Slots -> Nat] /\ wheel \subseteq Slots \X Nat
      /\ in_wheel \in [Slots -> SUBSET (0..(kSessionCredits - 1))]
      /\ wheel_count \in [Slots -> Nat] /\ txq \subseteq Pkt /\ net \subseteq Pkt
      /\ credits \in 0..kSessionCredits /\ stallq \in Seq(Slots)
      /\ num_rx \in [Slots -> Nat] /\ respN \in [Slots -> Nat]
      /\ respBuf \in [Slots -> Pieces]
  BY Zenon DEF IInv, TypeOK
<1>8. /\ cReq' = cReq /\ cCur' = cCur /\ num_tx' = num_tx /\ num_rx' = num_rx
      /\ respN' = respN /\ respBuf' = respBuf /\ reqNum' = reqNum /\ credits' = credits
      /\ stallq' = stallq /\ conts' = conts /\ responded' = responded /\ sCur' = sCur
      /\ UNCHANGED <<appVars, free, backlog, cReq, cCur, reqNum, serverVars>>
  BY <1>6 DEF appVars, sessVars, slotVars, serverVars
<1>9. /\ num_rx[s] \in Nat /\ num_tx[s] \in Nat /\ num_rx[s] <= num_tx[s]
      /\ reqNum[r] = cCur[s] /\ Started(r)
  BY <1>3, <1>4, ActiveSlot
<1>10. num_rx[s] <= i /\ i < num_tx[s]
  BY <1>0, <1>1, <1>2, <1>9 DEF SlotWheel, Entries
<1>11. /\ Tracked(WheelEntries(s) \ {e}, in_wheel[s] \ {i % kSessionCredits},
                  wheel_count[s] - 1)
       /\ wheel_count[s] - 1 \in Nat
  <2>1. /\ Tracked(WheelEntries(s), in_wheel[s], wheel_count[s])
        /\ WheelEntries(s) \in SUBSET Entries(s, num_rx[s], num_tx[s])
    BY <1>2 DEF SlotWheel
  <2>2. e[2] = i
    BY <1>0
  <2>3. Tracked(WheelEntries(s) \ {e}, in_wheel[s] \ {e[2] % kSessionCredits},
                wheel_count[s] - 1)
    BY <1>1, <1>9, <2>1, TrackedRemove
  <2>4. Cardinality(WheelEntries(s) \ {e}) \in Nat
    <3>1. WheelEntries(s) \ {e} \in SUBSET Entries(s, num_rx[s], num_tx[s])
      BY <2>1
    <3> QED BY <1>9, <3>1, EntriesFinite
  <2>5. wheel_count[s] - 1 \in Nat
    BY <2>3, <2>4 DEF Tracked
  <2> QED BY <2>2, <2>3, <2>5
<1>12. WheelEntries(s)' = WheelEntries(s) \ {e}
  BY <1>6 DEF WheelEntries
<1>13. /\ wheel_count'[s] = wheel_count[s] - 1 /\ wheel_count' \in [Slots -> Nat]
       /\ in_wheel'[s] = in_wheel[s] \ {i % kSessionCredits}
       /\ in_wheel' \in [Slots -> SUBSET (0..(kSessionCredits - 1))]
  <2>1. wheel_count'[s] = wheel_count[s] - 1 /\ wheel_count' \in [Slots -> Nat]
    BY <1>6, <1>7, <1>11, Zenon
  <2>2. in_wheel[s] \ {i % kSessionCredits} \in SUBSET (0..(kSessionCredits - 1))
    BY <1>7
  <2>3. /\ in_wheel'[s] = in_wheel[s] \ {i % kSessionCredits}
        /\ in_wheel' \in [Slots -> SUBSET (0..(kSessionCredits - 1))]
    BY <1>6, <1>7, <2>2, Zenon
  <2> QED BY <2>1, <2>3
<1>14. \A t \in Slots \ {s} : ClientSlotSame(t)
  <2>1. \A t \in Slots \ {s} : WheelEntries(t)' = WheelEntries(t)
    BY <1>0, <1>6 DEF WheelEntries
  <2> QED BY <1>6, <1>7, <1>8, <2>1 DEF ClientSlotSame, WheelSame
<1>15. SlotWheel(s)'
  <2>1. Tracked(WheelEntries(s), in_wheel[s], wheel_count[s])'
    BY <1>11, <1>12, <1>13 DEF Tracked
  <2>2. WheelEntries(s)' \subseteq Entries(s, num_rx[s], num_tx[s])'
    BY <1>2, <1>8, <1>12 DEF SlotWheel, Entries
  <2>3. Active(s)'
    BY <1>3, <1>8 DEF Active
  <2> QED BY <1>2, <1>3, <1>8, <1>12, <2>1, <2>2, <2>3 DEF SlotWheel
<1>16. ClientSlotOK(s, cReq[s])'
  BY <1>3, <1>8 DEF IInv, ClientSlots, ClientSlotOK
<1>17. ReqPkt(r, n, i) \in Pkt /\ PacketOK(ReqPkt(r, n, i))'
  <2>1. Started(r)' /\ reqNum'[r] = n
    BY <1>5, <1>8, <1>9 DEF Started
  <2> QED BY <1>3, <1>4, <2>1, ReqPktType, ReqPktOK
<1>18. KickType'
  BY <1>6, <1>7, <1>8, <1>13, <1>17 DEF KickType
<1>19. StalledIffIdle' /\ Stalled'
  BY <1>8, <1>9, <1>10, <1>14, StallSame
<1>20. \A m \in net' \cup txq' : m \in net \cup txq \/ PacketOK(m)'
  BY <1>6, <1>17
<1>21. /\ credits' + (num_tx'[s] - num_rx'[s]) = credits + (num_tx[s] - num_rx[s])
       /\ credits' \in Nat
  BY <1>7, <1>8, SessionAssumption
<1> QED BY <1>3, <1>7, <1>8, <1>14, <1>15, <1>16, <1>18, <1>19, <1>20, <1>21, SameRequest

\* process_credit_stall_queue_st preserves IInv: a stalled slot has sent nothing yet.
LEMMA process_credit_stall_queue_st_IInv ==
    ASSUME IInv, process_credit_stall_queue_st
    PROVE  IInv'
<1>1. stallq \in Seq(Slots) /\ stallq # <<>> /\ credits > 0 /\ credits \in Nat
  BY SessionAssumption DEF IInv, TypeOK, process_credit_stall_queue_st
<1>2. PICK s \in Slots : s = Head(stallq)
  BY <1>1
<1>3. /\ 1 \in 1..Len(stallq) /\ stallq[1] = s /\ Len(stallq) \in Nat
      /\ Tail(stallq) \in Seq(Slots) /\ Len(Tail(stallq)) = Len(stallq) - 1
      /\ \A i \in 1..Len(Tail(stallq)) :
            i + 1 \in 1..Len(stallq) /\ Tail(stallq)[i] = stallq[i + 1]
  BY <1>1, <1>2
<1>4. Active(s) /\ num_tx[s] = num_rx[s] /\ num_tx[s] = 0
  BY <1>3 DEF IInv, StalledIffIdle, Stalled
<1>5. PICK r \in Req : r = cReq[s]
  BY <1>4 DEF IInv, TypeOK, Active
<1>6. ReqPkts[r] \in Nat /\ ReqPkts[r] >= 1
  BY PktsType
<1>7. /\ kick_req_st(s, r, reqNum[r], 0, credits, FALSE)
      /\ stallq' = Tail(stallq)
      /\ UNCHANGED <<appVars, free, backlog, cReq, cCur, num_rx, respN, respBuf,
                     reqNum, serverVars>>
  <2>1. req_pkts_pending(s)
    BY <1>4, <1>5, <1>6 DEF req_pkts_pending
  <2>2. kick_req_st(s, cReq[s], reqNum[cReq[s]], num_tx[s], credits, FALSE)
    BY <1>2, <2>1, Zenon DEF process_credit_stall_queue_st
  <2>3. kick_req_st(s, r, reqNum[r], 0, credits, FALSE)
    BY <1>4, <1>5, <2>2, Zenon
  <2> QED BY <2>3, Zenon DEF process_credit_stall_queue_st
<1>8. num_rx' = [num_rx EXCEPT ![s] = 0]
  <2>1. num_rx \in [Slots -> Nat] /\ num_rx' = num_rx /\ num_rx[s] = 0
    BY <1>4, <1>7 DEF IInv, TypeOK
  <2> QED BY <2>1, ExceptSame, Zenon
<1>9. SlotWheel(s)
  BY WheelSlots DEF IInv
<1>10. WheelEntries(s) \subseteq Entries(s, 0, 0)
  BY <1>4, <1>9 DEF SlotWheel
<1>11. Unstalled(s)
  <2> SUFFICES ASSUME num_tx'[s] # num_rx'[s], \A t \in Slots \ {s} : ClientSlotSame(t)
               PROVE  StalledIffIdle' /\ Stalled'
    BY DEF Unstalled
  <2>1. PICK q \in Seq(Slots) : q = Tail(stallq)
    BY <1>3
  <2>2. /\ \A t \in Slots : (\E i \in 1..Len(stallq) : stallq[i] = t)
                              <=> Active(t) /\ num_tx[t] = num_rx[t]
        /\ \A i, j \in 1..Len(stallq) : stallq[i] = stallq[j] => i = j
        /\ \A i \in 1..Len(stallq) : num_tx[stallq[i]] = 0
    BY DEF IInv, StalledIffIdle, Stalled
  <2>3. /\ Len(q) = Len(stallq) - 1 /\ Len(q) \in Nat
        /\ \A i \in 1..Len(q) : i + 1 \in 1..Len(stallq) /\ q[i] = stallq[i + 1]
    BY <1>3, <2>1
  <2>4. \A i \in 1..Len(q) : q[i] \in Slots /\ q[i] # s
    BY <1>3, <2>2, <2>3
  <2>5. \A t \in Slots \ {s} : (\E i \in 1..Len(q) : q[i] = t)
                                 <=> (\E i \in 1..Len(stallq) : stallq[i] = t)
    <3> SUFFICES ASSUME NEW t \in Slots \ {s}, NEW j \in 1..Len(stallq), stallq[j] = t
                 PROVE  \E i \in 1..Len(q) : q[i] = t
      BY <2>3
    <3>1. j # 1
      BY <1>3
    <3>2. j - 1 \in 1..Len(q) /\ q[j - 1] = stallq[j]
      BY <1>3, <2>3, <3>1
    <3> QED BY <3>2
  <2>6. \A t \in Slots : Active(t)' <=> Active(t)
    BY <1>7 DEF Active
  <2>7. \A t \in Slots \ {s} : num_tx'[t] = num_tx[t] /\ num_rx'[t] = num_rx[t]
    BY DEF ClientSlotSame
  <2>8. stallq' = q
    BY <1>7, <2>1
  <2>9. Stalled'
    BY <2>2, <2>3, <2>4, <2>7, <2>8 DEF Stalled
  <2>10. \A i, j \in 1..Len(q) : q[i] = q[j] => i = j
    BY <2>2, <2>3
  <2>11. ASSUME NEW t \in Slots
         PROVE  (\E i \in 1..Len(q) : q[i] = t)
                  <=> Active(t)' /\ num_tx'[t] = num_rx'[t]
    <3>1. CASE t = s
      BY <2>4, <3>1
    <3>2. CASE t # s
      BY <2>2, <2>5, <2>6, <2>7, <3>2
    <3> QED BY <3>1, <3>2
  <2>12. StalledIffIdle'
    BY <2>8, <2>10, <2>11 DEF StalledIffIdle
  <2> QED BY <2>9, <2>12
<1>12. KickReqIn(s, r, 0, 0, credits, FALSE)
  BY <1>3, <1>7, <1>8, <1>10, <1>11 DEF KickReqIn
<1>13. /\ num_rx[s] <= 0 /\ 0 <= 0 /\ 0 < ReqPkts[r]
       /\ credits + (0 - 0) = credits + (num_tx[s] - num_rx[s])
  BY <1>1, <1>4, <1>6
<1>14. 0 \in Nat /\ FALSE \in BOOLEAN
  OBVIOUS
<1> QED BY <1>1, <1>4, <1>5, <1>12, <1>13, <1>14, KickReqStep, Zenon

\* A slot whose wheel_count_ is 0 has no entries in the wheel.
LEMMA NoEntries ==
    ASSUME NEW s \in Slots, SlotWheel(s), wheel_count[s] = 0,
           num_rx[s] \in Nat, num_tx[s] \in Nat, num_rx[s] <= num_tx[s]
    PROVE  WheelEntries(s) = {}
<1>1. /\ WheelEntries(s) \in SUBSET Entries(s, num_rx[s], num_tx[s])
      /\ Cardinality(WheelEntries(s)) = 0
  BY DEF SlotWheel, Tracked
<1> QED BY <1>1, EntriesFinite

\* pkt_loss_scan_st preserves IInv: the rollback gives back the credits it spends again.
LEMMA pkt_loss_scan_st_IInv ==
    ASSUME IInv, NEW s \in Slots, pkt_loss_scan_st(s)
    PROVE  IInv'
<1>1. /\ Active(s) /\ num_tx[s] # num_rx[s]
      /\ UNCHANGED <<appVars, free, backlog, stallq, cReq, cCur, num_rx, respN,
                     respBuf, reqNum, serverVars>>
  BY DEF pkt_loss_scan_st, Active
<1>2. PICK r \in Req : r = cReq[s]
  BY <1>1 DEF IInv, TypeOK, Active
<1>3. /\ num_rx[s] \in Nat /\ num_tx[s] \in Nat /\ credits \in Nat
      /\ num_rx[s] <= num_tx[s] /\ num_rx[s] < Wire(r)
      /\ num_rx[s] >= ReqPkts[r] => /\ respN[s] = RespPkts[r]
                                    /\ r \in responded /\ sCur[s] = cCur[s]
      /\ respBuf[s] = Prefix(r, num_rx[s] + 1 - ReqPkts[r])
      /\ SlotWheel(s)
  BY <1>1, <1>2, ActiveSlot
<1>4. /\ num_rx \in [Slots -> Nat] /\ respN \in [Slots -> Nat]
      /\ respBuf \in [Slots -> Pieces] /\ stallq \in Seq(Slots)
      /\ txq \subseteq Pkt /\ net \subseteq Pkt
  BY DEF IInv, TypeOK
<1>5. CASE /\ PostAndDrain(ClientTx, {}, {})
           /\ UNCHANGED <<num_tx, credits, wheelVars>>
  <2>1. UNCHANGED <<appVars, clientVars, serverVars>>
    BY <1>1, <1>5 DEF clientVars, sessVars, slotVars
  <2>2. /\ txq' \subseteq Pkt /\ net' \subseteq Pkt
        /\ \A m \in net' \cup txq' : m \in net \cup txq
    BY <1>4, <1>5 DEF PostAndDrain, ClientTx
  <2> QED BY <2>1, <2>2, OnlyPackets
<1> DEFINE a   == num_rx[s]
           crd == credits + (num_tx[s] - num_rx[s])
<1>6. ASSUME wheel_count[s] = 0
      PROVE  /\ WheelEntries(s) = {}
             /\ a \in Nat /\ crd \in Nat /\ crd > 0
             /\ crd + (a - a) = credits + (num_tx[s] - num_rx[s])
             /\ num_rx' = [num_rx EXCEPT ![s] = a]
  <2>1. WheelEntries(s) = {}
    BY <1>3, <1>6, NoEntries
  <2>2. num_rx' = [num_rx EXCEPT ![s] = num_rx[s]]
    BY <1>1, <1>4, ExceptSame, Zenon
  <2>3. /\ num_rx[s] \in Nat /\ num_tx[s] \in Nat /\ credits \in Nat
        /\ num_rx[s] <= num_tx[s] /\ num_tx[s] # num_rx[s]
    BY <1>1, <1>3, Zenon
  <2>4. a \in Nat /\ crd \in Nat /\ crd > 0 /\ crd + (a - a) = crd
    BY <2>3
  <2> QED BY <2>1, <2>2, <2>4, Zenon
<1> HIDE DEF a, crd
<1>7. CASE /\ wheel_count[s] = 0 /\ num_rx[s] < ReqPkts[r]
           /\ kick_req_st(s, r, reqNum[r], a, crd, TRUE)
  <2>1. Unstalled(s)
    BY <1>1, StallSame DEF Unstalled
  <2>2. WheelEntries(s) \subseteq Entries(s, a, a)
    BY <1>6, <1>7
  <2>3. KickReqIn(s, r, a, a, crd, TRUE)
    BY <1>1, <1>4, <1>6, <1>7, <2>1, <2>2 DEF KickReqIn
  <2>4. num_rx[s] <= a /\ a <= a /\ a < ReqPkts[r]
    BY <1>3, <1>7 DEF a
  <2>5. TRUE \in BOOLEAN
    OBVIOUS
  <2> QED BY <1>1, <1>2, <1>6, <1>7, <2>3, <2>4, <2>5, KickReqStep, Zenon
<1>8. CASE /\ wheel_count[s] = 0 /\ ~(num_rx[s] < ReqPkts[r])
           /\ kick_rfr_st(s, respN[s], a, crd, TRUE)
           /\ UNCHANGED wheelVars
  <2>1. ReqPkts[r] \in Nat
    BY PktsType
  <2>2. /\ ReqPkts[r] <= a /\ a <= a /\ a < Wire(r)
        /\ respN[s] = RespPkts[r] /\ r \in responded /\ sCur[s] = cCur[s]
    BY <1>3, <1>8, <2>1 DEF a
  <2>3. respN' = [respN EXCEPT ![s] = RespPkts[r]]
    BY <1>1, <1>4, <2>2, ExceptSame, Zenon
  <2>4. respBuf' = [respBuf EXCEPT ![s] = Prefix(r, a + 1 - ReqPkts[r])]
    BY <1>1, <1>3, <1>4, ExceptSame, Zenon DEF a
  <2>5. kick_rfr_st(s, RespPkts[r], a, crd, TRUE)
    BY <1>8, <2>2, Zenon
  <2>6. UNCHANGED <<appVars, free, backlog, stallq, cReq, cCur, reqNum, wheelVars, serverVars>>
    BY <1>1, <1>8
  <2>7. TRUE \in BOOLEAN
    OBVIOUS
  <2> QED BY <1>1, <1>2, <1>6, <1>8, <2>2, <2>3, <2>4, <2>5, <2>6, <2>7, KickRfrStep, Zenon
<1> QED BY <1>2, <1>5, <1>7, <1>8, Zenon DEF pkt_loss_scan_st, a, crd

-------------------------------------------------------------------------------
(***************************************************************************)
(* Credit returns.                                                         *)
(***************************************************************************)
\* A packet that in_order_client accepts is for an active request, and it is
\* not in the wheel: the entries of the slot are after it.
LEMMA InOrder ==
    ASSUME IInv, NEW m \in net, NEW s \in Slots, in_order_client(s, m)
    PROVE  /\ Active(s) /\ m.req_num = cCur[s] /\ m.pkt_num = num_rx[s]
           /\ num_rx[s] < num_tx[s]
           /\ WheelEntries(s) \subseteq Entries(s, num_rx[s] + 1, num_tx[s])
<1>1. num_rx[s] \in Nat /\ num_tx[s] \in Nat
  BY DEF IInv, TypeOK
<1>2. /\ m.req_num = cCur[s] /\ m.pkt_num = num_rx[s] /\ num_rx[s] < num_tx[s]
      /\ kCcPacing => (num_rx[s] % kSessionCredits) \notin in_wheel[s]
  BY DEF in_order_client
<1>3. Active(s)
  BY <1>1, <1>2 DEF IInv, ClientSlots
<1>4. SlotWheel(s)
  BY WheelSlots DEF IInv
<1>5. ASSUME NEW e \in WheelEntries(s) PROVE e \in Entries(s, num_rx[s] + 1, num_tx[s])
  <2>1. PICK i \in num_rx[s]..(num_tx[s] - 1) : e = <<s, i>>
    BY <1>4 DEF SlotWheel, Entries
  <2>2. kCcPacing /\ (e[2] % kSessionCredits) \in in_wheel[s]
    BY <1>4 DEF SlotWheel, Tracked
  <2>3. i # num_rx[s]
    BY <1>2, <2>1, <2>2
  <2>4. i \in (num_rx[s] + 1)..(num_tx[s] - 1)
    BY <1>1, <2>1, <2>3
  <2> QED BY <2>1, <2>4 DEF Entries
<1> QED BY <1>2, <1>3, <1>5

\* A credit return for the packet a slot waits for.
CreditReturn(m) == process_expl_cr_st(m)

\* process_expl_cr_st preserves IInv.
LEMMA process_expl_cr_st_IInv ==
    ASSUME IInv, NEW m \in net, CreditReturn(m)
    PROVE  IInv'
<1>0. PICK s : s = SlotOf(m.req_num)
  OBVIOUS
<1>1. /\ m.type = "cr" /\ in_order_client(s, m)
      /\ num_rx' = [num_rx EXCEPT ![s] = @ + 1]
      /\ IF req_pkts_pending(s)
         THEN kick_req_st(s, cReq[s], reqNum[cReq[s]], num_tx[s], credits + 1, FALSE)
         ELSE /\ credits' = credits + 1
              /\ UNCHANGED <<num_tx, wheelVars, txq, net>>
      /\ UNCHANGED <<appVars, free, backlog, stallq, cReq, cCur, respN, respBuf,
                     reqNum, serverVars>>
  BY <1>0, Zenon DEF CreditReturn, process_expl_cr_st
<1>2. s \in Slots /\ m.req_num \in Nat /\ m.pkt_num \in Nat
  BY <1>0, SlotOfType DEF IInv, TypeOK, Pkt
<1>3. /\ Active(s) /\ m.req_num = cCur[s] /\ m.pkt_num = num_rx[s]
      /\ num_rx[s] < num_tx[s]
      /\ WheelEntries(s) \subseteq Entries(s, num_rx[s] + 1, num_tx[s])
  BY <1>1, <1>2, InOrder
<1>4. PICK r \in Req : r = cReq[s]
  BY <1>2, <1>3 DEF IInv, TypeOK, Active
<1>5. /\ num_rx[s] \in Nat /\ num_tx[s] \in Nat /\ credits \in Nat
      /\ num_tx[s] <= Wire(r)
      /\ num_tx[s] > ReqPkts[r] => num_rx[s] >= ReqPkts[r]
      /\ respBuf[s] = Prefix(r, num_rx[s] + 1 - ReqPkts[r])
      /\ reqNum[r] = cCur[s] /\ Started(r) /\ conts[r] = <<>>
      /\ SlotWheel(s)
  BY <1>2, <1>3, <1>4, ActiveSlot
<1>6. num_rx[s] + 1 < ReqPkts[r]
  <2>1. PICK q \in Req : /\ Started(q) /\ reqNum[q] = m.req_num
                         /\ m.pkt_num + 1 < ReqPkts[q]
    BY <1>1 DEF IInv, Packets, PacketOK
  <2>2. q = r
    BY <1>3, <1>5, <2>1 DEF IInv, Numbering
  <2> QED BY <1>3, <2>1, <2>2
<1>7. ReqPkts[r] \in Nat /\ Wire(r) \in Nat /\ ReqPkts[r] <= Wire(r)
  BY PktsType
<1>8. PICK a \in Nat : a = num_rx[s] + 1
  BY <1>5
<1>9. /\ num_rx \in [Slots -> Nat] /\ num_tx \in [Slots -> Nat]
      /\ respN \in [Slots -> Nat] /\ respBuf \in [Slots -> Pieces]
      /\ stallq \in Seq(Slots) /\ wheel \subseteq Slots \X Nat
      /\ in_wheel \in [Slots -> SUBSET (0..(kSessionCredits - 1))]
      /\ wheel_count \in [Slots -> Nat] /\ txq \subseteq Pkt /\ net \subseteq Pkt
  BY DEF IInv, TypeOK
<1>10. num_rx' = [num_rx EXCEPT ![s] = a]
  BY <1>1, <1>8, <1>9, Zenon
<1>11. /\ num_rx[s] <= a /\ a <= num_tx[s] /\ a < ReqPkts[r]
  BY <1>3, <1>5, <1>6, <1>7, <1>8
<1>12. CASE req_pkts_pending(s)
  <2>1. num_tx[s] < ReqPkts[r]
    BY <1>4, <1>12 DEF req_pkts_pending
  <2>2. PICK crd \in Nat : crd = credits + 1
    BY <1>5
  <2>3. crd > 0 /\ crd + (num_tx[s] - a) = credits + (num_tx[s] - num_rx[s])
    <3>1. num_rx[s] \in Nat /\ num_tx[s] \in Nat /\ credits \in Nat
      BY <1>5, Zenon
    <3> QED BY <1>8, <2>2, <3>1
  <2>4. kick_req_st(s, r, reqNum[r], num_tx[s], crd, FALSE)
    BY <1>1, <1>4, <1>12, <2>2, Zenon
  <2>5. num_tx[s] # num_rx[s]
    BY <1>3, <1>5
  <2>6. Unstalled(s)
    BY <1>1, <1>2, <2>5, StallSame DEF Unstalled
  <2>7. WheelEntries(s) \subseteq Entries(s, a, num_tx[s])
    BY <1>3, <1>8
  <2>8. KickReqIn(s, r, a, num_tx[s], crd, FALSE)
    BY <1>1, <1>9, <1>10, <2>4, <2>6, <2>7 DEF KickReqIn
  <2>9. FALSE \in BOOLEAN /\ num_tx[s] \in Nat
    BY <1>5
  <2> QED BY <1>2, <1>3, <1>4, <1>11, <2>1, <2>2, <2>3, <2>8, <2>9, KickReqStep, Zenon
<1>13. CASE ~req_pkts_pending(s)
  <2>1. /\ credits' = credits + 1 /\ num_tx' = num_tx /\ txq' = txq /\ net' = net
        /\ wheel' = wheel /\ in_wheel' = in_wheel /\ wheel_count' = wheel_count
        /\ stallq' = stallq /\ respN' = respN /\ respBuf' = respBuf /\ cReq' = cReq
        /\ cCur' = cCur /\ conts' = conts
    BY <1>1, <1>13 DEF wheelVars, appVars
  <2>2. num_rx'[s] = a /\ num_rx' \in [Slots -> Nat]
    BY <1>2, <1>9, <1>10
  <2>3. \A t : WheelEntries(t)' = WheelEntries(t)
    BY <2>1 DEF WheelEntries
  <2>4. \A t \in Slots \ {s} : ClientSlotSame(t)
    BY <1>9, <1>10, <2>1, <2>3 DEF ClientSlotSame, WheelSame
  <2>5. num_tx[s] >= ReqPkts[r]
    BY <1>4, <1>5, <1>7, <1>13 DEF req_pkts_pending
  <2>6. num_tx[s] # num_rx[s] /\ num_tx'[s] # num_rx'[s]
    BY <1>3, <1>5, <1>7, <1>11, <2>1, <2>2, <2>5
  <2>7. StalledIffIdle' /\ Stalled'
    BY <1>2, <2>1, <2>4, <2>6, StallSame
  <2>8. ClientSlotOK(s, cReq[s])'
    <3>1. respBuf'[s] = Prefix(r, a + 1 - ReqPkts[r])
      <4>1. /\ num_rx[s] + 1 - ReqPkts[r] \in Int /\ num_rx[s] + 1 - ReqPkts[r] <= 0
            /\ a + 1 - ReqPkts[r] \in Int /\ a + 1 - ReqPkts[r] <= 0
        BY <1>5, <1>6, <1>7, <1>8
      <4> QED BY <1>5, <2>1, <4>1, PrefixEmpty, Zenon
    <3>2. /\ a <= num_tx[s] /\ num_tx[s] <= Wire(r) /\ a < Wire(r)
          /\ ~(num_tx[s] > ReqPkts[r]) /\ ~(a >= ReqPkts[r])
      BY <1>5, <1>6, <1>7, <1>8, <1>11
    <3>3. conts'[r] = <<>> /\ num_tx'[s] = num_tx[s]
      BY <1>5, <2>1, Zenon
    <3>4. ClientSlotOK(s, r)'
      BY <2>2, <3>1, <3>2, <3>3 DEF ClientSlotOK, Prefix, Wire
    <3> QED BY <1>4, <2>1, <3>4
  <2>9. SlotWheel(s)'
    <3>1. Tracked(WheelEntries(s), in_wheel[s], wheel_count[s])'
      BY <1>5, <2>1, <2>3, Zenon DEF SlotWheel, Tracked
    <3>2. WheelEntries(s)' \subseteq Entries(s, num_rx[s], num_tx[s])'
      BY <1>3, <1>8, <2>1, <2>2, <2>3 DEF Entries
    <3>3. Active(s)'
      BY <1>3, <2>1 DEF Active
    <3> QED BY <1>5, <2>1, <2>3, <3>1, <3>2, <3>3 DEF SlotWheel
  <2>10. KickType'
    BY <1>9, <2>1 DEF KickType
  <2>11. /\ credits' + (num_tx'[s] - num_rx'[s]) = credits + (num_tx[s] - num_rx[s])
         /\ credits' \in Nat
    <3>1. num_rx[s] \in Nat /\ num_tx[s] \in Nat /\ credits \in Nat
      BY <1>5
    <3>2. num_rx'[s] = a /\ num_tx'[s] = num_tx[s] /\ credits' = credits + 1
      BY <2>1, <2>2
    <3>3. /\ (credits + 1) + (num_tx[s] - a) = credits + (num_tx[s] - num_rx[s])
          /\ credits + 1 \in Nat
      BY <3>1, <1>8, CreditBack
    <3> QED BY <3>2, <3>3, Zenon
  <2>12. UNCHANGED <<appVars, free, backlog, cReq, cCur, reqNum, serverVars>>
    BY <1>1
  <2>13. respN' \in [Slots -> Nat] /\ respBuf' \in [Slots -> Pieces] /\ stallq' \in Seq(Slots)
    BY <1>9, <2>1
  <2>14. \A p \in net' \cup txq' : p \in net \cup txq
    BY <2>1
  <2> QED BY <1>2, <1>3, <2>2, <2>4, <2>7, <2>8, <2>9, <2>10, <2>11, <2>12, <2>13, <2>14,
             SameRequest
<1> QED BY <1>12, <1>13

-------------------------------------------------------------------------------
(***************************************************************************)
(* Starting a request.                                                     *)
(***************************************************************************)
\* The server slot is done with its last request.
Finished(s) ==
    \/ Fresh(s)
    \/ \E q \in Req : Serving(s, q) /\ Answering(s, q) /\ sNumRx[s] = Wire(q)

\* What the callers of StartRequest(s, r, crd) do besides.
StartIn(s, r, crd) ==
    /\ StartRequest(s, r, crd)
    /\ UNCHANGED <<execs, responded, serverVars>>
    /\ issued \subseteq issued' /\ r \in issued' /\ issued' \subseteq Req
    /\ conts' \in [Req -> Seq(Pieces)]
    /\ \A q \in Req : /\ q # cReq[s] => conts'[q] = conts[q]
                      /\ conts'[q] \in {<<>>, <<Prefix(q, RespPkts[q])>>}
                      /\ conts'[q] # <<>> => q \in responded
    /\ free' = free \ {s}
    /\ backlog' # <<>> => free' = {}
    /\ backlog' \in Seq(Req)
    /\ \A i \in 1..Len(backlog') : /\ backlog'[i] \in issued' /\ backlog'[i] # r
                                   /\ ~Started(backlog'[i])
    /\ \A i, j \in 1..Len(backlog') : backlog'[i] = backlog'[j] => i = j

\* What StartRequest does to the slot's counters, its packets, the credits and
\* the wheel, whether it kicks the slot or queues it for credits.
StartedWith(s, r, num, crd, to) ==
    /\ num_tx' = [num_tx EXCEPT ![s] = to] /\ to <= ReqPkts[r]
    /\ credits' \in Nat /\ credits' + to = crd
    /\ KickType'
    /\ \A m \in net' \cup txq' :
         m \in net \cup txq \/ \E i \in 0..(to - 1) : m = ReqPkt(r, num, i)
    /\ Tracked(WheelEntries(s), in_wheel[s], wheel_count[s])'
    /\ WheelEntries(s)' \subseteq Entries(s, 0, to)
    /\ WheelEntries(s)' # {} => kCcPacing
    /\ \A t \in Slots \ {s} : WheelSame(t)
    /\ \/ to > 0 /\ stallq' = stallq
       \/ to = 0 /\ stallq' = Append(stallq, s)

\* StartRequest does so.
LEMMA StartEffect ==
    ASSUME IInv, NEW s \in Slots, NEW r \in Req, NEW crd \in Nat,
           crd <= kSessionCredits, WheelEntries(s) = {},
           Tracked(WheelEntries(s), in_wheel[s], wheel_count[s]),
           NEW num \in Nat, num = cCur[s] + kSessionReqWindow,
           StartRequest(s, r, crd)
    PROVE  \E to \in Nat : StartedWith(s, r, num, crd, to)
<1>1. TypeOK
  BY DEF IInv
<1>2. /\ num_tx \in [Slots -> Nat] /\ wheel \subseteq Slots \X Nat
      /\ in_wheel \in [Slots -> SUBSET (0..(kSessionCredits - 1))]
      /\ wheel_count \in [Slots -> Nat] /\ txq \subseteq Pkt /\ net \subseteq Pkt
  BY <1>1 DEF TypeOK
<1>3. ReqPkts[r] \in Nat /\ ReqPkts[r] >= 1 /\ 0 \in Nat
  BY PktsType
<1>4. CASE crd > 0
  <2>1. kick_req_st(s, r, num, 0, crd, FALSE) /\ stallq' = stallq
    BY <1>4, Zenon DEF StartRequest
  <2>2. 0 <= 0 /\ 0 < ReqPkts[r] /\ crd + (0 - 0) <= kSessionCredits /\ FALSE \in BOOLEAN
    BY <1>3
  <2>3. WheelEntries(s) \subseteq Entries(s, 0, 0) /\ (WheelEntries(s) # {} => kCcPacing)
    OBVIOUS
  <2>4. PICK to \in Nat : Kicked(s, r, num, 0, crd, to, 0)
    BY <1>1, <1>3, <1>4, <2>1, <2>2, <2>3, KickReq, Zenon
  <2>5. to > 0 /\ to <= ReqPkts[r] /\ credits' + to = crd
    <3>1. 0 < to /\ to <= ReqPkts[r] /\ credits' + to = crd + 0
      BY <2>4, Zenon DEF Kicked
    <3> QED BY <3>1
  <2>6. StartedWith(s, r, num, crd, to)
    BY <2>1, <2>4, <2>5, Zenon DEF Kicked, StartedWith
  <2> QED BY <2>6
<1>5. CASE ~(crd > 0)
  <2>1. /\ num_tx' = [num_tx EXCEPT ![s] = 0] /\ credits' = crd
        /\ stallq' = Append(stallq, s) /\ txq' = txq /\ net' = net
        /\ wheel' = wheel /\ in_wheel' = in_wheel /\ wheel_count' = wheel_count
    BY <1>5 DEF StartRequest, wheelVars
  <2>2. \A t : WheelEntries(t)' = WheelEntries(t)
    BY <2>1 DEF WheelEntries
  <2>3. Tracked(WheelEntries(s), in_wheel[s], wheel_count[s])'
    BY <2>1, <2>2, Zenon DEF Tracked
  <2>4. \A t \in Slots \ {s} : WheelSame(t)
    BY <2>1, <2>2 DEF WheelSame
  <2>5. KickType'
    BY <1>2, <1>3, <2>1 DEF KickType
  <2>6. 0 <= ReqPkts[r] /\ credits' \in Nat /\ credits' + 0 = crd /\ WheelEntries(s)' = {}
    BY <1>3, <2>1, <2>2
  <2>7. \A m \in net' \cup txq' : m \in net \cup txq
    BY <2>1
  <2>8. WheelEntries(s)' \subseteq Entries(s, 0, 0)
    BY <2>6
  <2>9. StartedWith(s, r, num, crd, 0)
    BY <2>1, <2>3, <2>4, <2>5, <2>6, <2>7, <2>8, Zenon DEF StartedWith
  <2> QED BY <1>3, <2>9
<1> QED BY <1>4, <1>5

\* The elements of a sequence with one appended.
LEMMA AppendAt ==
    ASSUME NEW S, NEW q \in Seq(S), NEW x \in S
    PROVE  /\ Len(Append(q, x)) = Len(q) + 1
           /\ \A i \in 1..Len(q) : Append(q, x)[i] = q[i]
           /\ Append(q, x)[Len(q) + 1] = x
  OBVIOUS

\* Starting request r in slot s preserves IInv.
LEMMA StartStep ==
    ASSUME IInv, NEW s \in Slots, NEW r \in Req, ~Started(r), NEW crd \in Nat,
           crd = credits + (num_tx[s] - num_rx[s]), WheelEntries(s) = {},
           sCur[s] = cCur[s], Finished(s),
           \A i \in 1..Len(stallq) : stallq[i] # s,
           StartIn(s, r, crd)
    PROVE  IInv'
<1>1. /\ cReq \in [Slots -> Req \cup {NoReq}] /\ cCur \in [Slots -> Nat]
      /\ num_rx \in [Slots -> Nat] /\ num_tx \in [Slots -> Nat]
      /\ respN \in [Slots -> Nat] /\ respBuf \in [Slots -> Pieces]
      /\ reqNum \in [Req -> Nat] /\ sCur \in [Slots -> Nat] /\ stallq \in Seq(Slots)
      /\ free \subseteq Slots
  BY DEF IInv, TypeOK
<1>s. stallq \in Seq(Slots)
  BY <1>1, Zenon
<1>2. PICK num \in Nat : num = cCur[s] + kSessionReqWindow
  BY <1>1, SessionAssumption
<1>3. crd <= kSessionCredits /\ SlotWheel(s)
  BY Window, WheelSlots DEF IInv
<1>4. PICK to \in Nat : StartedWith(s, r, num, crd, to)
  <2>1. Tracked(WheelEntries(s), in_wheel[s], wheel_count[s])
    BY <1>3 DEF SlotWheel
  <2>2. StartRequest(s, r, crd)
    BY DEF StartIn
  <2> QED BY <1>2, <1>3, <2>1, <2>2, StartEffect, Zenon
<1>5. /\ cReq' = [cReq EXCEPT ![s] = r]
      /\ cCur' = [cCur EXCEPT ![s] = num]
      /\ reqNum' = [reqNum EXCEPT ![r] = num]
      /\ num_rx' = [num_rx EXCEPT ![s] = 0]
      /\ respN' = [respN EXCEPT ![s] = MaxPkts]
      /\ respBuf' = [respBuf EXCEPT ![s] = {}]
  BY <1>2, Zenon DEF StartIn, StartRequest
<1>6. /\ execs' = execs /\ responded' = responded
      /\ sTx' = sTx /\ sCur' = sCur /\ sNumRx' = sNumRx /\ req_type' = req_type
      /\ reqN' = reqN /\ reqBuf' = reqBuf /\ sav' = sav
  BY DEF StartIn, serverVars
<1>7. /\ issued \subseteq issued' /\ r \in issued' /\ issued' \subseteq Req
      /\ conts' \in [Req -> Seq(Pieces)]
      /\ free' = free \ {s} /\ backlog' \in Seq(Req)
  BY Zenon DEF StartIn
<1>8. /\ cReq'[s] = r /\ cCur'[s] = num /\ num_rx'[s] = 0 /\ num_tx'[s] = to
      /\ respBuf'[s] = {} /\ reqNum'[r] = num
  <2>1. num_tx' = [num_tx EXCEPT ![s] = to]
    BY <1>4, Zenon DEF StartedWith
  <2> QED BY <1>1, <1>5, <2>1
<1>9. \A t \in Slots \ {s} : ClientSlotSame(t)
  <2>1. num_tx' = [num_tx EXCEPT ![s] = to] /\ \A t \in Slots \ {s} : WheelSame(t)
    BY <1>4, Zenon DEF StartedWith
  <2> QED BY <1>1, <1>5, <2>1 DEF ClientSlotSame
<1>10. \A q \in Req : q # r => reqNum'[q] = reqNum[q] /\ (Started(q)' <=> Started(q))
  BY <1>1, <1>5 DEF Started
<1>11. /\ cCur[s] \in Nat /\ num > cCur[s] /\ num >= kSessionReqWindow /\ num # 0
       /\ SlotOf(num) = s /\ Started(r)' /\ sCur[s] \in Nat
  <2>1. cCur[s] \in Nat /\ sCur[s] \in Nat
    BY <1>1
  <2>2. num > cCur[s] /\ num >= kSessionReqWindow /\ num # 0
    BY <1>2, <2>1, SessionAssumption
  <2>3. SlotOf(num) = s
    BY <1>2, <2>1, SlotOfNext DEF IInv, Numbering
  <2>4. Started(r)'
    BY <1>8, <2>2 DEF Started
  <2> QED BY <2>1, <2>2, <2>3, <2>4
<1>12. Active(s)' /\ \A t \in Slots \ {s} : (Active(t)' <=> Active(t))
  BY <1>8, <1>9, ReqAssumption DEF Active, ClientSlotSame
<1>13. ReqPkts[r] \in Nat /\ ReqPkts[r] >= 1 /\ MaxPkts \in Nat /\ ReqPkts[r] <= MaxPkts
       /\ Wire(r) \in Nat /\ ReqPkts[r] <= Wire(r)
  BY PktsType
<1>14. CreditConservation' /\ credits' \in 0..kSessionCredits
  <2>1. \A t \in Slots \ {s} : num_rx'[t] = num_rx[t] /\ num_tx'[t] = num_tx[t]
    BY <1>9 DEF ClientSlotSame
  <2>2. num_rx' \in [Slots -> Nat]
    BY <1>1, <1>5
  <2>3. num_tx' \in [Slots -> Nat] /\ credits' \in Nat /\ credits' + to = crd /\ to <= ReqPkts[r]
    BY <1>4, Zenon DEF StartedWith, KickType
  <2>4. num_rx'[s] <= num_tx'[s] /\ num_tx'[s] <= 2 * MaxPkts
    BY <1>8, <1>13, <2>3
  <2>5. credits' + (num_tx'[s] - num_rx'[s]) = credits + (num_tx[s] - num_rx[s])
    BY <1>8, <2>3
  <2>6. TypeOK /\ ClientSlots /\ CreditConservation
    BY DEF IInv
  <2> QED BY <2>1, <2>2, <2>3, <2>4, <2>5, <2>6, CreditStep
<1>15. TypeOK'
  <2>1. /\ cReq' \in [Slots -> Req \cup {NoReq}] /\ cCur' \in [Slots -> Nat]
        /\ reqNum' \in [Req -> Nat] /\ num_rx' \in [Slots -> Nat]
    BY <1>1, <1>5
  <2>2. respN' \in [Slots -> Nat] /\ respBuf' \in [Slots -> Pieces]
    BY <1>1, <1>5, <1>13 DEF Pieces
  <2>3. stallq' \in Seq(Slots)
    <3>1. stallq' = stallq \/ stallq' = Append(stallq, s)
      BY <1>4, Zenon DEF StartedWith
    <3>2. Append(stallq, s) \in Seq(Slots)
      BY <1>s, AppendProperties, Zenon
    <3> QED BY <1>s, <3>1, <3>2, Zenon
  <2>4. KickType'
    BY <1>4, Zenon DEF StartedWith
  <2>5. free' \subseteq Slots
    BY <1>1, <1>7
  <2>6. /\ execs' \in [Req -> Seq(Pieces)] /\ responded' \subseteq Req
        /\ sTx' \in [Slots -> Req \cup {NoReq}] /\ sCur' \in [Slots -> Nat]
        /\ sNumRx' \in [Slots -> Nat] /\ req_type' \in [Slots -> Req \cup {NoReq}]
        /\ reqN' \in [Slots -> Nat] /\ reqBuf' \in [Slots -> Pieces]
        /\ sav' \in [Slots -> Nat]
    BY <1>6 DEF IInv, TypeOK
  <2> QED BY <1>7, <1>14, <2>1, <2>2, <2>3, <2>4, <2>5, <2>6 DEF TypeOK, KickType
<1>16. Numbering'
  <2>1. ASSUME NEW t \in Slots
        PROVE  /\ SlotOf(cCur'[t]) = t /\ SlotOf(sCur[t]) = t /\ sCur[t] <= cCur'[t]
               /\ cCur'[t] <= sCur[t] + kSessionReqWindow /\ cCur[t] <= cCur'[t]
               /\ Active(t)' => reqNum'[cReq'[t]] = cCur'[t] /\ reqNum'[cReq'[t]] # 0
               /\ ~Active(t)' => sCur[t] = cCur'[t]
    <3>1. /\ SlotOf(cCur[t]) = t /\ SlotOf(sCur[t]) = t /\ sCur[t] <= cCur[t]
          /\ cCur[t] <= sCur[t] + kSessionReqWindow
          /\ Active(t) => reqNum[cReq[t]] = cCur[t] /\ Started(cReq[t])
          /\ ~Active(t) => sCur[t] = cCur[t]
      BY DEF IInv, Numbering
    <3>2. CASE t = s
      <4>1. /\ cCur'[t] = num /\ cReq'[t] = r
        BY <1>8, <3>2
      <4>2. /\ sCur[t] <= num /\ num <= sCur[t] + kSessionReqWindow /\ cCur[t] <= num
        BY <1>2, <1>11, <3>2
      <4> QED BY <1>8, <1>11, <1>12, <3>1, <3>2, <4>1, <4>2
    <3>3. CASE t # s
      <4>1. cReq'[t] = cReq[t] /\ cCur'[t] = cCur[t] /\ (Active(t)' <=> Active(t))
        BY <1>9, <1>12, <3>3 DEF ClientSlotSame
      <4>2. Active(t) => cReq[t] \in Req
        BY <1>1 DEF Active
      <4>3. Active(t) => /\ cReq[t] # r /\ reqNum'[cReq[t]] = reqNum[cReq[t]]
                         /\ reqNum[cReq[t]] # 0
        BY <1>10, <3>1, <4>2 DEF Started
      <4>4. cCur[t] <= cCur[t]
        BY <1>1
      <4> QED BY <3>1, <4>1, <4>3, <4>4
    <3> QED BY <3>2, <3>3
  <2>2. ASSUME NEW q \in Req, Started(q)'
        PROVE  /\ reqNum'[q] >= kSessionReqWindow
               /\ reqNum'[q] <= cCur'[SlotOf(reqNum'[q])] /\ q \in issued'
    <3>1. CASE q = r
      BY <1>7, <1>8, <1>11, <3>1
    <3>2. CASE q # r
      <4>1. Started(q) /\ reqNum'[q] = reqNum[q]
        BY <1>10, <2>2, <3>2
      <4>2. /\ reqNum[q] >= kSessionReqWindow
            /\ reqNum[q] <= cCur[SlotOf(reqNum[q])] /\ q \in issued
        BY <4>1 DEF IInv, Numbering
      <4>3. SlotOf(reqNum[q]) \in Slots /\ reqNum[q] \in Nat
        BY <1>1, SlotOfType
      <4>4. PICK t \in Slots : t = SlotOf(reqNum[q])
        BY <4>3
      <4>5. cCur[t] <= cCur'[t] /\ cCur[t] \in Nat /\ cCur'[t] \in Nat
        BY <1>1, <1>15, <2>1 DEF TypeOK
      <4>6. reqNum[q] <= cCur'[t]
        BY <4>2, <4>3, <4>4, <4>5
      <4> QED BY <1>7, <4>1, <4>2, <4>4, <4>6
    <3> QED BY <3>1, <3>2
  <2>3. ASSUME NEW p \in Req, NEW q \in Req, Started(p)', reqNum'[p] = reqNum'[q]
        PROVE  p = q
    <3>1. \A x \in Req : x # r => reqNum[x] # num
      <4> SUFFICES ASSUME NEW x \in Req, x # r, reqNum[x] = num PROVE FALSE
        OBVIOUS
      <4>1. Started(x)
        BY <1>11 DEF Started
      <4>2. reqNum[x] <= cCur[SlotOf(reqNum[x])]
        BY <4>1 DEF IInv, Numbering
      <4> QED BY <1>11, <4>2
    <3>2. CASE p = r \/ q = r
      BY <1>8, <1>10, <2>3, <3>1, <3>2
    <3>3. CASE p # r /\ q # r
      <4>1. Started(p) /\ reqNum[p] = reqNum[q]
        BY <1>10, <2>3, <3>3
      <4> QED BY <4>1 DEF IInv, Numbering
    <3> QED BY <3>2, <3>3
  <2> QED BY <1>6, <2>1, <2>2, <2>3 DEF Numbering, SlotOf, Started
<1>17. Packets'
  <2>1. \A t \in Slots : sCur[t] \in Nat /\ sNumRx[t] \in Nat
    BY DEF IInv, TypeOK
  <2>2. \A q \in Req : Started(q) => q # r
    OBVIOUS
  <2>3. Stable
    BY <1>6, <1>10, <2>1, <2>2 DEF Stable
  <2>4. \A i \in 0..(to - 1) : PacketOK(ReqPkt(r, num, i))'
    <3>1. to <= ReqPkts[r]
      BY <1>4, Zenon DEF StartedWith
    <3>2. \A i \in 0..(to - 1) : i \in Nat /\ i < ReqPkts[r]
      BY <1>13, <3>1
    <3> QED BY <1>8, <1>11, <3>2, ReqPktOK
  <2>5. \A m \in net' \cup txq' :
          m \in net \cup txq \/ \E i \in 0..(to - 1) : m = ReqPkt(r, num, i)
    BY <1>4, Zenon DEF StartedWith
  <2>6. \A m \in net' \cup txq' : m \in net \cup txq \/ PacketOK(m)'
    BY <2>4, <2>5, Zenon
  <2>7. TypeOK /\ Packets
    BY DEF IInv
  <2> QED BY <1>15, <2>3, <2>6, <2>7, PacketsNext
<1>18. conts'[r] = <<>>
  <2>1. execs[r] = <<>>
    BY DEF IInv, Applications
  <2>2. conts[r] = <<>>
    BY <2>1 DEF IInv, Applications
  <2>3. r # cReq[s]
    BY ReqAssumption DEF IInv, Numbering, Active
  <2>4. conts'[r] = conts[r]
    BY <2>3, Zenon DEF StartIn
  <2> QED BY <2>2, <2>4
<1>19. ClientSlots'
  <2>1. ClientSlotOK(s, r)'
    <3>1. 0 <= to /\ to <= Wire(r) /\ 0 < Wire(r) /\ ~(to > ReqPkts[r]) /\ ~(0 >= ReqPkts[r])
      <4>1. to <= ReqPkts[r]
        BY <1>4, Zenon DEF StartedWith
      <4> QED BY <1>13, <4>1
    <3>2. Prefix(r, 0 + 1 - ReqPkts[r]) = {}
      <4>1. 0 + 1 - ReqPkts[r] \in Int /\ 0 + 1 - ReqPkts[r] <= 0
        BY <1>13
      <4> QED BY <4>1, PrefixEmpty, Zenon
    <3> QED BY <1>8, <1>18, <3>1, <3>2 DEF ClientSlotOK, Prefix, Wire
  <2>2. ASSUME NEW t \in Slots, t # s
        PROVE  /\ Active(t) => ClientSlotOK(t, cReq[t])'
               /\ ~Active(t) => num_tx'[t] = num_rx'[t] /\ num_tx'[t] <= 2 * MaxPkts
    <3>1. ClientSlotSame(t)
      BY <1>9, <2>2
    <3>2. ASSUME Active(t) PROVE ClientSlotOK(t, cReq[t])'
      <4>1. PICK q \in Req : q = cReq[t]
        BY <1>1, <3>2 DEF Active
      <4>2. q # cReq[s]
        <5>1. q = cReq[s] => reqNum[q] = cCur[t] /\ reqNum[q] = cCur[s]
          BY <3>2, <4>1 DEF IInv, Numbering, Active
        <5>2. SlotOf(cCur[t]) = t /\ SlotOf(cCur[s]) = s
          BY DEF IInv, Numbering
        <5> QED BY <2>2, <5>1, <5>2
      <4>3. conts'[q] = conts[q]
        BY <4>2, Zenon DEF StartIn
      <4>4. ClientSlotOK(t, q)
        BY <3>2, <4>1 DEF IInv, ClientSlots
      <4>5. ClientSlotOK(t, q)'
        BY <1>6, <3>1, <4>3, <4>4 DEF ClientSlotOK, ClientSlotSame
      <4> QED BY <3>1, <4>1, <4>5 DEF ClientSlotSame
    <3> QED BY <3>1, <3>2 DEF IInv, ClientSlots, ClientSlotSame
  <2>3. ClientSlotOK(s, cReq[s])'
    BY <1>8, <2>1
  <2> QED BY <1>12, <2>2, <2>3 DEF ClientSlots
<1>20. ServerSlots'
  <2>1. ASSUME NEW t \in Slots, NEW q \in Req, Serving(t, q)
        PROVE  Serving(t, q)' /\ (Answering(t, q) => Answering(t, q)')
    <3>1. q # r
      BY <2>1 DEF Serving
    <3> QED BY <1>6, <1>10, <2>1, <3>1 DEF Serving, Receiving, Handling, Answering
  <2>2. \A t \in Slots : Fresh(t) => Fresh(t)'
    BY <1>6 DEF Fresh
  <2>3. ASSUME NEW t \in Slots, Done(t)' PROVE Finished(t)
    <3>1. CASE t = s
      BY <3>1
    <3>2. CASE t # s
      <4>1. Done(t)
        BY <1>6, <1>9, <1>12, <2>3, <3>2 DEF Done, ClientSlotSame
      <4> QED BY <4>1 DEF IInv, ServerSlots, Finished
    <3> QED BY <3>1, <3>2
  <2>4. ASSUME NEW t \in Slots
        PROVE  /\ Fresh(t)' \/ \E q \in Req : Serving(t, q)'
               /\ Done(t)' => \/ Fresh(t)'
                              \/ \E q \in Req : /\ Serving(t, q)' /\ Answering(t, q)'
                                                /\ sNumRx'[t] = Wire(q)
    <3>1. Fresh(t) \/ \E q \in Req : Serving(t, q)
      BY DEF IInv, ServerSlots
    <3>2. sNumRx'[t] = sNumRx[t]
      BY <1>6
    <3> QED BY <2>1, <2>2, <2>3, <3>1, <3>2 DEF Finished
  <2> QED BY <2>4 DEF ServerSlots, Wire
<1>21. Applications'
  <2>1. ASSUME NEW q \in Req
        PROVE  ~Started(q)' \/ reqNum'[q] > sCur[SlotOf(reqNum'[q])] => execs[q] = <<>>
    <3>1. CASE q = r
      BY <3>1 DEF IInv, Applications
    <3>2. CASE q # r
      BY <1>10, <3>2 DEF IInv, Applications
    <3> QED BY <3>1, <3>2
  <2>2. \A q \in Req : /\ execs[q] \in {<<>>, <<Prefix(q, ReqPkts[q])>>}
                       /\ q \in responded => execs[q] # <<>>
    BY DEF IInv, Applications
  <2>3. \A q \in Req : /\ conts'[q] \in {<<>>, <<Prefix(q, RespPkts[q])>>}
                       /\ conts'[q] # <<>> => q \in responded
    BY Zenon DEF StartIn
  <2> QED BY <1>6, <2>1, <2>2, <2>3 DEF Applications, Prefix, SlotOf
<1>22. SlotBookkeeping' /\ Backlog'
  <2>1. free = {t \in Slots : ~Active(t)}
    BY DEF IInv, SlotBookkeeping
  <2>2. free' = {t \in Slots : ~Active(t)'}
    BY <1>7, <1>12, <2>1
  <2>3. backlog' # <<>> => free' = {}
    BY Zenon DEF StartIn
  <2>4. SlotBookkeeping'
    BY <2>2, <2>3 DEF SlotBookkeeping
  <2>5. /\ \A i \in 1..Len(backlog') : /\ backlog'[i] \in issued' /\ backlog'[i] # r
                                       /\ ~Started(backlog'[i])
        /\ \A i, j \in 1..Len(backlog') : backlog'[i] = backlog'[j] => i = j
    BY Zenon DEF StartIn
  <2>6. ASSUME NEW i \in 1..Len(backlog') PROVE ~(Started(backlog[i])')
    <3>1. PICK q \in Req : q = backlog'[i]
      BY <1>7
    <3>2. ~Started(q)'
      BY <1>10, <2>5, <3>1
    <3> QED BY <3>1, <3>2 DEF Started
  <2>7. Backlog'
    BY <2>5, <2>6 DEF Backlog
  <2> QED BY <2>4, <2>7
<1>23. StalledIffIdle' /\ Stalled'
  <2>1. /\ \A t \in Slots : (\E i \in 1..Len(stallq) : stallq[i] = t)
                              <=> Active(t) /\ num_tx[t] = num_rx[t]
        /\ \A i, j \in 1..Len(stallq) : stallq[i] = stallq[j] => i = j
        /\ \A i \in 1..Len(stallq) : num_tx[stallq[i]] = 0
    BY DEF IInv, StalledIffIdle, Stalled
  <2>2. \A t \in Slots \ {s} : num_tx'[t] = num_tx[t] /\ num_rx'[t] = num_rx[t]
    BY <1>9 DEF ClientSlotSame
  <2>3. CASE to > 0 /\ stallq' = stallq
    <3>1. \A i \in 1..Len(stallq) : stallq[i] \in Slots \ {s}
      BY <1>s, ElementOfSeq, Zenon
    <3>2. Stalled'
      BY <2>1, <2>2, <2>3, <3>1 DEF Stalled
    <3>3. ASSUME NEW t \in Slots
          PROVE  (\E i \in 1..Len(stallq) : stallq[i] = t)
                   <=> Active(t)' /\ num_tx'[t] = num_rx'[t]
      <4>1. CASE t = s
        BY <1>8, <2>3, <3>1, <4>1
      <4>2. CASE t # s
        BY <1>12, <2>1, <2>2, <4>2
      <4> QED BY <4>1, <4>2
    <3>4. StalledIffIdle'
      BY <2>1, <2>3, <3>3 DEF StalledIffIdle
    <3> QED BY <3>2, <3>4
  <2>4. CASE to = 0 /\ stallq' = Append(stallq, s)
    <3>1. PICK q \in Seq(Slots) : q = Append(stallq, s)
      BY <1>s, AppendProperties, Zenon
    <3>2. PICK n \in Nat : n = Len(stallq)
      BY <1>s, LenProperties, Zenon
    <3>3. Len(q) = n + 1 /\ q[n + 1] = s /\ \A i \in 1..n : q[i] = stallq[i]
      <4>1. /\ Len(Append(stallq, s)) = Len(stallq) + 1
            /\ \A i \in 1..Len(stallq) : Append(stallq, s)[i] = stallq[i]
            /\ Append(stallq, s)[Len(stallq) + 1] = s
        BY <1>s, AppendAt
      <4> QED BY <3>1, <3>2, <4>1, Zenon
    <3>4. \A i \in 1..(n + 1) : i \in 1..n \/ i = n + 1
      OBVIOUS
    <3>5. \A i \in 1..n : stallq[i] \in Slots \ {s}
      BY <1>s, <3>2, ElementOfSeq, Zenon
    <3>6. \A i \in 1..(n + 1) : num_tx'[q[i]] = 0
      BY <1>8, <2>1, <2>2, <2>4, <3>2, <3>3, <3>4, <3>5
    <3>7. \A i, j \in 1..(n + 1) : q[i] = q[j] => i = j
      BY <2>1, <3>2, <3>3, <3>4, <3>5
    <3>8. ASSUME NEW t \in Slots
          PROVE  (\E i \in 1..(n + 1) : q[i] = t)
                   <=> Active(t)' /\ num_tx'[t] = num_rx'[t]
      <4>1. CASE t = s
        <5>1. n + 1 \in 1..(n + 1)
          OBVIOUS
        <5> QED BY <1>8, <1>12, <2>4, <3>3, <4>1, <5>1
      <4>2. CASE t # s
        <5>1. (\E i \in 1..(n + 1) : q[i] = t) <=> (\E i \in 1..n : stallq[i] = t)
          <6>1. \A i \in 1..n : i \in 1..(n + 1)
            OBVIOUS
          <6> QED BY <3>3, <3>4, <4>2, <6>1
        <5> QED BY <1>12, <2>1, <2>2, <3>2, <4>2, <5>1
      <4> QED BY <4>1, <4>2
    <3>9. stallq' = q /\ Len(q) = n + 1
      BY <2>4, <3>1, <3>3
    <3>10. Stalled' /\ StalledIffIdle'
      BY <3>6, <3>7, <3>8, <3>9 DEF Stalled, StalledIffIdle
    <3> QED BY <3>10
  <2>5. (to > 0 /\ stallq' = stallq) \/ (to = 0 /\ stallq' = Append(stallq, s))
    BY <1>4, Zenon DEF StartedWith
  <2> QED BY <2>3, <2>4, <2>5
<1>24. WheelTracking' /\ WheelPackets'
  <2>1. \A t \in Slots : SlotWheel(t)
    BY WheelSlots DEF IInv
  <2>2. SlotWheel(s)'
    <3>1. /\ Tracked(WheelEntries(s), in_wheel[s], wheel_count[s])'
          /\ WheelEntries(s)' \subseteq Entries(s, 0, to)
          /\ WheelEntries(s)' # {} => kCcPacing
          /\ to <= ReqPkts[r]
      BY <1>4, Zenon DEF StartedWith
    <3>2. Entries(s, num_rx[s], num_tx[s])' = Entries(s, 0, to)
      BY <1>8 DEF Entries
    <3>3. \A e \in WheelEntries(s)' : e[2] < ReqPkts[r]
      BY <1>13, <3>1 DEF Entries
    <3> QED BY <1>8, <1>12, <3>1, <3>2, <3>3 DEF SlotWheel
  <2>3. \A t \in Slots : SlotWheel(t)'
    BY <1>9, <2>1, <2>2, SlotWheelSame
  <2> QED BY <1>15, <2>3, WheelSlotsNext
<1> QED BY <1>14, <1>15, <1>16, <1>17, <1>19, <1>20, <1>21, <1>22, <1>23, <1>24 DEF IInv

\* A request without a number has not been given to a slot.
LEMMA NewRequest ==
    ASSUME IInv, NEW r \in Req, r \notin issued PROVE ~Started(r)
  BY DEF IInv, Numbering

\* enqueue_request without a free slot.
LEMMA BacklogStep ==
    ASSUME IInv, NEW r \in Req, r \notin issued, free = {},
           issued' = issued \cup {r}, backlog' = Append(backlog, r),
           UNCHANGED <<credits, free, stallq, slotVars, wheelVars, txq, net>>,
           UNCHANGED <<execs, responded, conts, serverVars>>
    PROVE  IInv'
<1> USE DEF IInv
<1>1. /\ cReq' = cReq /\ cCur' = cCur /\ num_tx' = num_tx /\ num_rx' = num_rx
      /\ respN' = respN /\ respBuf' = respBuf /\ reqNum' = reqNum
      /\ wheel' = wheel /\ in_wheel' = in_wheel /\ wheel_count' = wheel_count
      /\ sTx' = sTx /\ sCur' = sCur /\ sNumRx' = sNumRx /\ req_type' = req_type
      /\ reqN' = reqN /\ reqBuf' = reqBuf /\ sav' = sav
  BY DEF slotVars, wheelVars, serverVars
<1>2. backlog \in Seq(Req) /\ issued \subseteq Req
  BY DEF TypeOK
<1>3. backlog' \in Seq(Req) /\ issued' \subseteq Req
  BY <1>2
<1>4. TypeOK'
  BY <1>1, <1>3 DEF TypeOK
<1>5. Numbering'
  BY <1>1 DEF Numbering, Active, Started, SlotOf
<1>6. \A m : PacketOK(m) => PacketOK(m)'
  BY <1>1 DEF PacketOK, Started
<1>7. Packets'
  BY <1>6 DEF Packets
<1>8. ClientSlots'
  BY <1>1 DEF ClientSlots, ClientSlotOK, Active
<1>9. ServerSlots' /\ Applications'
  BY <1>1 DEF ServerSlots, Applications, Fresh, Serving, Receiving, Handling, Answering,
              Active, Done, Started
<1>10. SlotBookkeeping'
  BY <1>1 DEF SlotBookkeeping, Active
<1>11. Backlog'
  <2>1. PICK q \in Seq(Req) : q = Append(backlog, r)
    BY <1>2, <1>3
  <2>2. PICK n \in Nat : n = Len(backlog)
    BY <1>2, LenProperties, Zenon
  <2>3. Len(q) = n + 1 /\ q[n + 1] = r /\ \A i \in 1..n : q[i] = backlog[i]
    BY <1>2, <2>1, <2>2, AppendAt
  <2>4. /\ \A i \in 1..n : backlog[i] \in issued /\ ~Started(backlog[i])
        /\ \A i, j \in 1..n : backlog[i] = backlog[j] => i = j
    BY <2>2 DEF Backlog
  <2>5. \A i \in 1..(n + 1) : i \in 1..n \/ i = n + 1
    OBVIOUS
  <2>6. ~Started(r)
    BY NewRequest
  <2>7. \A i \in 1..(n + 1) : q[i] \in issued' /\ ~Started(q[i])
    BY <2>3, <2>4, <2>5, <2>6
  <2>8. \A i, j \in 1..(n + 1) : q[i] = q[j] => i = j
    BY <2>3, <2>4, <2>5
  <2>9. backlog' = q /\ Len(q) = n + 1
    BY <2>1, <2>3
  <2> QED BY <1>1, <2>7, <2>8, <2>9 DEF Backlog, Started
<1>12. StalledIffIdle' /\ Stalled'
  BY <1>1 DEF StalledIffIdle, Stalled, Active
<1>13. CreditConservation'
  BY <1>1 DEF CreditConservation, Outstanding
<1>14. WheelTracking' /\ WheelPackets'
  BY <1>1 DEF WheelTracking, WheelPackets, WheelEntries, Active
<1> QED BY <1>4, <1>5, <1>7, <1>8, <1>9, <1>10, <1>11, <1>12, <1>13, <1>14

\* enqueue_request preserves IInv, with and without a free slot.
LEMMA enqueue_request_IInv ==
    ASSUME IInv, NEW r \in Req, enqueue_request(r)
    PROVE  IInv'
<1>1. /\ r \notin issued /\ issued' = issued \cup {r}
      /\ UNCHANGED <<execs, responded, conts, serverVars>>
  BY DEF enqueue_request
<1>2. CASE /\ free = {} /\ backlog' = Append(backlog, r)
           /\ UNCHANGED <<credits, free, stallq, slotVars, wheelVars, txq, net>>
  BY <1>1, <1>2, BacklogStep
<1>3. ASSUME NEW s \in free, free' = free \ {s}, StartRequest(s, r, credits),
             backlog' = backlog
      PROVE  IInv'
  <2>1. s \in Slots /\ ~Active(s) /\ backlog = <<>>
    BY <1>3 DEF IInv, SlotBookkeeping
  <2>2. ~Started(r)
    BY <1>1, NewRequest
  <2>3. /\ credits \in Nat /\ num_tx[s] \in Nat /\ num_rx[s] \in Nat
    BY <2>1, SessionAssumption DEF IInv, TypeOK
  <2>4. num_tx[s] = num_rx[s] /\ credits = credits + (num_tx[s] - num_rx[s])
    <3>1. num_tx[s] = num_rx[s]
      BY <2>1 DEF IInv, ClientSlots
    <3> QED BY <2>3, <3>1
  <2>5. WheelEntries(s) = {}
    <3>1. SlotWheel(s)
      BY <2>1, WheelSlots DEF IInv
    <3> QED BY <2>1, <3>1 DEF SlotWheel
  <2>6. sCur[s] = cCur[s] /\ Finished(s)
    <3>1. Done(s)
      BY <2>1 DEF Done
    <3> QED BY <2>1, <3>1 DEF IInv, Numbering, ServerSlots, Finished
  <2>7. \A i \in 1..Len(stallq) : stallq[i] # s
    BY <2>1, Zenon DEF IInv, StalledIffIdle
  <2>8. StartIn(s, r, credits)
    <3>1. /\ issued \subseteq Req /\ conts \in [Req -> Seq(Pieces)] /\ <<>> \in Seq(Req)
      BY DEF IInv, TypeOK
    <3>2. \A q \in Req : /\ conts[q] \in {<<>>, <<Prefix(q, RespPkts[q])>>}
                         /\ conts[q] # <<>> => q \in responded
      BY DEF IInv, Applications
    <3>3. 1..Len(backlog') = {}
      BY <1>3, <2>1
    <3> QED BY <1>1, <1>3, <2>1, <3>1, <3>2, <3>3 DEF StartIn
  <2> QED BY <2>1, <2>2, <2>3, <2>4, <2>5, <2>6, <2>7, <2>8, StartStep
<1> QED BY <1>2, <1>3 DEF enqueue_request

-------------------------------------------------------------------------------
(***************************************************************************)
(* Responses.                                                              *)
(***************************************************************************)
\* The accepted response packet m is packet i of the response to the request r
\* in slot s, and the slot has the packets before it.
Accepted(s, m, r, i) ==
    /\ Active(s) /\ r = cReq[s] /\ m.msg = r /\ m.idx = i /\ m.num_pkts = RespPkts[r]
    /\ m.pkt_num = num_rx[s] /\ i < RespPkts[r] /\ num_rx[s] = ReqPkts[r] - 1 + i
    /\ r \in responded /\ sCur[s] = cCur[s]
    /\ Serving(s, r) /\ Answering(s, r) /\ num_rx[s] < sNumRx[s]
    /\ num_rx[s] < num_tx[s]
    /\ WheelEntries(s) \subseteq Entries(s, num_rx[s] + 1, num_tx[s])
    /\ respBuf[s] = Prefix(r, i)
    /\ i # 0 => respN[s] = RespPkts[r]

\* A response packet that in_order_client lets pass is Accepted.
LEMMA RespPacket ==
    ASSUME IInv, NEW m \in net, m.type = "resp", NEW s, s = SlotOf(m.req_num),
           in_order_client(s, m)
    PROVE  s \in Slots /\ \E r \in Req, i \in Nat : Accepted(s, m, r, i)
<1>1. s \in Slots /\ m.req_num \in Nat /\ m.pkt_num \in Nat /\ m.idx \in Nat
  BY SlotOfType DEF IInv, TypeOK, Pkt
<1>2. /\ Active(s) /\ m.req_num = cCur[s] /\ m.pkt_num = num_rx[s]
      /\ num_rx[s] < num_tx[s]
      /\ WheelEntries(s) \subseteq Entries(s, num_rx[s] + 1, num_tx[s])
  BY <1>1, InOrder
<1>3. PICK r \in Req : r = cReq[s]
  BY <1>1, <1>2 DEF IInv, TypeOK, Active
<1>4. PICK i \in Nat : i = m.idx
  BY <1>1
<1>5. /\ m.msg \in Req /\ Started(m.msg) /\ m.req_num = reqNum[m.msg]
      /\ m.num_pkts = RespPkts[m.msg] /\ i < RespPkts[m.msg]
      /\ m.pkt_num = ReqPkts[m.msg] - 1 + i /\ m.msg \in responded
      /\ m.req_num <= sCur[s] /\ (m.req_num = sCur[s] => m.pkt_num < sNumRx[s])
  BY <1>4 DEF IInv, Packets, PacketOK
<1>6. /\ num_rx[s] \in Nat /\ cCur[s] \in Nat /\ reqNum[r] = cCur[s] /\ Started(r)
      /\ respBuf[s] = Prefix(r, num_rx[s] + 1 - ReqPkts[r])
      /\ num_rx[s] >= ReqPkts[r] => respN[s] = RespPkts[r]
  BY <1>1, <1>2, <1>3, ActiveSlot
<1>7. m.msg = r
  BY <1>2, <1>5, <1>6 DEF IInv, Numbering
<1>8. sCur[s] = cCur[s]
  <2>1. sCur[s] \in Nat /\ sCur[s] <= cCur[s]
    BY <1>1 DEF IInv, TypeOK, Numbering
  <2> QED BY <1>2, <1>5, <1>6, <2>1
<1>9. Serving(s, r) /\ Answering(s, r)
  <2>1. Serving(s, r)
    BY <1>1, <1>6, <1>8, ServedBy
  <2> QED BY <1>5, <1>7, <2>1 DEF Serving, Receiving, Handling
<1>10. /\ num_rx[s] = ReqPkts[r] - 1 + i /\ num_rx[s] < sNumRx[s] /\ i < RespPkts[r]
       /\ r \in responded /\ m.num_pkts = RespPkts[r]
  BY <1>2, <1>5, <1>7, <1>8
<1>11. ReqPkts[r] \in Nat
  BY PktsType
<1>12. respBuf[s] = Prefix(r, i) /\ (i # 0 => respN[s] = RespPkts[r])
  <2>1. num_rx[s] + 1 - ReqPkts[r] = i /\ (i # 0 => num_rx[s] >= ReqPkts[r])
    BY <1>10, <1>11
  <2> QED BY <1>6, <2>1, Zenon
<1>13. Accepted(s, m, r, i)
  BY <1>2, <1>3, <1>4, <1>7, <1>8, <1>9, <1>10, <1>12 DEF Accepted
<1> QED BY <1>1, <1>13

\* A response packet that leaves packets to come.
MoreStep(s, m) == RespMore(s, m) /\ UNCHANGED serverVars

\* Such a packet preserves IInv.
LEMMA RespMore_IInv ==
    ASSUME IInv, NEW s \in Slots, NEW m \in net, NEW r \in Req, NEW i \in Nat,
           Accepted(s, m, r, i), MoreStep(s, m)
    PROVE  IInv'
<1>1. /\ Active(s) /\ r = cReq[s] /\ m.msg = r /\ m.idx = i /\ m.num_pkts = RespPkts[r]
      /\ m.pkt_num = num_rx[s] /\ i < RespPkts[r] /\ num_rx[s] = ReqPkts[r] - 1 + i
      /\ r \in responded /\ sCur[s] = cCur[s] /\ num_rx[s] < num_tx[s]
      /\ WheelEntries(s) \subseteq Entries(s, num_rx[s] + 1, num_tx[s])
      /\ respBuf[s] = Prefix(r, i) /\ (i # 0 => respN[s] = RespPkts[r])
  BY Zenon DEF Accepted
<1>2. /\ ReqPkts[r] \in Nat /\ ReqPkts[r] >= 1 /\ RespPkts[r] \in Nat
      /\ Wire(r) = ReqPkts[r] + RespPkts[r] - 1 /\ Wire(r) \in Nat
  BY PktsType DEF Wire
<1>3. /\ num_rx[s] \in Nat /\ num_tx[s] \in Nat /\ credits \in Nat
      /\ num_tx[s] <= Wire(r) /\ conts[r] = <<>> /\ SlotWheel(s)
  BY <1>1, ActiveSlot
<1>4. PICK a \in Nat : a = num_rx[s] + 1
  BY <1>3
<1>5. ReqPkts[r] <= a /\ a <= num_tx[s] /\ a + 1 - ReqPkts[r] = i + 1
  <2>1. num_rx[s] = ReqPkts[r] - 1 + i /\ num_rx[s] < num_tx[s]
    BY <1>1
  <2>2. num_tx[s] \in Nat /\ ReqPkts[r] \in Nat
    BY <1>2, <1>3
  <2> QED BY <1>4, <2>1, <2>2
<1> DEFINE first == m.pkt_num = ReqPkts[cReq[s]] - 1
           n     == IF first THEN m.num_pkts ELSE respN[s]
           pos   == resp_ntoi(m.pkt_num, ReqPkts[cReq[s]])
<1>6. n = RespPkts[r] /\ pos = i
  <2>1. first <=> i = 0
    BY <1>1, <1>2
  <2> QED BY <1>1, <1>2, <2>1 DEF resp_ntoi
<1>7. /\ num_rx[s] + 1 # wire_pkts(cReq[s], n)
      /\ num_rx' = [num_rx EXCEPT ![s] = @ + 1]
      /\ respN' = [respN EXCEPT ![s] = n]
      /\ respBuf' = [respBuf EXCEPT ![s] = @ \cup {<<pos, m.msg, m.idx>>}]
      /\ IF num_tx[s] # wire_pkts(cReq[s], n)
         THEN kick_rfr_st(s, n, num_tx[s], credits + 1, FALSE)
         ELSE credits' = credits + 1 /\ UNCHANGED <<num_tx, txq, net>>
      /\ UNCHANGED <<appVars, free, backlog, stallq, cReq, cCur, reqNum, wheelVars, serverVars>>
  BY Zenon DEF MoreStep, RespMore
<1> HIDE DEF first, n, pos
<1>8. wire_pkts(cReq[s], n) = Wire(r)
  BY <1>1, <1>2, <1>6 DEF wire_pkts
<1>9. /\ num_rx \in [Slots -> Nat] /\ num_tx \in [Slots -> Nat]
      /\ respN \in [Slots -> Nat] /\ respBuf \in [Slots -> Pieces]
      /\ stallq \in Seq(Slots) /\ wheel \subseteq Slots \X Nat
      /\ in_wheel \in [Slots -> SUBSET (0..(kSessionCredits - 1))]
      /\ wheel_count \in [Slots -> Nat] /\ txq \subseteq Pkt /\ net \subseteq Pkt
  BY DEF IInv, TypeOK
<1>10. /\ a < Wire(r) /\ num_rx' = [num_rx EXCEPT ![s] = a]
       /\ respN' = [respN EXCEPT ![s] = RespPkts[r]]
  <2>1. num_rx' = [num_rx EXCEPT ![s] = a]
    BY <1>4, <1>7, <1>9, Zenon
  <2>2. respN' = [respN EXCEPT ![s] = RespPkts[r]]
    BY <1>6, <1>7, Zenon
  <2>3. a # Wire(r)
    BY <1>4, <1>7, <1>8, Zenon
  <2> QED BY <1>2, <1>3, <1>5, <2>1, <2>2, <2>3
<1>11. respBuf' = [respBuf EXCEPT ![s] = Prefix(r, a + 1 - ReqPkts[r])]
  <2>1. respBuf[s] \cup {<<pos, m.msg, m.idx>>} = Prefix(r, i + 1)
    <3>1. Prefix(r, i + 1) = Prefix(r, i) \cup {<<i, r, i>>}
      BY PrefixNext
    <3> QED BY <1>1, <1>6, <3>1, Zenon
  <2> QED BY <1>5, <1>7, <1>9, <2>1, Zenon
<1>12. WheelEntries(s) = {}
  <2>1. ASSUME NEW e \in WheelEntries(s) PROVE FALSE
    <3>1. PICK j \in (num_rx[s] + 1)..(num_tx[s] - 1) : e = <<s, j>>
      BY <1>1 DEF Entries
    <3>2. e[2] < ReqPkts[r]
      BY <1>1, <1>3 DEF SlotWheel
    <3> QED BY <1>2, <1>3, <1>4, <1>5, <3>1, <3>2
  <2> QED BY <2>1
<1>13. num_tx[s] # num_rx[s]
  BY <1>1, <1>3
<1>14. CASE num_tx[s] # Wire(r)
  <2>1. PICK crd \in Nat : crd = credits + 1
    BY <1>3
  <2>2. kick_rfr_st(s, RespPkts[r], num_tx[s], crd, FALSE)
    BY <1>6, <1>7, <1>8, <1>14, <2>1, Zenon
  <2>3. crd > 0 /\ crd + (num_tx[s] - a) = credits + (num_tx[s] - num_rx[s])
    <3>1. num_rx[s] \in Nat /\ num_tx[s] \in Nat /\ credits \in Nat
      BY <1>3
    <3> QED BY <3>1, <1>4, <2>1, CreditBack
  <2>4. num_tx[s] < Wire(r) /\ num_tx[s] \in Nat /\ FALSE \in BOOLEAN
    BY <1>2, <1>3, <1>14
  <2>5. UNCHANGED <<appVars, free, backlog, stallq, cReq, cCur, reqNum, wheelVars, serverVars>>
    BY <1>7, Zenon
  <2> QED BY <1>1, <1>5, <1>10, <1>11, <1>12, <1>13, <2>2, <2>3, <2>4, <2>5,
             KickRfrStep, Zenon
<1>15. CASE num_tx[s] = Wire(r)
  <2>1. credits' = credits + 1 /\ num_tx' = num_tx /\ txq' = txq /\ net' = net
    BY <1>7, <1>8, <1>15
  <2>2. /\ wheel' = wheel /\ in_wheel' = in_wheel /\ wheel_count' = wheel_count
        /\ stallq' = stallq /\ cReq' = cReq /\ cCur' = cCur /\ conts' = conts
        /\ responded' = responded /\ sCur' = sCur
        /\ UNCHANGED <<appVars, free, backlog, cReq, cCur, reqNum, serverVars>>
    BY <1>7 DEF wheelVars, appVars, serverVars
  <2>3. /\ num_rx'[s] = a /\ num_rx' \in [Slots -> Nat]
        /\ respN'[s] = RespPkts[r] /\ respN' \in [Slots -> Nat]
    BY <1>2, <1>9, <1>10
  <2>4. Prefix(r, a + 1 - ReqPkts[r]) \in Pieces
    BY <1>5, PrefixType
  <2>5. respBuf'[s] = Prefix(r, a + 1 - ReqPkts[r]) /\ respBuf' \in [Slots -> Pieces]
    BY <1>9, <1>11, <2>4, Zenon
  <2>6. \A t : WheelEntries(t)' = WheelEntries(t)
    BY <2>2 DEF WheelEntries
  <2>7. \A t \in Slots \ {s} : ClientSlotSame(t)
    BY <1>9, <1>10, <1>11, <2>1, <2>2, <2>6 DEF ClientSlotSame, WheelSame
  <2>8. num_tx'[s] # num_rx'[s]
    BY <1>2, <1>10, <1>15, <2>1, <2>3
  <2>9. StalledIffIdle' /\ Stalled'
    BY <1>13, <2>2, <2>7, <2>8, StallSame
  <2>10. ClientSlotOK(s, cReq[s])'
    <3>1. a <= num_tx[s] /\ num_tx[s] <= Wire(r) /\ a < Wire(r)
      BY <1>3, <1>5, <1>10
    <3>2. /\ conts'[r] = <<>> /\ r \in responded' /\ sCur'[s] = cCur'[s]
          /\ num_tx'[s] = num_tx[s]
      BY <1>1, <1>3, <2>1, <2>2, Zenon
    <3>3. a >= ReqPkts[r]
      BY <1>2, <1>5
    <3>4. ClientSlotOK(s, r)'
      BY <2>3, <2>5, <3>1, <3>2, <3>3 DEF ClientSlotOK, Prefix, Wire
    <3> QED BY <1>1, <2>2, <3>4
  <2>11. SlotWheel(s)'
    <3>1. Tracked(WheelEntries(s), in_wheel[s], wheel_count[s])'
      BY <1>3, <2>2, <2>6, Zenon DEF SlotWheel, Tracked
    <3> QED BY <1>12, <2>6, <3>1 DEF SlotWheel
  <2>12. KickType'
    BY <1>9, <2>1, <2>2 DEF KickType
  <2>13. /\ credits' + (num_tx'[s] - num_rx'[s]) = credits + (num_tx[s] - num_rx[s])
         /\ credits' \in Nat
    <3>1. num_rx[s] \in Nat /\ num_tx[s] \in Nat /\ credits \in Nat
      BY <1>3
    <3>2. num_rx'[s] = a /\ num_tx'[s] = num_tx[s] /\ credits' = credits + 1
      BY <2>1, <2>3
    <3>3. /\ (credits + 1) + (num_tx[s] - a) = credits + (num_tx[s] - num_rx[s])
          /\ credits + 1 \in Nat
      BY <3>1, <1>4, CreditBack
    <3> QED BY <3>2, <3>3, Zenon
  <2>14. stallq' \in Seq(Slots)
    BY <1>9, <2>2
  <2>15. \A p \in net' \cup txq' : p \in net \cup txq
    BY <2>1
  <2> QED BY <1>1, <2>2, <2>3, <2>5, <2>7, <2>9, <2>10, <2>11, <2>12, <2>13, <2>14, <2>15,
             SameRequest
<1> QED BY <1>14, <1>15
\* A response packet that completes the response.
LastStep(s, m) == RespLast(s, m) /\ UNCHANGED serverVars

\* The slot s of request r has everything but the last response packet.
AtLast(s, r) ==
    /\ Active(s) /\ r = cReq[s] /\ r \in responded /\ sCur[s] = cCur[s]
    /\ num_rx[s] \in Nat /\ num_tx[s] = num_rx[s] + 1 /\ num_tx[s] = Wire(r)
    /\ credits \in Nat /\ WheelEntries(s) = {} /\ Finished(s) /\ conts[r] = <<>>
    /\ \A i \in 1..Len(stallq) : stallq[i] # s

\* The continuation gets the whole response.
LEMMA LastPacket ==
    ASSUME IInv, NEW s \in Slots, NEW m \in net, NEW r \in Req, NEW i \in Nat,
           Accepted(s, m, r, i), LastStep(s, m)
    PROVE  /\ AtLast(s, r)
           /\ CompleteRequest(s, Prefix(r, RespPkts[r]))
<1>1. /\ Active(s) /\ r = cReq[s] /\ m.msg = r /\ m.idx = i /\ m.num_pkts = RespPkts[r]
      /\ m.pkt_num = num_rx[s] /\ i < RespPkts[r] /\ num_rx[s] = ReqPkts[r] - 1 + i
      /\ r \in responded /\ sCur[s] = cCur[s] /\ num_rx[s] < num_tx[s]
      /\ WheelEntries(s) \subseteq Entries(s, num_rx[s] + 1, num_tx[s])
      /\ respBuf[s] = Prefix(r, i) /\ (i # 0 => respN[s] = RespPkts[r])
  BY Zenon DEF Accepted
<1>2. /\ ReqPkts[r] \in Nat /\ ReqPkts[r] >= 1 /\ RespPkts[r] \in Nat
      /\ Wire(r) = ReqPkts[r] + RespPkts[r] - 1 /\ Wire(r) \in Nat
  BY PktsType DEF Wire
<1>3. /\ num_rx[s] \in Nat /\ num_tx[s] \in Nat /\ credits \in Nat
      /\ num_tx[s] <= Wire(r) /\ conts[r] = <<>>
  BY <1>1, ActiveSlot
<1> DEFINE single == m.num_pkts = 1
           first  == m.pkt_num = ReqPkts[cReq[s]] - 1
           n      == IF single \/ first THEN m.num_pkts ELSE respN[s]
           pos    == IF single THEN 0 ELSE resp_ntoi(m.pkt_num, ReqPkts[cReq[s]])
           kept   == IF single THEN {} ELSE respBuf[s]
<1>4. /\ single \/ num_rx[s] + 1 = wire_pkts(cReq[s], n)
      /\ CompleteRequest(s, kept \cup {<<pos, m.msg, m.idx>>})
  BY Zenon DEF LastStep, RespLast
<1>5. n = RespPkts[r] /\ pos = i
  <2>1. first <=> i = 0
    BY <1>1, <1>2
  <2>2. single => i = 0
    BY <1>1, <1>2
  <2> QED BY <1>1, <1>2, <2>1, <2>2 DEF resp_ntoi
<1>6. kept = Prefix(r, i)
  <2>1. single => i = 0
    BY <1>1, <1>2
  <2>2. Prefix(r, 0) = {}
    BY PrefixEmpty
  <2> QED BY <1>1, <2>1, <2>2
<1>7. i + 1 = RespPkts[r] /\ num_rx[s] + 1 = Wire(r)
  <2>1. CASE single
    BY <1>1, <1>2, <2>1
  <2>2. CASE num_rx[s] + 1 = wire_pkts(cReq[s], n)
    <3>1. num_rx[s] + 1 = Wire(r)
      BY <1>1, <1>2, <1>5, <2>2 DEF wire_pkts
    <3>2. num_rx[s] = ReqPkts[r] - 1 + i
      BY <1>1
    <3>3. i + 1 = RespPkts[r]
      BY <1>2, <1>3, <3>1, <3>2
    <3> QED BY <3>1, <3>3
  <2> QED BY <1>4, <2>1, <2>2
<1>8. CompleteRequest(s, Prefix(r, RespPkts[r]))
  <2>1. Prefix(r, i + 1) = Prefix(r, i) \cup {<<i, r, i>>}
    BY PrefixNext
  <2> HIDE DEF kept, pos, single
  <2> QED BY <1>1, <1>4, <1>5, <1>6, <1>7, <2>1, Zenon
<1>9. num_tx[s] = num_rx[s] + 1 /\ num_tx[s] = Wire(r)
  BY <1>1, <1>2, <1>3, <1>7
<1>10. WheelEntries(s) = {}
  BY <1>1, <1>3, <1>9 DEF Entries
<1>11. Finished(s)
  <2>1. Serving(s, r) /\ Answering(s, r) /\ num_rx[s] < sNumRx[s]
    BY Zenon DEF Accepted
  <2>2. sNumRx[s] \in Nat /\ sNumRx[s] <= Wire(r)
    BY <2>1, <1>2 DEF Answering, IInv, TypeOK
  <2>3. sNumRx[s] = Wire(r)
    BY <1>2, <1>3, <1>7, <2>1, <2>2
  <2> QED BY <2>1, <2>3 DEF Finished
<1>12. \A j \in 1..Len(stallq) : stallq[j] # s
  <2>1. num_tx[s] # num_rx[s]
    BY <1>1, <1>3
  <2> QED BY <2>1, Zenon DEF IInv, StalledIffIdle
<1> QED BY <1>1, <1>3, <1>8, <1>9, <1>10, <1>11, <1>12 DEF AtLast

\* The last packet of a response when no request waits: the slot becomes free.
IdleStep(s, r) ==
    /\ conts' = [conts EXCEPT ![r] = <<Prefix(r, RespPkts[r])>>]
    /\ backlog = <<>>
    /\ cReq' = [cReq EXCEPT ![s] = NoReq]
    /\ num_rx' = [num_rx EXCEPT ![s] = num_tx[s]]
    /\ respBuf' = [respBuf EXCEPT ![s] = {}]
    /\ credits' = credits + 1
    /\ free' = free \cup {s}
    /\ UNCHANGED <<issued, execs, responded, backlog, stallq, cCur, num_tx, respN,
                   reqNum, wheelVars, serverVars, txq, net>>

\* Such a step preserves IInv.
LEMMA IdleStep_IInv ==
    ASSUME IInv, NEW s \in Slots, NEW r \in Req, AtLast(s, r), IdleStep(s, r)
    PROVE  IInv'
<1>1. /\ Active(s) /\ r = cReq[s] /\ r \in responded /\ sCur[s] = cCur[s]
      /\ num_rx[s] \in Nat /\ num_tx[s] = num_rx[s] + 1 /\ num_tx[s] = Wire(r)
      /\ credits \in Nat /\ WheelEntries(s) = {} /\ Finished(s) /\ conts[r] = <<>>
      /\ \A i \in 1..Len(stallq) : stallq[i] # s
  BY Zenon DEF AtLast
<1>2. /\ issued' = issued /\ execs' = execs /\ responded' = responded
      /\ backlog' = backlog /\ stallq' = stallq /\ cCur' = cCur /\ num_tx' = num_tx
      /\ respN' = respN /\ reqNum' = reqNum
      /\ wheel' = wheel /\ in_wheel' = in_wheel /\ wheel_count' = wheel_count
      /\ sTx' = sTx /\ sCur' = sCur /\ sNumRx' = sNumRx /\ req_type' = req_type
      /\ reqN' = reqN /\ reqBuf' = reqBuf /\ sav' = sav /\ txq' = txq /\ net' = net
  BY DEF IdleStep, wheelVars, serverVars
<1>3. /\ conts' = [conts EXCEPT ![r] = <<Prefix(r, RespPkts[r])>>]
      /\ backlog = <<>>
      /\ cReq' = [cReq EXCEPT ![s] = NoReq]
      /\ num_rx' = [num_rx EXCEPT ![s] = num_tx[s]]
      /\ respBuf' = [respBuf EXCEPT ![s] = {}]
      /\ credits' = credits + 1 /\ free' = free \cup {s}
  BY Zenon DEF IdleStep
<1>4. /\ cReq \in [Slots -> Req \cup {NoReq}] /\ cCur \in [Slots -> Nat]
      /\ num_rx \in [Slots -> Nat] /\ num_tx \in [Slots -> Nat]
      /\ respBuf \in [Slots -> Pieces] /\ conts \in [Req -> Seq(Pieces)]
      /\ stallq \in Seq(Slots) /\ free \subseteq Slots
  BY DEF IInv, TypeOK
<1>5. /\ cReq' \in [Slots -> Req \cup {NoReq}] /\ num_rx' \in [Slots -> Nat]
      /\ cReq'[s] = NoReq /\ num_rx'[s] = num_tx[s]
  BY <1>3, <1>4
<1>6. respBuf' \in [Slots -> Pieces]
  <2>1. {} \in Pieces
    BY DEF Pieces
  <2> QED BY <1>3, <1>4, <2>1
<1>7. conts' \in [Req -> Seq(Pieces)] /\ conts'[r] = <<Prefix(r, RespPkts[r])>>
  <2>1. Prefix(r, RespPkts[r]) \in Pieces
    BY PrefixType, PktsType
  <2>2. <<Prefix(r, RespPkts[r])>> \in Seq(Pieces)
    BY <2>1
  <2> QED BY <1>3, <1>4, <2>2
<1>8. ~Active(s)' /\ \A t \in Slots \ {s} : Active(t)' <=> Active(t)
  BY <1>3, <1>4, <1>5 DEF Active
<1>9. \A t \in Slots \ {s} : ClientSlotSame(t)
  <2>1. \A t : WheelEntries(t)' = WheelEntries(t)
    BY <1>2 DEF WheelEntries
  <2> QED BY <1>2, <1>3, <1>4, <2>1 DEF ClientSlotSame, WheelSame
<1>10. num_tx[s] \in Nat /\ num_tx[s] <= 2 * MaxPkts
  BY Counters DEF IInv
<1>11. CreditConservation' /\ credits' \in 0..kSessionCredits
  <2>1. \A t \in Slots \ {s} : num_rx'[t] = num_rx[t] /\ num_tx'[t] = num_tx[t]
    BY <1>9 DEF ClientSlotSame
  <2>2. num_tx' \in [Slots -> Nat]
    BY <1>2, <1>4
  <2>3. num_tx'[s] = num_tx[s]
    BY <1>2
  <2>4. /\ credits' + (num_tx'[s] - num_rx'[s]) = credits + (num_tx[s] - num_rx[s])
        /\ credits' \in Nat
    <3>1. num_rx[s] \in Nat /\ num_tx[s] = num_rx[s] + 1 /\ credits \in Nat
      BY <1>1
    <3> QED BY <1>3, <1>5, <2>3, <3>1
  <2>5. num_rx'[s] <= num_tx'[s] /\ num_tx'[s] <= 2 * MaxPkts
    BY <1>5, <1>10, <2>3
  <2> QED BY <1>5, <2>1, <2>2, <2>4, <2>5, CreditStep DEF IInv
<1>12. TypeOK'
  <2>1. free' \subseteq Slots
    BY <1>3, <1>4
  <2> QED BY <1>2, <1>5, <1>6, <1>7, <1>11, <2>1 DEF IInv, TypeOK
<1>13. Numbering'
  <2>1. ASSUME NEW t \in Slots
        PROVE  /\ SlotOf(cCur[t]) = t /\ SlotOf(sCur[t]) = t /\ sCur[t] <= cCur[t]
               /\ cCur[t] <= sCur[t] + kSessionReqWindow
               /\ Active(t)' => reqNum[cReq'[t]] = cCur[t] /\ reqNum[cReq'[t]] # 0
               /\ ~Active(t)' => sCur[t] = cCur[t]
    <3>1. CASE t = s
      BY <1>1, <1>8, <3>1 DEF IInv, Numbering
    <3>2. CASE t # s
      <4>1. cReq'[t] = cReq[t] /\ (Active(t)' <=> Active(t))
        BY <1>8, <1>9, <3>2 DEF ClientSlotSame
      <4> QED BY <4>1 DEF IInv, Numbering, Started
    <3> QED BY <3>1, <3>2
  <2>2. /\ \A q \in Req :
             reqNum[q] # 0 => /\ reqNum[q] >= kSessionReqWindow
                              /\ reqNum[q] <= cCur[SlotOf(reqNum[q])]
                              /\ q \in issued
        /\ \A q, p \in Req : reqNum[q] # 0 /\ reqNum[q] = reqNum[p] => q = p
    BY DEF IInv, Numbering, Started
  <2> QED BY <1>2, <2>1, <2>2 DEF Numbering, Started, SlotOf
<1>14. Packets'
  <2>1. \A t \in Slots : sCur[t] \in Nat /\ sNumRx[t] \in Nat
    BY DEF IInv, TypeOK
  <2>2. Stable
    BY <1>2, <2>1 DEF Stable
  <2> QED BY <1>2, <1>12, <2>2, PacketsNext DEF IInv
<1>15. ClientSlots'
  <2>1. ASSUME NEW t \in Slots, t # s
        PROVE  /\ Active(t)' => ClientSlotOK(t, cReq[t])'
               /\ ~Active(t)' => num_tx'[t] = num_rx'[t] /\ num_tx'[t] <= 2 * MaxPkts
    <3>1. CASE Active(t)
      <4>1. PICK q \in Req : q = cReq[t]
        BY <1>4, <3>1 DEF Active
      <4>2. ClientSlotOK(t, q)
        BY <3>1, <4>1 DEF IInv, ClientSlots
      <4>3. q # r
        <5>1. q = r => reqNum[q] = cCur[t] /\ reqNum[q] = cCur[s]
          BY <1>1, <3>1, <4>1 DEF IInv, Numbering
        <5>2. SlotOf(cCur[t]) = t /\ SlotOf(cCur[s]) = s
          BY DEF IInv, Numbering
        <5> QED BY <2>1, <5>1, <5>2
      <4>4. conts'[q] = conts[q]
        BY <1>3, <1>4, <4>3
      <4>5. /\ num_tx'[t] = num_tx[t] /\ num_rx'[t] = num_rx[t]
            /\ respN'[t] = respN[t] /\ respBuf'[t] = respBuf[t] /\ cReq'[t] = cReq[t]
        BY <1>9, <2>1 DEF ClientSlotSame
      <4> QED BY <1>2, <1>8, <2>1, <3>1, <4>1, <4>2, <4>4, <4>5 DEF ClientSlotOK
    <3>2. CASE ~Active(t)
      BY <1>8, <1>9, <2>1, <3>2 DEF IInv, ClientSlots, ClientSlotSame
    <3> QED BY <3>1, <3>2
  <2>2. num_tx'[s] = num_rx'[s] /\ num_tx'[s] <= 2 * MaxPkts
    BY <1>2, <1>5, <1>10
  <2> QED BY <1>8, <2>1, <2>2 DEF ClientSlots
<1>16. ServerSlots'
  <2>1. \A t \in Slots : /\ Fresh(t)' <=> Fresh(t)
                         /\ \A q : /\ Serving(t, q)' <=> Serving(t, q)
                                   /\ Answering(t, q)' <=> Answering(t, q)
    BY <1>2 DEF Fresh, Serving, Receiving, Handling, Answering, Started
  <2>2. \A t \in Slots \ {s} : Done(t)' <=> Done(t)
    BY <1>2, <1>8 DEF Done
  <2>3. ASSUME NEW t \in Slots
        PROVE  /\ Fresh(t)' \/ \E q \in Req : Serving(t, q)'
               /\ Done(t)' => \/ Fresh(t)'
                              \/ \E q \in Req : /\ Serving(t, q)' /\ Answering(t, q)'
                                                /\ sNumRx'[t] = Wire(q)
    <3>1. CASE t = s
      BY <1>1, <1>2, <2>1, <3>1 DEF IInv, ServerSlots, Finished
    <3>2. CASE t # s
      BY <1>2, <2>1, <2>2, <3>2 DEF IInv, ServerSlots
    <3> QED BY <3>1, <3>2
  <2> QED BY <2>3 DEF ServerSlots, Wire
<1>17. Applications'
  <2>1. ASSUME NEW q \in Req
        PROVE  /\ conts'[q] \in {<<>>, <<Prefix(q, RespPkts[q])>>}
               /\ conts'[q] # <<>> => q \in responded
    <3>1. CASE q = r
      BY <1>1, <1>7, <3>1
    <3>2. CASE q # r
      <4>1. conts'[q] = conts[q]
        BY <1>3, <1>4, <3>2
      <4> QED BY <4>1 DEF IInv, Applications
    <3> QED BY <3>1, <3>2
  <2>2. \A q \in Req :
          /\ execs[q] \in {<<>>, <<Prefix(q, ReqPkts[q])>>}
          /\ q \in responded => execs[q] # <<>>
          /\ reqNum[q] = 0 \/ reqNum[q] > sCur[SlotOf(reqNum[q])] => execs[q] = <<>>
    BY DEF IInv, Applications, Started
  <2> QED BY <1>2, <2>1, <2>2 DEF Applications, Started, SlotOf, Prefix
<1>18. SlotBookkeeping' /\ Backlog'
  <2>1. free = {t \in Slots : ~Active(t)}
    BY DEF IInv, SlotBookkeeping
  <2>2. free' = {t \in Slots : ~Active(t)'}
    BY <1>3, <1>8, <2>1
  <2>3. Backlog'
    BY <1>2 DEF IInv, Backlog, Started
  <2> QED BY <1>2, <1>3, <2>2, <2>3 DEF SlotBookkeeping
<1>19. StalledIffIdle' /\ Stalled'
  <2>1. \A t \in Slots \ {s} : num_tx'[t] = num_tx[t] /\ num_rx'[t] = num_rx[t]
    BY <1>9 DEF ClientSlotSame
  <2>2. ASSUME NEW t \in Slots
        PROVE  (\E i \in 1..Len(stallq') : stallq'[i] = t)
                  <=> Active(t)' /\ num_tx'[t] = num_rx'[t]
    <3>1. CASE t = s
      BY <1>1, <1>2, <1>8, <3>1, Zenon
    <3>2. CASE t # s
      <4>1. /\ Active(t)' <=> Active(t)
            /\ num_tx'[t] = num_tx[t] /\ num_rx'[t] = num_rx[t]
        BY <1>8, <2>1, <3>2
      <4>2. (\E i \in 1..Len(stallq) : stallq[i] = t) <=> Active(t) /\ num_tx[t] = num_rx[t]
        BY Zenon DEF IInv, StalledIffIdle
      <4> QED BY <1>2, <4>1, <4>2, Zenon
    <3> QED BY <3>1, <3>2
  <2>3. \A i, j \in 1..Len(stallq') : stallq'[i] = stallq'[j] => i = j
    BY <1>2, Zenon DEF IInv, StalledIffIdle
  <2>4. Stalled'
    BY <1>2, Zenon DEF IInv, Stalled
  <2>5. StalledIffIdle'
    BY <2>2, <2>3, Zenon DEF StalledIffIdle
  <2> QED BY <2>4, <2>5
<1>20. WheelTracking' /\ WheelPackets'
  <2>1. \A t \in Slots : SlotWheel(t)
    BY WheelSlots DEF IInv
  <2>2. SlotWheel(s)'
    <3>1. WheelEntries(s)' = {}
      BY <1>1, <1>2 DEF WheelEntries
    <3>2. Tracked(WheelEntries(s), in_wheel[s], wheel_count[s])
      BY <2>1 DEF SlotWheel
    <3>3. WheelEntries(s)' = WheelEntries(s)
      BY <1>1, <3>1
    <3>4. Tracked(WheelEntries(s), in_wheel[s], wheel_count[s])'
      BY <1>2, <3>2, <3>3, Zenon DEF Tracked
    <3> QED BY <3>1, <3>4 DEF SlotWheel
  <2>3. \A t \in Slots : SlotWheel(t)'
    BY <1>9, <2>1, <2>2, SlotWheelSame
  <2> QED BY <1>12, <2>3, WheelSlotsNext
<1> QED BY <1>11, <1>12, <1>13, <1>14, <1>15, <1>16, <1>17, <1>18, <1>19, <1>20 DEF IInv

\* The head and the tail of a sequence.
LEMMA TailAt ==
    ASSUME NEW S, NEW q \in Seq(S), q # <<>>
    PROVE  /\ Head(q) \in S /\ Tail(q) \in Seq(S) /\ Head(q) = q[1] /\ 1 \in 1..Len(q)
           /\ \A i \in 1..Len(Tail(q)) :
                i + 1 \in 1..Len(q) /\ Tail(q)[i] = q[i + 1] /\ i + 1 # 1
  OBVIOUS

\* The last packet of a response when a request waits: it takes over the slot.
ReuseStep(s, r) ==
    /\ conts' = [conts EXCEPT ![r] = <<Prefix(r, RespPkts[r])>>]
    /\ backlog # <<>>
    /\ backlog' = Tail(backlog)
    /\ StartRequest(s, Head(backlog), credits + 1)
    /\ UNCHANGED <<free, issued, execs, responded, serverVars>>

\* Such a step preserves IInv.
LEMMA ReuseStep_IInv ==
    ASSUME IInv, NEW s \in Slots, NEW r \in Req, AtLast(s, r), ReuseStep(s, r)
    PROVE  IInv'
<1>1. /\ Active(s) /\ r = cReq[s] /\ r \in responded /\ sCur[s] = cCur[s]
      /\ num_rx[s] \in Nat /\ num_tx[s] = num_rx[s] + 1
      /\ credits \in Nat /\ WheelEntries(s) = {} /\ Finished(s)
      /\ \A i \in 1..Len(stallq) : stallq[i] # s
  BY Zenon DEF AtLast
<1>2. backlog \in Seq(Req) /\ backlog # <<>> /\ conts \in [Req -> Seq(Pieces)]
  BY Zenon DEF IInv, TypeOK, ReuseStep
<1>3. PICK h \in Req : h = Head(backlog)
  BY <1>2, TailAt
<1>4. /\ h = backlog[1] /\ 1 \in 1..Len(backlog) /\ Tail(backlog) \in Seq(Req)
      /\ \A i \in 1..Len(Tail(backlog)) :
           /\ i + 1 \in 1..Len(backlog) /\ i + 1 # 1
           /\ Tail(backlog)[i] = backlog[i + 1]
  BY <1>2, <1>3, TailAt
<1>5. /\ \A i \in 1..Len(backlog) : backlog[i] \in issued /\ ~Started(backlog[i])
      /\ \A i, j \in 1..Len(backlog) : backlog[i] = backlog[j] => i = j
  BY Zenon DEF IInv, Backlog
<1>6. h \in issued /\ ~Started(h)
  BY <1>4, <1>5, Zenon
<1>7. PICK crd \in Nat : crd = credits + 1
  BY <1>1
<1>8. crd = credits + (num_tx[s] - num_rx[s])
  <2>1. num_rx[s] \in Nat /\ num_tx[s] = num_rx[s] + 1 /\ credits \in Nat
    BY <1>1
  <2> QED BY <1>7, <2>1
<1>9. /\ conts' \in [Req -> Seq(Pieces)]
      /\ \A q \in Req : /\ q # r => conts'[q] = conts[q]
                        /\ conts'[q] \in {<<>>, <<Prefix(q, RespPkts[q])>>}
                        /\ conts'[q] # <<>> => q \in responded
  <2>1. Prefix(r, RespPkts[r]) \in Pieces
    BY PrefixType, PktsType
  <2>2. <<Prefix(r, RespPkts[r])>> \in Seq(Pieces)
    BY <2>1
  <2>3. conts' = [conts EXCEPT ![r] = <<Prefix(r, RespPkts[r])>>]
    BY Zenon DEF ReuseStep
  <2>4. \A q \in Req : /\ conts[q] \in {<<>>, <<Prefix(q, RespPkts[q])>>}
                       /\ conts[q] # <<>> => q \in responded
    BY DEF IInv, Applications
  <2>5. /\ conts' \in [Req -> Seq(Pieces)]
        /\ conts'[r] = <<Prefix(r, RespPkts[r])>>
        /\ \A q \in Req : q # r => conts'[q] = conts[q]
    BY <1>2, <2>2, <2>3
  <2> QED BY <1>1, <2>4, <2>5
<1>10. StartIn(s, h, crd)
  <2>1. StartRequest(s, h, crd) /\ UNCHANGED <<execs, responded, serverVars>>
    BY <1>3, <1>7, Zenon DEF ReuseStep
  <2>2. issued' = issued /\ issued \subseteq Req /\ backlog' = Tail(backlog)
    BY DEF ReuseStep, IInv, TypeOK
  <2>3. free' = free \ {s} /\ free' = {}
    BY <1>2 DEF ReuseStep, IInv, SlotBookkeeping
  <2>4. \A i \in 1..Len(Tail(backlog)) :
          /\ Tail(backlog)[i] \in issued /\ ~Started(Tail(backlog)[i])
          /\ Tail(backlog)[i] # h
    BY <1>4, <1>5, Zenon
  <2>5. \A i, j \in 1..Len(Tail(backlog)) : Tail(backlog)[i] = Tail(backlog)[j] => i = j
    <3> SUFFICES ASSUME NEW i \in 1..Len(Tail(backlog)), NEW j \in 1..Len(Tail(backlog)),
                        Tail(backlog)[i] = Tail(backlog)[j]
                 PROVE  i = j
      OBVIOUS
    <3>1. i + 1 = j + 1
      BY <1>4, <1>5, Zenon
    <3> QED BY <3>1
  <2> QED BY <1>1, <1>4, <1>6, <1>9, <2>1, <2>2, <2>3, <2>4, <2>5, Zenon DEF StartIn
<1> QED BY <1>1, <1>6, <1>8, <1>10, StartStep, Zenon

\* A response packet that completes the response preserves IInv.
LEMMA RespLast_IInv ==
    ASSUME IInv, NEW s \in Slots, NEW m \in net, NEW r \in Req, NEW i \in Nat,
           Accepted(s, m, r, i), LastStep(s, m)
    PROVE  IInv'
<1>1. AtLast(s, r) /\ CompleteRequest(s, Prefix(r, RespPkts[r]))
  BY LastPacket
<1>2. r = cReq[s] /\ conts[r] = <<>> /\ num_tx[s] = num_rx[s] + 1
  BY <1>1, Zenon DEF AtLast
<1>3. conts' = [conts EXCEPT ![r] = <<Prefix(r, RespPkts[r])>>]
  <2>1. conts' = [conts EXCEPT ![r] = Append(conts[r], Prefix(r, RespPkts[r]))]
    BY <1>1, <1>2 DEF CompleteRequest
  <2>2. Append(<<>>, Prefix(r, RespPkts[r])) = <<Prefix(r, RespPkts[r])>>
    OBVIOUS
  <2> QED BY <1>2, <2>1, <2>2, Zenon
<1>4. UNCHANGED <<issued, execs, responded, serverVars>>
  BY <1>1 DEF CompleteRequest, LastStep
<1>5. CASE /\ backlog = <<>>
           /\ cReq' = [cReq EXCEPT ![s] = NoReq]
           /\ num_rx' = [num_rx EXCEPT ![s] = @ + 1]
           /\ respBuf' = [respBuf EXCEPT ![s] = {}]
           /\ credits' = credits + 1
           /\ free' = free \cup {s}
           /\ UNCHANGED <<backlog, stallq, cCur, num_tx, respN, reqNum,
                          wheelVars, txq, net>>
  <2>1. num_rx' = [num_rx EXCEPT ![s] = num_tx[s]]
    BY <1>2, <1>5, Zenon
  <2>2. IdleStep(s, r)
    BY <1>3, <1>4, <1>5, <2>1 DEF IdleStep
  <2> QED BY <1>1, <2>2, IdleStep_IInv
<1>6. CASE /\ backlog # <<>>
           /\ backlog' = Tail(backlog)
           /\ StartRequest(s, Head(backlog), credits + 1)
           /\ UNCHANGED free
  <2>1. ReuseStep(s, r)
    BY <1>3, <1>4, <1>6 DEF ReuseStep
  <2> QED BY <1>1, <2>1, ReuseStep_IInv
<1> QED BY <1>1, <1>5, <1>6, Zenon DEF CompleteRequest

\* process_resp_one_st preserves IInv.
LEMMA process_resp_one_st_IInv ==
    ASSUME IInv, NEW m \in net, process_resp_one_st(m)
    PROVE  IInv'
<1>1. PICK s : s = SlotOf(m.req_num)
  OBVIOUS
<1>2. m.type = "resp" /\ in_order_client(s, m) /\ (LastStep(s, m) \/ MoreStep(s, m))
  BY <1>1, Zenon DEF process_resp_one_st, LastStep, MoreStep
<1>3. PICK r \in Req, i \in Nat : Accepted(s, m, r, i)
  BY <1>1, <1>2, RespPacket
<1>4. s \in Slots
  BY <1>1, <1>2, RespPacket
<1> QED BY <1>2, <1>3, <1>4, RespLast_IInv, RespMore_IInv
===============================================================================
