-------------------------------- MODULE RawRecv -------------------------------
(***************************************************************************)
(* The receive half of RawTransport in its dumbpipe mode (kDumb).  Packets *)
(* are received into multi-packet RECVs of kStridesPerWQE strides; their   *)
(* completions overrun a CQ of kRecvCQDepth entries that the NIC rewrites  *)
(* while the CPU reads it.  rx_burst infers how many packets arrived from  *)
(* one CQE, by its distance to the CQE it saw last in a cycle of           *)
(* wqe_id * kStridesPerWQE + wqe_counter.                                  *)
(***************************************************************************)
EXTENDS Integers, Sequences

CONSTANTS kNumRxRingEntries, kStridesPerWQE, kRecvCQDepth,
          WqeIds   \* values of the wqe_id field, 65536 in the code

\* The static_asserts of raw_transport.h and the rt_assert of
\* map_mlx5_overrunning_recv_cqes.  The cycle of 65536 RECVs is longer than the
\* ring by far; a RECV and a CQ more than the ring suffice.
ASSUME RawRecvAssumption ==
    /\ kStridesPerWQE \in Nat \ {0} /\ kRecvCQDepth \in Nat \ {0, 1}
    /\ kNumRxRingEntries \in Nat \ {0} /\ WqeIds \in Nat \ {0}
    /\ kNumRxRingEntries % kStridesPerWQE = 0
    /\ kStridesPerWQE >= kRecvCQDepth
    /\ kStridesPerWQE % kRecvCQDepth = 0
    /\ WqeIds * kStridesPerWQE % kNumRxRingEntries = 0
    /\ kNumRxRingEntries + kStridesPerWQE + kRecvCQDepth <= WqeIds * kStridesPerWQE

kRawRQDepth == kNumRxRingEntries \div kStridesPerWQE
kCQESnapshotCycle == WqeIds * kStridesPerWQE

VARIABLES cqe,           \* recv_cqe_arr
          nic_pkts,      \* packets the NIC completed, modulo the cycle
          mp_rq,         \* SGEs of the posted multi-packet RECVs
          stride,        \* next stride of the first of them
          raw_pc,        \* the steps of snapshot_cqe and of process_comps_st
          id_0, ctr_0,   \* wqe_id_0 and wqe_counter_0
          prev_snapshot, cqe_idx,
          burst,         \* result of the rx_burst being processed
          unread,        \* packets completed and not yet reported by rx_burst
          raw_ring_head, raw_recvs_to_post, mp_sge_idx

rawvars == <<cqe, nic_pkts, mp_rq, stride, raw_pc, id_0, ctr_0, prev_snapshot,
             cqe_idx, burst, unread, raw_ring_head, raw_recvs_to_post,
             mp_sge_idx>>

Snapshot == [wqe_id : 0 .. WqeIds - 1, wqe_counter : 0 .. kStridesPerWQE - 1]

snapshot_at(idx) == [wqe_id |-> idx \div kStridesPerWQE,
                     wqe_counter |-> idx % kStridesPerWQE]

get_cqe_snapshot_cycle_idx(s) == s.wqe_id * kStridesPerWQE + s.wqe_counter

get_cqe_cycle_delta(prev, cur) ==
    ((get_cqe_snapshot_cycle_idx(cur) + kCQESnapshotCycle)
        - get_cqe_snapshot_cycle_idx(prev)) % kCQESnapshotCycle

\* "As if we received the last (kRecvCQDepth) packets in the CQE cycle."
map_mlx5_overrunning_recv_cqes ==
    /\ cqe = [i \in 0 .. kRecvCQDepth - 1 |->
                 [wqe_id |-> WqeIds - 1,
                  wqe_counter |-> kStridesPerWQE - (kRecvCQDepth - i)]]
    /\ prev_snapshot = [wqe_id |-> WqeIds - 1,
                        wqe_counter |-> kStridesPerWQE - 1]
    /\ cqe_idx = 0

\* init_recvs posts every SGE of the ring.
raw_init_recvs ==
    /\ mp_rq = [i \in 1 .. kRawRQDepth |-> i - 1] /\ stride = 0
    /\ raw_recvs_to_post = 0 /\ mp_sge_idx = 0

RawInit ==
    /\ map_mlx5_overrunning_recv_cqes /\ raw_init_recvs
    /\ nic_pkts = 0 /\ unread = 0
    /\ raw_pc = "idle" /\ id_0 = 0 /\ ctr_0 = 0 /\ burst = 0
    /\ raw_ring_head = 0

-----------------------------------------------------------------------------
\* A packet fills the next stride; its CQE replaces the oldest one.
raw_nic_recv ==
    /\ mp_rq # <<>>
    /\ cqe' = [cqe EXCEPT ![nic_pkts % kRecvCQDepth] = snapshot_at(nic_pkts)]
    /\ nic_pkts' = (nic_pkts + 1) % kCQESnapshotCycle
    /\ stride' = (stride + 1) % kStridesPerWQE
    /\ mp_rq' = IF stride' = 0 THEN Tail(mp_rq) ELSE mp_rq
    /\ unread' = unread + 1
    /\ UNCHANGED <<raw_pc, id_0, ctr_0, prev_snapshot, cqe_idx, burst,
                   raw_ring_head, raw_recvs_to_post, mp_sge_idx>>

\* snapshot_cqe reads the id, the counter, and the id again.
read_wqe_id_0 ==
    /\ raw_pc = "idle"
    /\ id_0' = cqe[cqe_idx].wqe_id /\ raw_pc' = "id"
    /\ UNCHANGED <<cqe, nic_pkts, mp_rq, stride, ctr_0, prev_snapshot, cqe_idx,
                   burst, unread, raw_ring_head, raw_recvs_to_post, mp_sge_idx>>

read_wqe_counter_0 ==
    /\ raw_pc = "id"
    /\ ctr_0' = cqe[cqe_idx].wqe_counter /\ raw_pc' = "counter"
    /\ UNCHANGED <<cqe, nic_pkts, mp_rq, stride, id_0, prev_snapshot, cqe_idx,
                   burst, unread, raw_ring_head, raw_recvs_to_post, mp_sge_idx>>

snapshot_retry ==
    /\ raw_pc = "counter" /\ cqe[cqe_idx].wqe_id # id_0
    /\ raw_pc' = "idle" /\ id_0' = 0 /\ ctr_0' = 0
    /\ UNCHANGED <<cqe, nic_pkts, mp_rq, stride, prev_snapshot, cqe_idx, burst,
                   unread, raw_ring_head, raw_recvs_to_post, mp_sge_idx>>

\* The rest of rx_burst, on the snapshot that was read.
raw_rx_burst ==
    /\ raw_pc = "counter" /\ cqe[cqe_idx].wqe_id = id_0
    /\ id_0' = 0 /\ ctr_0' = 0
    /\ LET cur == [wqe_id |-> id_0, wqe_counter |-> ctr_0]
           delta == get_cqe_cycle_delta(prev_snapshot, cur)
       IN  IF delta = 0 \/ delta >= kNumRxRingEntries
           THEN /\ raw_pc' = "idle"
                /\ UNCHANGED <<prev_snapshot, cqe_idx, burst, unread>>
           ELSE /\ raw_pc' = "process"
                /\ prev_snapshot' = cur
                /\ cqe_idx' = (cqe_idx + 1) % kRecvCQDepth
                /\ burst' = delta
                /\ unread' = unread - delta
    /\ UNCHANGED <<cqe, nic_pkts, mp_rq, stride, raw_ring_head,
                   raw_recvs_to_post, mp_sge_idx>>

\* Variant that forgets the strides beyond the RECV it posts.
raw_post_recvs_reset ==
    LET n == raw_recvs_to_post + burst
    IN  IF n < kStridesPerWQE
        THEN raw_recvs_to_post' = n /\ UNCHANGED <<mp_rq, mp_sge_idx>>
        ELSE /\ mp_rq' = Append(mp_rq, mp_sge_idx)
             /\ mp_sge_idx' = (mp_sge_idx + 1) % kRawRQDepth
             /\ raw_recvs_to_post' = 0

\* post_recvs posts one multi-packet RECV per call at most.
raw_post_recvs ==
    LET n == raw_recvs_to_post + burst
    IN  IF n < kStridesPerWQE
        THEN raw_recvs_to_post' = n /\ UNCHANGED <<mp_rq, mp_sge_idx>>
        ELSE /\ mp_rq' = Append(mp_rq, mp_sge_idx)
             /\ mp_sge_idx' = (mp_sge_idx + 1) % kRawRQDepth
             /\ raw_recvs_to_post' = n - kStridesPerWQE

\* process_comps_st reads the packets and ends with post_recvs.
raw_process_comps_st ==
    /\ raw_pc = "process"
    /\ raw_ring_head' = (raw_ring_head + burst) % kNumRxRingEntries
    /\ raw_post_recvs
    /\ burst' = 0 /\ raw_pc' = "idle"
    /\ UNCHANGED <<cqe, nic_pkts, stride, id_0, ctr_0, prev_snapshot, cqe_idx,
                   unread>>

RawThread == \/ read_wqe_id_0 \/ read_wqe_counter_0 \/ snapshot_retry
             \/ raw_rx_burst \/ raw_process_comps_st

RawNext == raw_nic_recv \/ RawThread

RawSpec == RawInit /\ [][RawNext]_rawvars

-----------------------------------------------------------------------------
RawTypeOK ==
    /\ cqe \in [0 .. kRecvCQDepth - 1 -> Snapshot]
    /\ nic_pkts \in 0 .. kCQESnapshotCycle - 1
    /\ mp_rq \in Seq(0 .. kRawRQDepth - 1) /\ stride \in 0 .. kStridesPerWQE - 1
    /\ raw_pc \in {"idle", "id", "counter", "process"}
    /\ id_0 \in 0 .. WqeIds - 1 /\ ctr_0 \in 0 .. kStridesPerWQE - 1
    /\ prev_snapshot \in Snapshot /\ cqe_idx \in 0 .. kRecvCQDepth - 1
    /\ burst \in 0 .. kNumRxRingEntries /\ unread \in Int
    /\ raw_ring_head \in 0 .. kNumRxRingEntries - 1
    /\ raw_recvs_to_post \in Nat /\ mp_sge_idx \in 0 .. kRawRQDepth - 1

\* rx_burst never reports a packet the NIC has not completed, whatever mix of
\* an old and a new CQE it read.
NeverEarly == unread >= 0

\* The one CQE that rx_burst looks at tells whether there are packets: it is
\* a new one exactly when some packet was not reported yet, however many
\* packets overran the CQ.
CqeVisible ==
    LET delta == get_cqe_cycle_delta(prev_snapshot, cqe[cqe_idx])
    IN  unread > 0 <=> delta \in 1 .. kNumRxRingEntries - 1

\* The stride the NIC fills next is the one the Rpc will read after all the
\* packets that are waiting: the order in which SGEs are posted, the cycle of
\* the CQEs and rx_ring_head_ agree.
StridesAgree ==
    mp_rq # <<>> =>
      (raw_ring_head + burst + unread) % kNumRxRingEntries
          = Head(mp_rq) * kStridesPerWQE + stride

\* The NIC never fills a stride whose packet is still to be read: posted
\* strides, strides with packets, and strides waiting to be posted are the ring.
StridesConserved ==
    Len(mp_rq) * kStridesPerWQE - stride + burst + unread + raw_recvs_to_post
        = kNumRxRingEntries

\* post_recvs posts one RECV per call however many strides were used, so it
\* may fall behind by most of the ring; but once all packets were read at
\* least one RECV is posted, so that another packet can arrive, be read, and
\* make post_recvs catch up.
NeverStarved == raw_pc = "idle" /\ unread = 0 => mp_rq # <<>>

\* The multi-packet RECVs stay in step with what rx_burst infers from one CQE.
RawStrides ==
    NeverEarly /\ CqeVisible /\ StridesAgree /\ StridesConserved /\ NeverStarved
=============================================================================
