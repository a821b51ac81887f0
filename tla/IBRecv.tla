-------------------------------- MODULE IBRecv --------------------------------
(***************************************************************************)
(* The receive half of IBTransport and of the Rpc above it.  Three parties *)
(* walk the RX ring, each with an index of its own: the NIC fills the      *)
(* buffers of the RECV queue in the order they were posted, the Rpc reads  *)
(* rx_ring_[rx_ring_head_], and post_recvs gives buffers back from         *)
(* recv_head on, or lets a modified driver do it (fast RECVs).             *)
(*                                                                         *)
(* A buffer is its index in the ring.                                      *)
(***************************************************************************)
EXTENDS Integers, Sequences

CONSTANTS kRQDepth,    \* entries of the RX ring and of the RECV queue
          kRecvSlack,  \* RECVs batched before posting
          kRxPostlist  \* packets rx_burst returns at most

ASSUME IBRecvAssumption ==
    /\ kRQDepth \in Nat \ {0} /\ kRecvSlack \in Nat \ {0}
    /\ kRxPostlist \in Nat \ {0}
    /\ kRecvSlack + kRxPostlist <= kRQDepth

VARIABLES use_fast_recv,  \* the driver is modded for fast RECVs
          rq,             \* posted RECVs, in the order the NIC uses them
          recv_cq,        \* filled buffers whose CQE was not polled yet
          recv_wc,        \* completions rx_burst returned, still to process
          num_pkts,       \* result of the rx_burst being processed, else 0
          rx_ring_head,   \* rx_ring_head_ of the Rpc
          recv_head,      \* index of the next un-posted RECV buffer
          recvs_to_post,  \* RECVs used and not posted again
          wqe_head        \* producer index of the RECV queue in the driver

rxvars == <<use_fast_recv, rq, recv_cq, recv_wc, num_pkts, rx_ring_head,
            recv_head, recvs_to_post, wqe_head>>

Slots == 0 .. kRQDepth - 1

\* n consecutive ring slots from h on.
SlotsFrom(h, n) == [i \in 1 .. n |-> (h + i - 1) % kRQDepth]

\* init_recvs fills the RECV queue; init_verbs_structs probes the driver.
IBRxInit ==
    /\ use_fast_recv \in BOOLEAN
    /\ rq = SlotsFrom(0, kRQDepth)
    /\ recv_cq = <<>> /\ recv_wc = <<>> /\ num_pkts = 0
    /\ rx_ring_head = 0 /\ recv_head = 0 /\ recvs_to_post = 0
    /\ wqe_head = 0

\* A packet arrives: it takes the oldest RECV, and is dropped without one.
nic_recv ==
    /\ rq # <<>>
    /\ rq' = Tail(rq)
    /\ recv_cq' = Append(recv_cq, Head(rq))
    /\ UNCHANGED <<use_fast_recv, recv_wc, num_pkts, rx_ring_head, recv_head,
                   recvs_to_post, wqe_head>>

\* rx_burst: as many of the waiting completions as fit.  process_comps_st
\* returns at once when there is none.
ib_rx_burst ==
    /\ num_pkts = 0 /\ recv_cq # <<>>
    /\ num_pkts' = IF Len(recv_cq) < kRxPostlist THEN Len(recv_cq)
                                                 ELSE kRxPostlist
    /\ recv_wc' = SubSeq(recv_cq, 1, num_pkts')
    /\ recv_cq' = SubSeq(recv_cq, num_pkts' + 1, Len(recv_cq))
    /\ UNCHANGED <<use_fast_recv, rq, rx_ring_head, recv_head, recvs_to_post,
                   wqe_head>>

\* process_comps_st takes the next ring entry for the next completion; it
\* never looks at the completion itself.
process_comps_st ==
    /\ recv_wc # <<>>
    /\ recv_wc' = Tail(recv_wc)
    /\ rx_ring_head' = (rx_ring_head + 1) % kRQDepth
    /\ UNCHANGED <<use_fast_recv, rq, recv_cq, num_pkts, recv_head,
                   recvs_to_post, wqe_head>>

\* Variant that ignores the order in which the driver reuses buffers.
posted_bufs_ours(n) == SlotsFrom(recv_head, n)

\* The buffers of the n RECVs that are posted: the driver reuses what its own
\* work requests still hold, otherwise they are recv_wr[recv_head] and on.
posted_bufs(n) ==
    IF use_fast_recv THEN SlotsFrom(wqe_head, n) ELSE SlotsFrom(recv_head, n)

post_recvs ==
    /\ num_pkts > 0 /\ recv_wc = <<>>
    /\ num_pkts' = 0
    /\ LET n == recvs_to_post + num_pkts
       IN  IF n < kRecvSlack
           THEN recvs_to_post' = n /\ UNCHANGED <<rq, wqe_head, recv_head>>
           ELSE /\ rq' = rq \o posted_bufs(n)
                /\ wqe_head' = (wqe_head + n) % kRQDepth
                /\ recv_head' = IF use_fast_recv THEN recv_head
                                ELSE (recv_head + n) % kRQDepth
                /\ recvs_to_post' = 0
    /\ UNCHANGED <<use_fast_recv, recv_cq, recv_wc, rx_ring_head>>

IBRxNext == nic_recv \/ ib_rx_burst \/ process_comps_st \/ post_recvs

IBRxSpec == IBRxInit /\ [][IBRxNext]_rxvars

-----------------------------------------------------------------------------
IBRxTypeOK ==
    /\ use_fast_recv \in BOOLEAN
    /\ rq \in Seq(Slots) /\ recv_cq \in Seq(Slots) /\ recv_wc \in Seq(Slots)
    /\ num_pkts \in 0 .. kRxPostlist
    /\ rx_ring_head \in Slots /\ recv_head \in Slots /\ wqe_head \in Slots
    /\ recvs_to_post \in 0 .. kRecvSlack - 1

\* Buffers process_comps_st has read in this burst and not handed to
\* post_recvs yet.
Read == num_pkts - Len(recv_wc)

\* The three indices agree: walking the ring from the oldest buffer that was
\* not posted again, one meets the buffers waiting to be posted, those the
\* Rpc still has to read (so that rx_ring_[rx_ring_head_] holds the packet of
\* the next completion), those with a completion in the CQ, and the posted
\* RECVs, in the order the NIC will fill them.
RingsAgree ==
    /\ recv_wc \o recv_cq \o rq
           = SlotsFrom(rx_ring_head, Len(recv_wc) + Len(recv_cq) + Len(rq))
    /\ Len(recv_wc) + Len(recv_cq) + Len(rq) + Read + recvs_to_post = kRQDepth

\* The NIC never owns a buffer the Rpc has yet to read, nor one buffer twice.
NoOverwrite ==
    /\ \A i, j \in 1 .. Len(rq) : rq[i] = rq[j] => i = j
    /\ \A i \in 1 .. Len(rq) :
          /\ \A k \in 1 .. Len(recv_cq) : rq[i] # recv_cq[k]
          /\ \A k \in 1 .. Len(recv_wc) : rq[i] # recv_wc[k]

\* RECVs are posted in batches while sessions are admitted against the whole
\* ring: the RECVs available to packets that arrive are fewer than the ring
\* has entries, but by less than kRecvSlack, plus the burst being processed.
RecvShortfall ==
    Len(rq) + Len(recv_cq) > kRQDepth - kRecvSlack - num_pkts

\* The RX ring is safe: the NIC, the Rpc and post_recvs walk it in step, no
\* packet is overwritten before it was read, and the shortfall is bounded.
RecvsAccounted == RingsAgree /\ NoOverwrite /\ RecvShortfall
=============================================================================
