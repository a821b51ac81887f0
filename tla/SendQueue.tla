------------------------------ MODULE SendQueue ------------------------------
(***************************************************************************)
(* The transmit half of the two verbs transports, and the Rpc code in      *)
(* front of it: the TX batch of the Rpc (rpc.h), the ring of MsgBuffers    *)
(* for control packets (rpc_cr.cc, rpc_rfr.cc), selective signalling,      *)
(* tx_burst and tx_flush of IBTransport and RawTransport, and the NIC that *)
(* reads the send queue in order.                                          *)
(*                                                                         *)
(* A packet is abstracted to the control MsgBuffer it is sent from, or     *)
(* Data.  A SEND work request keeps a reference to its MsgBuffer unless    *)
(* its payload was inlined when it was posted.                             *)
(***************************************************************************)
EXTENDS Integers, Sequences

CONSTANTS kUnsigBatch,  \* one SEND in kUnsigBatch is signalled
          kPostlist,    \* capacity of the TX batch of an Rpc
          kSQDepth,     \* capacity of the send queue
          MaxNbTx       \* bound on nb_tx between two flushes

\* The static_asserts of ib_transport.h and raw_transport.h.
ASSUME SendQueueAssumption ==
    /\ kUnsigBatch \in Nat \ {0} /\ kPostlist \in Nat \ {0}
    /\ kPostlist <= kUnsigBatch
    /\ kSQDepth \in Nat /\ kSQDepth >= 2 * kUnsigBatch
    /\ MaxNbTx \in Nat

VARIABLES transport,   \* the transport the library is built for
          tx_batch,    \* tx_burst_arr_[0 .. tx_batch_i_ - 1]
          ctrl_head,   \* ctrl_msgbuf_head_
          nb_tx,       \* nb_tx of the transport
          tx_pc,       \* where the dispatch thread is
          tx_flags,    \* signalling of the packets of the batch seen so far
          tx_drain,    \* the burst is part of drain_tx_batch_and_dma_queue
          sq,          \* the SENDs posted and not yet reclaimed by a poll
          sq_done      \* how many of them the NIC has completed

txvars == <<transport, tx_batch, ctrl_head, nb_tx, tx_pc, tx_flags, tx_drain,
            sq, sq_done>>

NumCtrlMsgbufs == 2 * kUnsigBatch
CtrlMsgbufs == 0 .. NumCtrlMsgbufs - 1
Data == -1       \* a packet of a request or a response
Inlined == -2    \* the work request holds a copy, and refers to no buffer
FlushBuf == -3   \* the hugepage buffer raw tx_flush sends from

Wqe == [sig : BOOLEAN, ref : CtrlMsgbufs \cup {Data, Inlined, FlushBuf}]

TxInit ==
    /\ transport \in {"ib", "roce", "raw"}
    /\ tx_batch = <<>> /\ ctrl_head = 0
    /\ nb_tx = 0
    /\ tx_pc = "idle" /\ tx_flags = <<>> /\ tx_drain = FALSE
    /\ sq = <<>> /\ sq_done = 0

-----------------------------------------------------------------------------
(* The batch of the Rpc. *)

\* A full batch is handed to the transport at once.
enqueue(item) ==
    /\ tx_pc = "idle"
    /\ nb_tx + Len(tx_batch) < MaxNbTx
    /\ tx_batch' = Append(tx_batch, item)
    /\ tx_pc' = IF Len(tx_batch') = kPostlist THEN "burst" ELSE "idle"
    /\ UNCHANGED <<transport, nb_tx, tx_flags, tx_drain, sq, sq_done>>

enqueue_pkt_tx_burst_st == enqueue(Data) /\ UNCHANGED ctrl_head

\* The index of the control MsgBuffer after this one.
next_ctrl_msgbuf(h) == IF h + 1 = NumCtrlMsgbufs THEN 0 ELSE h + 1

\* enqueue_cr_st and enqueue_rfr_st: the header is written into the next
\* control MsgBuffer, whatever that buffer was last used for.
enqueue_hdr_tx_burst_st ==
    /\ enqueue(ctrl_head)
    /\ ctrl_head' = next_ctrl_msgbuf(ctrl_head)

\* The event loop sends a partial batch too.
do_tx_burst_st ==
    /\ tx_pc = "idle" /\ tx_batch # <<>>
    /\ tx_pc' = "burst"
    /\ UNCHANGED <<transport, tx_batch, ctrl_head, nb_tx, tx_flags, tx_drain,
                   sq, sq_done>>

\* Before a MsgBuffer is given back: rollback, session reset, a late response.
drain_tx_batch_and_dma_queue ==
    /\ tx_pc = "idle"
    /\ tx_drain' = TRUE
    /\ tx_pc' = IF tx_batch # <<>> THEN "burst" ELSE "flush"
    /\ UNCHANGED <<transport, tx_batch, ctrl_head, nb_tx, tx_flags, sq, sq_done>>

-----------------------------------------------------------------------------
(* The verbs provider: completions are reported in order, and a poll that  *)
(* finds the CQE of a signalled SEND frees its slot and all earlier ones.  *)

Completed == {i \in 1 .. sq_done : sq[i].sig}

poll_cq_one_helper ==
    /\ Completed # {}
    /\ LET i == CHOOSE k \in Completed : \A m \in Completed : k <= m
       IN  /\ sq' = SubSeq(sq, i + 1, Len(sq))
           /\ sq_done' = sq_done - i

nic_send ==
    /\ sq_done < Len(sq)
    /\ sq_done' = sq_done + 1
    /\ UNCHANGED <<transport, tx_batch, ctrl_head, nb_tx, tx_pc, tx_flags,
                   tx_drain, sq>>

-----------------------------------------------------------------------------
(* tx_burst *)

\* Variant that signals half as often.
signaled_sparse == nb_tx % (2 * kUnsigBatch) = 0

signaled == nb_tx % kUnsigBatch = 0
must_poll == signaled /\ nb_tx # 0

\* Variant that does not wait for the SEND signalled before.
get_signaled_flag_unpolled ==
    /\ tx_pc = "burst" /\ Len(tx_flags) < Len(tx_batch)
    /\ tx_flags' = Append(tx_flags, signaled)
    /\ nb_tx' = nb_tx + 1
    /\ UNCHANGED <<transport, tx_batch, ctrl_head, tx_pc, tx_drain, sq, sq_done>>

\* One iteration of the loop over the batch; it spins in poll_cq_one_helper
\* until the CQE it waits for is there.
get_signaled_flag ==
    /\ tx_pc = "burst" /\ Len(tx_flags) < Len(tx_batch)
    /\ IF must_poll THEN poll_cq_one_helper ELSE UNCHANGED <<sq, sq_done>>
    /\ tx_flags' = Append(tx_flags, signaled)
    /\ nb_tx' = nb_tx + 1
    /\ UNCHANGED <<transport, tx_batch, ctrl_head, tx_pc, tx_drain>>

\* ibv_post_send of the whole batch, with the buffer each SEND refers to.
post_batch(refs) ==
    /\ tx_pc = "burst" /\ Len(tx_flags) = Len(tx_batch)
    /\ sq' = sq \o [i \in DOMAIN refs |-> [sig |-> tx_flags[i], ref |-> refs[i]]]
    /\ tx_batch' = <<>> /\ tx_flags' = <<>>
    /\ tx_pc' = IF tx_drain THEN "flush" ELSE "idle"
    /\ UNCHANGED <<transport, ctrl_head, nb_tx, tx_drain, sq_done>>

\* A control packet is a header and the 8 bytes its MsgBuffer was created with.
\* The header is 16 bytes after the headroom, which InfiniBand does not have: 24
\* bytes there, but 64 on RoCE and raw Ethernet.
kHeadroom == IF transport = "ib" THEN 0 ELSE 40
ctrl_pkt_size == kHeadroom + 16 + 8
kMaxInline == IF transport = "raw" THEN 0 ELSE 60

\* IBTransport, built for InfiniBand or RoCE, inlines what fits.
ib_tx_burst ==
    /\ transport \in {"ib", "roce"}
    /\ post_batch([i \in DOMAIN tx_batch |->
          IF tx_batch[i] # Data /\ ctrl_pkt_size <= kMaxInline THEN Inlined
                                                             ELSE tx_batch[i]])

\* RawTransport inlines nothing: the NIC reads control packets where they are.
raw_tx_burst == transport = "raw" /\ post_batch(tx_batch)

-----------------------------------------------------------------------------
(* tx_flush *)

tx_flush_return ==
    /\ tx_pc' = "idle" /\ tx_drain' = FALSE
    /\ UNCHANGED <<transport, tx_batch, ctrl_head, tx_flags>>

\* Variant that polls although nothing was sent.
tx_flush_empty_polls ==
    /\ tx_pc = "flush" /\ nb_tx = 0
    /\ IF Completed # {} THEN tx_flush_return /\ UNCHANGED <<nb_tx, sq, sq_done>>
                         ELSE UNCHANGED txvars

\* Nothing was sent since the last flush.
tx_flush_empty ==
    /\ tx_pc = "flush" /\ nb_tx = 0
    /\ tx_flush_return
    /\ UNCHANGED <<nb_tx, sq, sq_done>>

\* Poll the one signalled SEND, then post a second signalled one.
flush_post(ref) ==
    /\ tx_pc = "flush" /\ nb_tx # 0
    /\ Completed # {}
    /\ LET i == CHOOSE k \in Completed : \A m \in Completed : k <= m
       IN  /\ sq' = Append(SubSeq(sq, i + 1, Len(sq)),
                           [sig |-> TRUE, ref |-> ref])
           /\ sq_done' = sq_done - i
    /\ tx_pc' = "flushed"
    /\ UNCHANGED <<transport, tx_batch, ctrl_head, nb_tx, tx_flags, tx_drain>>

ib_tx_flush == transport \in {"ib", "roce"} /\ flush_post(Inlined)

\* The flush packet is sent from a hugepage buffer that is freed on return.
raw_tx_flush == transport = "raw" /\ flush_post(FlushBuf)

tx_flush_wait ==
    /\ tx_pc = "flushed"
    /\ poll_cq_one_helper
    /\ nb_tx' = 0
    /\ tx_flush_return

-----------------------------------------------------------------------------
TxThread ==
    \/ do_tx_burst_st \/ get_signaled_flag \/ ib_tx_burst \/ raw_tx_burst
    \/ tx_flush_empty \/ ib_tx_flush \/ raw_tx_flush \/ tx_flush_wait

TxNext ==
    \/ enqueue_pkt_tx_burst_st \/ enqueue_hdr_tx_burst_st
    \/ drain_tx_batch_and_dma_queue
    \/ TxThread
    \/ nic_send

TxSpec == TxInit /\ [][TxNext]_txvars

-----------------------------------------------------------------------------
(* Types and properties. *)

TxTypeOK ==
    /\ transport \in {"ib", "roce", "raw"}
    /\ tx_batch \in Seq(CtrlMsgbufs \cup {Data}) /\ Len(tx_batch) <= kPostlist
    /\ ctrl_head \in CtrlMsgbufs
    /\ nb_tx \in Nat
    /\ tx_pc \in {"idle", "burst", "flush", "flushed"}
    /\ tx_flags \in Seq(BOOLEAN) /\ Len(tx_flags) <= Len(tx_batch)
    /\ tx_drain \in BOOLEAN
    /\ sq \in Seq(Wqe) /\ sq_done \in 0 .. Len(sq)

Signalled == {i \in 1 .. Len(sq) : sq[i].sig}
Polling ==
    \/ tx_pc = "flush" /\ nb_tx # 0
    \/ tx_pc = "flushed"
    \/ tx_pc = "burst" /\ Len(tx_flags) < Len(tx_batch) /\ must_poll

\* "The selective signaling logic guarantees that there is *exactly one*
\* *signaled* SEND work request" (ib_transport_datapath.cc:77-80): whenever a
\* poll is about to wait for a completion, one signalled SEND is posted, and
\* never a second one whose CQE a later poll could mistake for its own.  The
\* wait in get_signaled_flag happens before the batch is posted, so the SEND
\* must come from an earlier batch.
OneSignaled ==
    /\ Polling => Signalled # {}
    /\ \A i, j \in Signalled : i = j

\* "ctrl_msgbuf can be reused after (2 * unsig_batch) calls to this function"
\* (rpc.h:736-737): the control MsgBuffer that is written next is neither in
\* the batch nor still to be read by the NIC.  Where control packets are not
\* inlined it fails: 2 * kUnsigBatch - 1 SENDs and a batch may be on their way.
CtrlIntact ==
    tx_pc = "idle" =>
    \A r \in {tx_batch[i] : i \in 1 .. Len(tx_batch)}
             \cup {sq[i].ref : i \in sq_done + 1 .. Len(sq)} : r # ctrl_head

\* What the Rpc takes for granted of the NIC's references to its MsgBuffers.
\* After a flush, and until the next packet, there is none (which is why
\* RpcDatapath lets a retransmission drain the DMA queue); the control MsgBuffer
\* to be written next has none on InfiniBand, and on RoCE and raw Ethernet as
\* long as no other packet waits in the batch; and ibv_post_send never finds
\* the queue full, although the slots of unsignalled SENDs come back only with
\* the next signalled one (kSQDepth >= 2 * kUnsigBatch, ib_transport.h).
TxReferences ==
    /\ nb_tx = 0 => sq = <<>>
    /\ transport = "ib" \/ tx_batch = <<>> => CtrlIntact
    /\ Len(sq) <= kSQDepth

\* Every burst and every flush returns to the event loop, provided the NIC
\* works through the send queue: no poll waits for a CQE that never comes.
TxReturns == tx_pc # "idle" ~> tx_pc = "idle"
=============================================================================
