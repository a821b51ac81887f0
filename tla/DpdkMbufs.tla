------------------------------- MODULE DpdkMbufs ------------------------------
(***************************************************************************)
(* The datapath of DpdkTransport on one queue pair, and the mbufs of the   *)
(* QP's pool, which outlives the transports that own the QP one after the  *)
(* other (DpdkOwnership).  A process that crashes takes with it the mbufs  *)
(* its RX ring points to and those it has allocated for a TX batch.        *)
(***************************************************************************)
EXTENDS Integers, Sequences, FiniteSets, SequencesExt

CONSTANTS kNumMbufs,        \* mbufs of the pool
          kNumRxDesc,       \* descriptors the driver keeps filled
          kNumTxRingDesc,   \* capacity of the TX ring
          kTxBatchSize,     \* packets per tx_burst, kPostlist of DPDK
          kRxBatchSize,     \* packets per rx_burst
          kRxRing           \* entries of the Rpc's RX ring

ASSUME DpdkMbufsAssumption ==
    /\ kNumMbufs \in Nat /\ kNumRxDesc \in Nat /\ kNumTxRingDesc \in Nat
    /\ kTxBatchSize \in Nat \ {0}
    /\ kRxBatchSize \in Nat \ {0} /\ kRxRing \in Nat
    /\ kRxBatchSize <= kRxRing
    /\ kNumMbufs >= kNumRxDesc

VARIABLES dm_up,      \* a transport owns the QP
          pool,       \* free mbufs
          desc,       \* mbufs in the RX descriptors
          rxq,        \* mbufs with a packet that waits to be polled
          rx_ring,    \* mbuf each entry of rx_ring_ points into
          dm_head, dm_tail,  \* rx_ring_head_ and rx_ring_tail_
          rpc_head,   \* rx_ring_head_ of the Rpc
          nb_rx,      \* packets of the burst being processed
          tx_left,    \* packets of the TX batch without an mbuf yet
          tx_mbufs,   \* mbufs of the TX batch that are not in the TX ring yet
          txq,        \* mbufs in the TX ring
          lost        \* mbufs that no process will free

dmvars == <<dm_up, pool, desc, rxq, rx_ring, dm_head, dm_tail, rpc_head, nb_rx,
            tx_left, tx_mbufs, txq, lost>>

Mbufs == 1 .. kNumMbufs
Entries == 0 .. kRxRing - 1
NoMbuf == 0

\* setup_phy_port filled the descriptors from the pool.
DmInit ==
    /\ dm_up = FALSE
    /\ desc = 1 .. kNumRxDesc /\ pool = Mbufs \ desc
    /\ rxq = <<>> /\ nb_rx = 0 /\ txq = {} /\ lost = {}
    /\ tx_left = 0 /\ tx_mbufs = {}
    /\ rx_ring = [e \in Entries |-> NoMbuf]
    /\ dm_head = 0 /\ dm_tail = 0 /\ rpc_head = 0

\* Variant that polls the packets and does not free them.
drain_rx_queue_unfreed == rxq' = <<>> /\ UNCHANGED desc

\* drain_rx_queue: packets are polled, each for a fresh mbuf, and freed, until
\* rte_eth_rx_burst returns none: at once if there is no fresh mbuf, and else
\* when all packets are gone.  (Which mbufs end up in the descriptors and which
\* in the pool makes no difference.)
drain_rx_queue ==
    \/ pool = {} /\ UNCHANGED <<rxq, desc>>
    \/ pool # {} /\ rxq' = <<>> /\ desc' = desc \cup ToSet(rxq)

\* A new transport, with the RX ring of a new Rpc.
dm_ctor ==
    /\ ~dm_up /\ dm_up' = TRUE
    /\ drain_rx_queue
    /\ rx_ring' = [e \in Entries |-> NoMbuf]
    /\ dm_head' = 0 /\ dm_tail' = 0 /\ rpc_head' = 0
    /\ UNCHANGED <<pool, nb_rx, tx_left, tx_mbufs, txq, lost>>

\* The thread of the Rpc is inside tx_burst.
in_tx_burst == tx_left > 0 \/ tx_mbufs # {}

dm_dtor ==
    /\ dm_up /\ nb_rx = 0 /\ ~in_tx_burst /\ dm_up' = FALSE
    /\ drain_rx_queue
    /\ UNCHANGED <<pool, rx_ring, dm_head, dm_tail, rpc_head, nb_rx, tx_left,
                   tx_mbufs, txq, lost>>

\* The n entries of the ring from e on.
entries_from(e, n) == {(e + i) % kRxRing : i \in 0 .. n - 1}
held == {rx_ring[e] : e \in entries_from(dm_tail, nb_rx)}

\* Variant in which the mbufs of the TX batch are nobody's.
dm_dies_tx ==
    /\ dm_up /\ dm_up' = FALSE
    /\ lost' = lost \cup held /\ nb_rx' = 0
    /\ tx_left' = 0 /\ tx_mbufs' = {}
    /\ UNCHANGED <<pool, desc, rxq, rx_ring, dm_head, dm_tail, rpc_head, txq>>

\* The process dies; its QP is reclaimed, but not what its ring and its TX batch
\* point to.
dm_dies ==
    /\ dm_up /\ dm_up' = FALSE
    /\ lost' = lost \cup held \cup tx_mbufs /\ nb_rx' = 0
    /\ tx_left' = 0 /\ tx_mbufs' = {}
    /\ UNCHANGED <<pool, desc, rxq, rx_ring, dm_head, dm_tail, rpc_head, txq>>

\* It crashes, between any two steps.
dm_crash == dm_dies

-----------------------------------------------------------------------------
(* The NIC and the poll-mode driver. *)

dm_nic_recv ==
    /\ desc # {}
    /\ LET m == CHOOSE x \in desc : TRUE
       IN  desc' = desc \ {m} /\ rxq' = Append(rxq, m)
    /\ UNCHANGED <<dm_up, pool, rx_ring, dm_head, dm_tail, rpc_head, nb_rx,
                   tx_left, tx_mbufs, txq, lost>>

dm_nic_send ==
    /\ txq # {}
    /\ pool' = pool \cup txq /\ txq' = {}
    /\ UNCHANGED <<dm_up, desc, rxq, rx_ring, dm_head, dm_tail, rpc_head, nb_rx,
                   tx_left, tx_mbufs, lost>>

\* rte_eth_rx_burst returns a packet only with a fresh mbuf for its descriptor.
burst_size ==
    CHOOSE n \in 0 .. kRxBatchSize :
        /\ n <= Len(rxq) /\ n <= Cardinality(pool)
        /\ n = kRxBatchSize \/ n = Len(rxq) \/ n = Cardinality(pool)

-----------------------------------------------------------------------------
dm_rx_burst ==
    /\ dm_up /\ nb_rx = 0 /\ ~in_tx_burst /\ burst_size > 0
    /\ nb_rx' = burst_size
    /\ LET fresh == CHOOSE s \in SUBSET pool : Cardinality(s) = burst_size
       IN  pool' = pool \ fresh /\ desc' = desc \cup fresh
    /\ rx_ring' = [e \in Entries |->
          LET i == (e - dm_head + kRxRing) % kRxRing
          IN  IF i < burst_size THEN rxq[i + 1] ELSE rx_ring[e]]
    /\ rxq' = SubSeq(rxq, burst_size + 1, Len(rxq))
    /\ dm_head' = (dm_head + burst_size) % kRxRing
    /\ UNCHANGED <<dm_up, dm_tail, rpc_head, tx_left, tx_mbufs, txq, lost>>

\* process_comps_st reads the packets from its own index on, then post_recvs
\* frees the mbufs from the transport's tail on.  The pointers left in the ring
\* are never followed again; the model forgets them.
dm_post_recvs ==
    /\ dm_up /\ nb_rx > 0 /\ ~in_tx_burst
    /\ rpc_head' = (rpc_head + nb_rx) % kRxRing
    /\ pool' = pool \cup held
    /\ dm_tail' = (dm_tail + nb_rx) % kRxRing
    /\ rx_ring' = [e \in Entries |->
                      IF e \in entries_from(dm_tail, nb_rx) THEN NoMbuf
                                                           ELSE rx_ring[e]]
    /\ nb_rx' = 0
    /\ UNCHANGED <<dm_up, desc, rxq, dm_head, tx_left, tx_mbufs, txq, lost>>

\* tx_burst, with the responses of a burst that is being processed or without
\* one.  First every packet of the batch is copied into an mbuf of its own ...
dm_tx_burst(n) ==
    /\ dm_up /\ ~in_tx_burst /\ tx_left' = n
    /\ UNCHANGED <<dm_up, pool, desc, rxq, rx_ring, dm_head, dm_tail, rpc_head,
                   nb_rx, tx_mbufs, txq, lost>>

dm_tx_alloc ==
    /\ tx_left > 0 /\ tx_left' = tx_left - 1
    /\ pool # {}
    /\ LET m == CHOOSE x \in pool : TRUE
       IN  pool' = pool \ {m} /\ tx_mbufs' = tx_mbufs \cup {m}
    /\ UNCHANGED <<dm_up, desc, rxq, rx_ring, dm_head, dm_tail, rpc_head, nb_rx,
                   txq, lost>>

\* ... and without one the process dies ...
dm_tx_assert == tx_left > 0 /\ pool = {} /\ dm_dies

\* ... then rte_eth_tx_burst moves them to the TX ring, called again until the
\* ring has had room for all.
dm_tx_ring ==
    /\ tx_left = 0 /\ tx_mbufs # {} /\ Cardinality(txq) < kNumTxRingDesc
    /\ LET m == CHOOSE x \in tx_mbufs : TRUE
       IN  tx_mbufs' = tx_mbufs \ {m} /\ txq' = txq \cup {m}
    /\ UNCHANGED <<dm_up, pool, desc, rxq, rx_ring, dm_head, dm_tail, rpc_head,
                   nb_rx, tx_left, lost>>

DmNext ==
    \/ dm_ctor \/ dm_dtor \/ dm_crash \/ dm_nic_recv \/ dm_nic_send
    \/ dm_rx_burst \/ dm_post_recvs
    \/ \E n \in 1 .. kTxBatchSize : dm_tx_burst(n)
    \/ dm_tx_alloc \/ dm_tx_assert \/ dm_tx_ring

DmSpec == DmInit /\ [][DmNext]_dmvars

-----------------------------------------------------------------------------
DmTypeOK ==
    /\ dm_up \in BOOLEAN
    /\ pool \subseteq Mbufs /\ desc \subseteq Mbufs /\ txq \subseteq Mbufs
    /\ tx_mbufs \subseteq Mbufs /\ tx_left \in 0 .. kTxBatchSize
    /\ lost \subseteq Mbufs /\ rxq \in Seq(Mbufs)
    /\ rx_ring \in [Entries -> Mbufs \cup {NoMbuf}]
    /\ dm_head \in Entries /\ dm_tail \in Entries /\ rpc_head \in Entries
    /\ nb_rx \in 0 .. kRxBatchSize

\* Every mbuf is in exactly one place: none is freed twice or while the Rpc may
\* still read it, and none is lost except with a process that crashed.
OnePlaceEach ==
    LET places == <<pool, desc, ToSet(rxq), held, tx_mbufs, txq, lost>>
    IN  /\ UNION {places[i] : i \in 1 .. 7} = Mbufs
        /\ \A i, j \in 1 .. 7 : i # j => places[i] \cap places[j] = {}
        /\ Len(rxq) = Cardinality(ToSet(rxq)) /\ nb_rx = Cardinality(held)

\* The Rpc reads the entries that rx_burst filled and post_recvs will free: the
\* index of the Rpc and the two indices of the transport stay together.
DpdkRingAgrees ==
    dm_up => rpc_head = dm_tail /\ dm_head = (dm_tail + nb_rx) % kRxRing

\* tx_burst asserts that it gets an mbuf for every packet of its batch, with the
\* TX ring full and a whole RX burst in hand too: it does, until crashed
\* processes have leaked more mbufs than the pool has to spare.
TxMbufAvailable ==
    LET spare == kNumMbufs - (kNumRxDesc + kRxBatchSize + kNumTxRingDesc)
    IN  tx_left > 0 /\ Cardinality(lost) + kTxBatchSize <= spare => pool # {}

\* Mbufs are accounted for through constructors, destructors and crashes.
MbufsConserved == OnePlaceEach /\ DpdkRingAgrees /\ TxMbufAvailable
=============================================================================
