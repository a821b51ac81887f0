--------------------------- MODULE TransportProofs ---------------------------
(***************************************************************************)
(* Proofs about the transports: the send queue of the verbs transports,    *)
(* their RX rings, and the DPDK transport with its daemon.                 *)
(***************************************************************************)
EXTENDS SendQueue, IBRecv, RawRecv, DpdkOwnership, DpdkMbufs,
        FiniteSetTheorems, SequenceTheorems, TLAPS

-------------------------------------------------------------------------------
(***************************************************************************)
(* Remainders.                                                             *)
(***************************************************************************)
LEMMA ModBasic ==
    ASSUME NEW d \in Nat \ {0}, NEW n \in Nat
    PROVE  n % d \in 0..d - 1 /\ n = d * (n \div d) + (n % d) /\ n \div d \in Nat
  OBVIOUS

LEMMA ModUnique ==
    ASSUME NEW d \in Nat \ {0}, NEW n \in Nat, NEW q \in Int, NEW m \in 0..d - 1,
           n = d * q + m
    PROVE  n % d = m
  OBVIOUS

\* The next remainder, as counters and ring indices are advanced.
LEMMA ModNext ==
    ASSUME NEW d \in Nat \ {0}, NEW n \in Nat
    PROVE  (n + 1) % d = IF n % d = d - 1 THEN 0 ELSE (n % d) + 1
<1>1. PICK q : q = n \div d
  OBVIOUS
<1>2. PICK m : m = n % d
  OBVIOUS
<1>3. q \in Nat /\ m \in 0..d - 1 /\ n = d * q + m
  BY <1>1, <1>2, ModBasic
<1>4. CASE m = d - 1
  <2>1. d * (q + 1) = d * q + d /\ q + 1 \in Int /\ 0 \in 0..d - 1 /\ n + 1 \in Nat
    BY <1>3
  <2>2. n + 1 = d * (q + 1) + 0
    BY <1>3, <1>4, <2>1
  <2>3. (n + 1) % d = 0
    BY ONLY <2>1, <2>2, ModUnique, d \in Nat \ {0}
  <2> QED BY <1>2, <1>4, <2>3
<1>5. CASE m # d - 1
  <2>1. n + 1 = d * q + (m + 1) /\ m + 1 \in 0..d - 1 /\ n + 1 \in Nat /\ q \in Int
    BY <1>3, <1>5
  <2>2. (n + 1) % d = m + 1
    BY ONLY <2>1, ModUnique, d \in Nat \ {0}
  <2> QED BY <1>2, <1>5, <2>2
<1> QED BY <1>4, <1>5

\* Remainders may be taken early.
LEMMA ModAdd ==
    ASSUME NEW d \in Nat \ {0}, NEW a \in Nat, NEW b \in Nat
    PROVE  ((a % d) + b) % d = (a + b) % d
<1>1. PICK q : q = a \div d
  OBVIOUS
<1>2. PICK m : m = a % d
  OBVIOUS
<1>3. q \in Nat /\ m \in 0..d - 1 /\ a = d * q + m
  BY <1>1, <1>2, ModBasic
<1>4. PICK p : p = (m + b) \div d
  OBVIOUS
<1>5. PICK k : k = (m + b) % d
  OBVIOUS
<1>6. m + b \in Nat
  BY <1>3
<1>7. p \in Nat /\ k \in 0..d - 1 /\ m + b = d * p + k
  BY <1>4, <1>5, <1>6, ModBasic
<1>8. d * (q + p) = d * q + d * p /\ q + p \in Int /\ a + b \in Nat
  BY <1>3, <1>7
<1>9. a + b = d * (q + p) + k
  BY <1>3, <1>7, <1>8
<1>10. (a + b) % d = k
  BY ONLY <1>7, <1>8, <1>9, ModUnique, d \in Nat \ {0}
<1> QED BY <1>2, <1>5, <1>10

-------------------------------------------------------------------------------
(***************************************************************************)
(* The send queue.                                                         *)
(***************************************************************************)
\* The SENDs posted, and those of the batch whose flag is known.
Known == Len(sq) + Len(tx_flags)
Flag(i) == IF i <= Len(sq) THEN sq[i].sig ELSE tx_flags[i - Len(sq)]

\* How many of them there are from the signalled one on.
Age == IF nb_tx % kUnsigBatch = 0 THEN kUnsigBatch ELSE nb_tx % kUnsigBatch

\* Where the dispatch thread is, and what it has in hand there.
TxControl ==
    /\ tx_pc = "idle" => Len(tx_batch) < kPostlist /\ tx_flags = <<>>
    /\ tx_pc \in {"flush", "flushed"} => tx_batch = <<>> /\ tx_flags = <<>>
    /\ tx_pc = "flushed" => nb_tx # 0

\* Exactly one of the known SENDs is signalled, which is not further from the
\* front of the queue than kUnsigBatch.
OneFlag ==
    /\ nb_tx = 0 => Known = 0
    /\ nb_tx # 0 /\ tx_pc # "flushed" =>
         /\ Known + 1 - Age \in 1..kUnsigBatch
         /\ \A i \in 1..Known : Flag(i) <=> i = Known + 1 - Age
    /\ tx_pc = "flushed" =>
         /\ Len(sq) \in 1..kUnsigBatch
         /\ \A i \in 1..Len(sq) : sq[i].sig <=> i = Len(sq)

\* The control MsgBuffers of a batch and of the queue in front of it are those
\* just before ctrl_msgbuf_head_, and on InfiniBand a SEND refers to none.
Behind(x) == IF x < ctrl_head THEN ctrl_head - x ELSE ctrl_head - x + NumCtrlMsgbufs

CtrlBehind ==
    /\ \A i \in 1..Len(tx_batch) :
         tx_batch[i] # Data => Behind(tx_batch[i]) <= Len(tx_batch) + 1 - i
    /\ transport = "ib" => \A i \in 1..Len(sq) : sq[i].ref \in {Data, Inlined}
    /\ \A i \in 1..Len(sq) : sq[i].ref \in CtrlMsgbufs =>
         Behind(sq[i].ref) <= Len(sq) + 1 - i + Len(tx_batch)

TxInv == TxTypeOK /\ TxControl /\ OneFlag /\ CtrlBehind

\* Where the signalled SEND is.
Sig == Known + 1 - Age

LEMMA AgeRange ==
    ASSUME nb_tx \in Nat
    PROVE  /\ Age \in 1..kUnsigBatch
           /\ signaled => Age = kUnsigBatch
           /\ ~signaled => Age = nb_tx % kUnsigBatch
           /\ ~signaled => Age < kUnsigBatch
  BY ModBasic, SendQueueAssumption DEF Age, signaled

\* One more SEND, one more in the age of the signalled one.
LEMMA AgeNext ==
    ASSUME nb_tx \in Nat, nb_tx' = nb_tx + 1
    PROVE  Age' = IF signaled THEN 1 ELSE Age + 1
<1>1. PICK n \in Nat : n = nb_tx
  OBVIOUS
<1>2. (n + 1) % kUnsigBatch = IF n % kUnsigBatch = kUnsigBatch - 1 THEN 0
                              ELSE (n % kUnsigBatch) + 1
  BY ModNext, SendQueueAssumption
<1>3. n % kUnsigBatch \in 0..kUnsigBatch - 1
  BY ModBasic, SendQueueAssumption
<1>4. Age' = IF (n + 1) % kUnsigBatch = 0 THEN kUnsigBatch ELSE (n + 1) % kUnsigBatch
  BY <1>1 DEF Age
<1>5. Age = IF n % kUnsigBatch = 0 THEN kUnsigBatch ELSE n % kUnsigBatch
  BY <1>1 DEF Age
<1>6. signaled <=> n % kUnsigBatch = 0
  BY <1>1 DEF signaled
<1>7. PICK m : m = n % kUnsigBatch
  OBVIOUS
<1>8. PICK k : k = (n + 1) % kUnsigBatch
  OBVIOUS
<1> QED BY <1>2, <1>3, <1>4, <1>5, <1>6, <1>7, <1>8, SendQueueAssumption

\* A poll reclaims the queue up to the only signalled SEND there is.
LEMMA PollOne ==
    ASSUME TxTypeOK, Completed # {}, NEW p,
           \A i \in 1..Len(sq) : sq[i].sig <=> i = p
    PROVE  /\ p \in 1..sq_done /\ p <= Len(sq)
           /\ (CHOOSE k \in Completed : \A m \in Completed : k <= m) = p
<1>1. \A k \in Completed : k = p /\ k \in 1..sq_done /\ k <= Len(sq)
  BY DEF Completed, TxTypeOK
<1>2. Completed = {p} /\ p \in 1..sq_done /\ p <= Len(sq)
  BY <1>1
<1> QED BY <1>2

LEMMA TxInitInv == TxInit => TxInv
<1> SUFFICES ASSUME TxInit PROVE TxInv
  OBVIOUS
<1>1. /\ Len(tx_batch) = 0 /\ Len(tx_flags) = 0 /\ Len(sq) = 0
      /\ tx_batch \in Seq(CtrlMsgbufs \cup {Data}) /\ tx_flags \in Seq(BOOLEAN)
      /\ sq \in Seq(Wqe) /\ tx_flags = <<>>
  BY DEF TxInit
<1>2. ctrl_head \in CtrlMsgbufs
  BY SendQueueAssumption DEF TxInit, CtrlMsgbufs, NumCtrlMsgbufs
<1>3. TxTypeOK
  <2>1. tx_drain \in BOOLEAN /\ tx_pc \in {"idle", "burst", "flush", "flushed"}
    BY DEF TxInit
  <2>2. sq_done \in 0..0 /\ nb_tx \in Nat /\ 0 <= kPostlist
    BY SendQueueAssumption DEF TxInit
  <2> QED BY <1>1, <1>2, <2>1, <2>2 DEF TxInit, TxTypeOK
<1>4. TxControl
  BY <1>1, SendQueueAssumption DEF TxInit, TxControl
<1>5. OneFlag
  BY <1>1 DEF TxInit, OneFlag, Known
<1>6. CtrlBehind
  BY <1>1 DEF CtrlBehind
<1> QED BY <1>3, <1>4, <1>5, <1>6 DEF TxInv

\* A control MsgBuffer falls back by at most one when the next one is taken.
LEMMA BehindNext ==
    ASSUME NEW x \in CtrlMsgbufs, ctrl_head \in CtrlMsgbufs,
           \/ ctrl_head' = ctrl_head
           \/ ctrl_head' = IF ctrl_head + 1 = NumCtrlMsgbufs THEN 0 ELSE ctrl_head + 1
    PROVE  /\ Behind(x) \in 1..NumCtrlMsgbufs /\ Behind(x)' \in 1..NumCtrlMsgbufs
           /\ Behind(x)' <= Behind(x) + 1
  BY SendQueueAssumption DEF Behind, CtrlMsgbufs, NumCtrlMsgbufs

\* An enqueued packet changes the batch only.
LEMMA EnqueueInv ==
    ASSUME TxInv, NEW item \in CtrlMsgbufs \cup {Data}, enqueue(item)
    PROVE  /\ tx_batch' \in Seq(CtrlMsgbufs \cup {Data})
           /\ Len(tx_batch') = Len(tx_batch) + 1 /\ Len(tx_batch') <= kPostlist
           /\ tx_flags = <<>>
           /\ tx_pc' \in {"idle", "burst"} /\ TxControl' /\ OneFlag'
           /\ tx_batch'[Len(tx_batch) + 1] = item
           /\ \A i \in 1..Len(tx_batch) : tx_batch'[i] = tx_batch[i]
<1>1. /\ tx_batch' = Append(tx_batch, item) /\ tx_pc = "idle"
      /\ tx_pc' = IF Len(tx_batch') = kPostlist THEN "burst" ELSE "idle"
      /\ UNCHANGED <<nb_tx, tx_flags, sq>>
  BY DEF enqueue
<1>2. /\ tx_batch \in Seq(CtrlMsgbufs \cup {Data}) /\ Len(tx_batch) < kPostlist
      /\ tx_flags = <<>>
  BY <1>1 DEF TxInv, TxTypeOK, TxControl
<1>3. /\ tx_batch' \in Seq(CtrlMsgbufs \cup {Data})
      /\ Len(tx_batch') = Len(tx_batch) + 1 /\ Len(tx_batch') <= kPostlist
      /\ tx_batch'[Len(tx_batch) + 1] = item
      /\ \A i \in 1..Len(tx_batch) : tx_batch'[i] = tx_batch[i]
  BY <1>1, <1>2, SendQueueAssumption
<1>4. TxControl'
  BY <1>1, <1>2, <1>3, SendQueueAssumption DEF TxControl
<1>5. OneFlag'
  BY <1>1 DEF TxInv, OneFlag, Known, Age, Flag
<1> QED BY <1>1, <1>2, <1>3, <1>4, <1>5

LEMMA EnqueuePkt ==
    ASSUME TxInv, enqueue_pkt_tx_burst_st
    PROVE  TxInv'
<1>1. enqueue(Data) /\ UNCHANGED <<transport, ctrl_head, nb_tx, tx_flags, tx_drain, sq, sq_done>>
  BY DEF enqueue_pkt_tx_burst_st, enqueue
<1>2. /\ tx_batch' \in Seq(CtrlMsgbufs \cup {Data})
      /\ Len(tx_batch') = Len(tx_batch) + 1 /\ Len(tx_batch') <= kPostlist
      /\ tx_flags = <<>>
      /\ tx_pc' \in {"idle", "burst"} /\ TxControl' /\ OneFlag'
      /\ tx_batch'[Len(tx_batch) + 1] = Data
      /\ \A i \in 1..Len(tx_batch) : tx_batch'[i] = tx_batch[i]
  BY <1>1, EnqueueInv
<1>3. TxTypeOK'
  BY <1>1, <1>2 DEF TxInv, TxTypeOK
<1>5. Len(sq) \in Nat /\ Len(tx_batch) \in Nat
  BY DEF TxInv, TxTypeOK
<1>6. \A x \in CtrlMsgbufs : Behind(x)' = Behind(x) /\ Behind(x) \in Int
  <2> SUFFICES ASSUME NEW x \in CtrlMsgbufs PROVE Behind(x)' = Behind(x) /\ Behind(x) \in Int
    OBVIOUS
  <2> QED BY <1>1, BehindNext DEF Behind, TxInv, TxTypeOK
<1>7. \A i \in 1..Len(sq) : sq[i].ref \in CtrlMsgbufs =>
        Behind(sq[i].ref) <= Len(sq) + 1 - i + (Len(tx_batch) + 1)
  BY <1>5, <1>6 DEF TxInv, CtrlBehind
<1>4. CtrlBehind'
  <2>1. SUFFICES ASSUME NEW i \in 1..Len(tx_batch'), tx_batch'[i] # Data
                 PROVE  (Behind(tx_batch[i]) <= Len(tx_batch) + 1 - i)'
    BY <1>1, <1>2, <1>6, <1>7 DEF CtrlBehind, TxInv
  <2>2. i \in 1..Len(tx_batch) /\ tx_batch'[i] = tx_batch[i]
    BY <1>2, <2>1 DEF TxInv, TxTypeOK
  <2>3. Behind(tx_batch[i]) <= Len(tx_batch) + 1 - i /\ tx_batch[i] \in CtrlMsgbufs
        /\ ctrl_head \in Nat
    BY <2>1, <2>2 DEF TxInv, CtrlBehind, TxTypeOK, CtrlMsgbufs
  <2> QED BY <1>1, <1>2, <2>2, <2>3, SendQueueAssumption
          DEF Behind, CtrlMsgbufs, NumCtrlMsgbufs, TxInv, TxTypeOK
<1> QED BY <1>2, <1>3, <1>4 DEF TxInv

LEMMA EnqueueHdr ==
    ASSUME TxInv, enqueue_hdr_tx_burst_st
    PROVE  TxInv'
<1>0. ctrl_head \in CtrlMsgbufs /\ ctrl_head \in Nat
  BY SendQueueAssumption DEF TxInv, TxTypeOK, CtrlMsgbufs, NumCtrlMsgbufs
<1>1. /\ enqueue(ctrl_head) /\ UNCHANGED <<transport, nb_tx, tx_flags, tx_drain, sq, sq_done>>
      /\ ctrl_head' = IF ctrl_head + 1 = NumCtrlMsgbufs THEN 0 ELSE ctrl_head + 1
  BY DEF enqueue_hdr_tx_burst_st, enqueue, next_ctrl_msgbuf
<1>2. /\ tx_batch' \in Seq(CtrlMsgbufs \cup {Data})
      /\ Len(tx_batch') = Len(tx_batch) + 1 /\ Len(tx_batch') <= kPostlist
      /\ tx_flags = <<>>
      /\ tx_pc' \in {"idle", "burst"} /\ TxControl' /\ OneFlag'
      /\ tx_batch'[Len(tx_batch) + 1] = ctrl_head
      /\ \A i \in 1..Len(tx_batch) : tx_batch'[i] = tx_batch[i]
  BY <1>0, <1>1, EnqueueInv
<1>3. ctrl_head' \in CtrlMsgbufs
  BY <1>0, <1>1, SendQueueAssumption DEF CtrlMsgbufs, NumCtrlMsgbufs
<1>4. TxTypeOK'
  BY <1>1, <1>2, <1>3 DEF TxInv, TxTypeOK
<1>6. Len(sq) \in Nat /\ Len(tx_batch) \in Nat
  BY DEF TxInv, TxTypeOK
<1>7. \A i \in 1..Len(sq) : sq[i].ref \in CtrlMsgbufs =>
        Behind(sq[i].ref)' <= Len(sq) + 1 - i + (Len(tx_batch) + 1)
  <2> SUFFICES ASSUME NEW i \in 1..Len(sq), sq[i].ref \in CtrlMsgbufs
               PROVE  Behind(sq[i].ref)' <= Len(sq) + 1 - i + (Len(tx_batch) + 1)
    OBVIOUS
  <2>1. PICK x \in CtrlMsgbufs : x = sq[i].ref
    OBVIOUS
  <2>2. Behind(x) <= Len(sq) + 1 - i + Len(tx_batch)
    BY <2>1 DEF TxInv, CtrlBehind
  <2>3. Behind(x) \in Int /\ Behind(x)' \in Int /\ Behind(x)' <= Behind(x) + 1
    BY <1>0, <1>1, BehindNext
  <2>4. Behind(sq[i].ref)' = Behind(x)'
    BY <1>1, <2>1 DEF Behind
  <2> QED BY <1>6, <2>2, <2>3, <2>4
<1>5. CtrlBehind'
  <2>1. SUFFICES ASSUME NEW i \in 1..Len(tx_batch'), tx_batch'[i] # Data
                 PROVE  (Behind(tx_batch[i]) <= Len(tx_batch) + 1 - i)'
    BY <1>1, <1>2, <1>7 DEF CtrlBehind, TxInv
  <2>2. Len(tx_batch) \in Nat
    BY DEF TxInv, TxTypeOK
  <2>3. CASE i = Len(tx_batch) + 1
    BY <1>0, <1>1, <1>2, <2>2, <2>3, SendQueueAssumption
    DEF Behind, NumCtrlMsgbufs, CtrlMsgbufs
  <2>4. CASE i # Len(tx_batch) + 1
    <3>1. i \in 1..Len(tx_batch) /\ tx_batch'[i] = tx_batch[i]
      BY <1>2, <2>1, <2>2, <2>4
    <3>2. Behind(tx_batch[i]) <= Len(tx_batch) + 1 - i /\ tx_batch[i] \in CtrlMsgbufs
      BY <2>1, <3>1 DEF TxInv, CtrlBehind, TxTypeOK
    <3>3. PICK x \in CtrlMsgbufs : x = tx_batch[i]
      BY <3>2
    <3>4. Behind(x) \in Int
      BY <1>0, <3>3, SendQueueAssumption DEF NumCtrlMsgbufs, Behind, CtrlMsgbufs
    <3>5. Behind(x) < NumCtrlMsgbufs
      BY <1>2, <2>2, <3>1, <3>2, <3>3, <3>4, SendQueueAssumption DEF NumCtrlMsgbufs
    <3>6. (Behind(x))' = Behind(x) + 1
      BY <1>0, <1>1, <3>5, SendQueueAssumption DEF NumCtrlMsgbufs, Behind, CtrlMsgbufs
    <3> QED BY <1>2, <2>2, <3>1, <3>2, <3>3, <3>4, <3>6
  <2> QED BY <2>3, <2>4
<1> QED BY <1>2, <1>4, <1>5 DEF TxInv

\* Steps that only move the dispatch thread.
LEMMA TxMoves ==
    ASSUME TxInv, do_tx_burst_st \/ drain_tx_batch_and_dma_queue \/ tx_flush_empty
    PROVE  TxInv'
<1>1. /\ UNCHANGED <<transport, tx_batch, ctrl_head, nb_tx, tx_flags, sq, sq_done>>
      /\ tx_drain' \in BOOLEAN
      /\ tx_pc \in {"idle", "flush"} /\ tx_pc' \in {"idle", "burst", "flush"}
      /\ tx_pc' = "flush" => tx_batch = <<>>
      /\ tx_pc' = "idle" => tx_pc = "flush"
  BY DEF do_tx_burst_st, drain_tx_batch_and_dma_queue, tx_flush_empty, tx_flush_return,
         TxInv, TxTypeOK
<1>2. TxTypeOK'
  BY <1>1 DEF TxInv, TxTypeOK
<1>3. TxControl'
  <2>1. tx_flags = <<>> /\ (tx_pc = "flush" => Len(tx_batch) = 0)
    BY <1>1 DEF TxInv, TxControl
  <2> QED BY <1>1, <2>1, SendQueueAssumption DEF TxControl
<1>4. OneFlag'
  BY <1>1 DEF TxInv, OneFlag, Known, Age, Flag
<1>5. CtrlBehind'
  BY <1>1 DEF TxInv, CtrlBehind, Behind
<1> QED BY <1>2, <1>3, <1>4, <1>5 DEF TxInv

LEMMA NicSend ==
    ASSUME TxInv, nic_send
    PROVE  TxInv'
<1>1. /\ UNCHANGED <<transport, tx_batch, ctrl_head, nb_tx, tx_pc, tx_flags, tx_drain, sq>>
      /\ sq_done < Len(sq) /\ sq_done' = sq_done + 1
  BY DEF nic_send
<1>2. TxTypeOK'
  BY <1>1 DEF TxInv, TxTypeOK
<1>4. TxControl' /\ OneFlag' /\ CtrlBehind'
  BY <1>1 DEF TxInv, TxControl, OneFlag, Known, Age, Flag, CtrlBehind, Behind
<1> QED BY <1>2, <1>4 DEF TxInv

\* What is left of the queue when the poll reclaimed its first p entries.
LEMMA Reclaimed ==
    ASSUME sq \in Seq(Wqe), NEW p \in 1..Len(sq)
    PROVE  /\ SubSeq(sq, p + 1, Len(sq)) \in Seq(Wqe)
           /\ Len(SubSeq(sq, p + 1, Len(sq))) = Len(sq) - p
           /\ \A i \in 1..Len(sq) - p : SubSeq(sq, p + 1, Len(sq))[i] = sq[p + i]
<1>1. PICK q : q = SubSeq(sq, p + 1, Len(sq))
  OBVIOUS
<1>2. q = [i \in 1..Len(sq) - p |-> sq[p + i]]
  BY <1>1
<1>3. q \in Seq(Wqe) /\ Len(q) = Len(sq) - p
  BY <1>2
<1> QED BY <1>1, <1>2, <1>3

\* The loop over the batch adds one known flag.
LEMMA GetFlag ==
    ASSUME TxInv, get_signaled_flag
    PROVE  TxInv'
<1>0. /\ tx_batch \in Seq(CtrlMsgbufs \cup {Data}) /\ Len(tx_batch) <= kPostlist
      /\ tx_flags \in Seq(BOOLEAN) /\ nb_tx \in Nat /\ sq \in Seq(Wqe) /\ sq_done \in 0..Len(sq)
      /\ Len(tx_batch) \in Nat /\ Len(tx_flags) \in Nat /\ Len(sq) \in Nat
  BY DEF TxInv, TxTypeOK
<1>1. /\ tx_pc = "burst" /\ Len(tx_flags) < Len(tx_batch)
      /\ tx_flags' = Append(tx_flags, signaled) /\ nb_tx' = nb_tx + 1
      /\ UNCHANGED <<transport, tx_batch, ctrl_head, tx_pc, tx_drain>>
      /\ must_poll => poll_cq_one_helper
      /\ ~must_poll => UNCHANGED <<sq, sq_done>>
  BY DEF get_signaled_flag
<1>2. signaled \in BOOLEAN
  BY DEF signaled
<1>3. /\ tx_flags' \in Seq(BOOLEAN) /\ Len(tx_flags') = Len(tx_flags) + 1
      /\ tx_flags'[Len(tx_flags) + 1] = signaled
      /\ \A i \in 1..Len(tx_flags) : tx_flags'[i] = tx_flags[i]
  BY <1>0, <1>1, <1>2
<1>4. TxControl'
  BY <1>1 DEF TxControl
<1>5. CASE must_poll
  <2>1. nb_tx # 0 /\ signaled /\ Age = kUnsigBatch /\ Age' = 1
    BY <1>0, <1>1, <1>5, AgeRange, AgeNext DEF must_poll
  <2>2. /\ Sig = Known + 1 - kUnsigBatch /\ Sig \in 1..kUnsigBatch
        /\ \A i \in 1..Known : Flag(i) <=> i = Sig
    BY <1>1, <2>1 DEF TxInv, OneFlag, Sig
  <2>3. PICK p : p = Sig
    OBVIOUS
  <2>4. \A i \in 1..Len(sq) : sq[i].sig <=> i = p
    BY <1>0, <2>2, <2>3 DEF Known, Flag
  <2>5. /\ p \in 1..sq_done /\ p <= Len(sq)
        /\ sq' = SubSeq(sq, p + 1, Len(sq)) /\ sq_done' = sq_done - p
    BY <1>1, <1>5, <2>4, PollOne DEF poll_cq_one_helper, TxInv
  <2>6. /\ sq' \in Seq(Wqe) /\ Len(sq') = Len(sq) - p
        /\ \A i \in 1..Len(sq) - p : sq'[i] = sq[p + i]
    BY <1>0, <2>5, Reclaimed
  <2>7. TxTypeOK'
    BY <1>0, <1>1, <1>3, <2>5, <2>6 DEF TxInv, TxTypeOK
  <2>8. Known' = kUnsigBatch
    BY <1>0, <1>3, <2>2, <2>3, <2>6, SendQueueAssumption DEF Known
  <2>9. ASSUME NEW i \in 1..kUnsigBatch
        PROVE  Flag(i)' <=> i = kUnsigBatch
    <3>1. Known = p - 1 + kUnsigBatch /\ Known = Len(sq) + Len(tx_flags)
          /\ kUnsigBatch = Len(sq) - p + Len(tx_flags) + 1
      BY <1>0, <2>2, <2>3, SendQueueAssumption DEF Known
    <3>2. CASE i <= Len(sq) - p
      <4>1. Flag(i)' = sq[p + i].sig
        BY <2>6, <3>2 DEF Flag
      <4>2. ~sq[p + i].sig
        BY <1>0, <2>4, <2>5, <3>2
      <4>3. i # kUnsigBatch
        BY <1>0, <2>5, <3>1, <3>2
      <4> QED BY <4>1, <4>2, <4>3
    <3>5. PICK L : L = Len(sq)
      OBVIOUS
    <3>6. PICK F : F = Len(tx_flags)
      OBVIOUS
    <3>7. /\ L \in Nat /\ F \in Nat /\ p \in 1..L /\ kUnsigBatch = L - p + F + 1
          /\ Known = L + F /\ Len(sq') = L - p
      BY <1>0, <2>5, <2>6, <3>1, <3>5, <3>6
    <3>3. CASE i > L - p /\ i # kUnsigBatch
      <4>0. PICK j : j = i - (L - p)
        OBVIOUS
      <4>1. j \in 1..F /\ p + i \in 1..L + F /\ ~(p + i <= L) /\ (p + i) - L = j
            /\ ~(i <= L - p)
        BY ONLY <3>3, <3>7, <4>0, i \in 1..kUnsigBatch
      <4>2. Flag(i)' = tx_flags'[j]
        BY <3>7, <4>0, <4>1 DEF Flag
      <4>3. tx_flags'[j] = tx_flags[j]
        BY <1>3, <3>6, <4>1
      <4>4. Flag(p + i) = tx_flags[j]
        BY <3>5, <4>1 DEF Flag
      <4>5. ~Flag(p + i)
        BY <2>2, <2>3, <3>7, <4>1
      <4> QED BY <3>3, <4>2, <4>3, <4>4, <4>5
    <3>4. CASE i = kUnsigBatch
      <4>1. ~(i <= L - p) /\ i - (L - p) = F + 1
        BY ONLY <3>4, <3>7
      <4> QED BY <1>3, <2>1, <3>4, <3>6, <3>7, <4>1 DEF Flag
    <3> QED BY <3>2, <3>3, <3>4, <3>5, <3>7
  <2>10. OneFlag'
    <3>1. nb_tx' # 0 /\ tx_pc' # "flushed"
      BY <1>0, <1>1
    <3>2. Known' + 1 - Age' = kUnsigBatch
      BY <2>1, <2>8, SendQueueAssumption
    <3> QED BY <2>8, <2>9, <3>1, <3>2, SendQueueAssumption DEF OneFlag
  <2>11. CtrlBehind'
    <3>1. transport' = "ib" => \A i \in 1..Len(sq') : sq'[i].ref \in {Data, Inlined}
      BY <1>0, <1>1, <2>5, <2>6 DEF TxInv, CtrlBehind
    <3>2. ASSUME NEW i \in 1..Len(sq'), sq'[i].ref \in CtrlMsgbufs
          PROVE  (Behind(sq[i].ref) <= Len(sq) + 1 - i + Len(tx_batch))'
      <4>0. PICK k \in Nat, m \in Nat : k = Len(sq) /\ m = Len(sq')
        BY <1>0, <2>6
      <4>4. p \in 1..k /\ m = k - p /\ i \in 1..m
        BY <2>5, <2>6, <3>2, <4>0
      <4>5. p + i \in 1..k /\ k + 1 - (p + i) = m + 1 - i /\ i \in 1..k - p
        BY ONLY <4>4, k \in Nat, m \in Nat
      <4>1. p + i \in 1..Len(sq) /\ sq'[i] = sq[p + i]
            /\ Len(sq) + 1 - (p + i) = Len(sq') + 1 - i
        BY <2>6, <4>0, <4>5
      <4>2. Behind(sq[p + i].ref) <= Len(sq) + 1 - (p + i) + Len(tx_batch)
        BY <3>2, <4>1 DEF TxInv, CtrlBehind
      <4>3. Behind(sq[i].ref)' = Behind(sq[p + i].ref)
        BY <1>1, <4>1 DEF Behind
      <4> QED BY <1>1, <4>1, <4>2, <4>3
    <3> QED BY <1>1, <3>1, <3>2 DEF TxInv, CtrlBehind, Behind
  <2> QED BY <1>4, <2>7, <2>10, <2>11 DEF TxInv
<1>6. CASE ~must_poll
  <2>0. UNCHANGED <<sq, sq_done>> /\ Known' = Known + 1 /\ Known \in Nat
    BY <1>0, <1>1, <1>3, <1>6 DEF Known
  <2>1. TxTypeOK'
    BY <1>0, <1>1, <1>3, <2>0 DEF TxInv, TxTypeOK
  <2>2. CtrlBehind'
    BY <1>1, <2>0 DEF TxInv, CtrlBehind, Behind
  <2>3. \A i \in 1..Known : Flag(i)' = Flag(i)
    BY <1>0, <1>3, <2>0 DEF Flag, Known
  <2>8. PICK k : k = Known + 1
    OBVIOUS
  <2>4. Flag(k)' = signaled
    <3>1. PICK L : L = Len(sq)
      OBVIOUS
    <3>2. PICK F : F = Len(tx_flags)
      OBVIOUS
    <3>3. L \in Nat /\ F \in Nat /\ k = L + F + 1
      BY <1>0, <2>8, <3>1, <3>2 DEF Known
    <3>4. ~(k <= L) /\ k - L = F + 1
      BY ONLY <3>3
    <3>5. Flag(k)' = tx_flags'[k - L]
      BY <2>0, <3>1, <3>4 DEF Flag
    <3> QED BY <1>3, <3>2, <3>4, <3>5
  <2>5. nb_tx' # 0 /\ tx_pc' # "flushed"
    BY <1>0, <1>1
  <2>6. CASE nb_tx = 0
    <3>1. signaled /\ Known = 0 /\ Age' = 1
      <4>1. signaled
        BY <2>6, ModUnique, SendQueueAssumption DEF signaled
      <4> QED BY <1>0, <1>1, <2>6, <4>1, AgeNext DEF TxInv, OneFlag
    <3>2. Known' + 1 - Age' = 1 /\ Known' = 1 /\ k = 1
      BY <2>0, <2>8, <3>1
    <3>3. OneFlag'
      <4>0. Flag(1)'
        BY <2>4, <3>1, <3>2, Zenon
      <4>1. \A i \in 1..Known' : Flag(i)' <=> i = 1
        BY <3>2, <4>0
      <4> QED BY <2>5, <3>2, <4>1, SendQueueAssumption DEF OneFlag
    <3> QED BY <1>4, <2>1, <2>2, <3>3 DEF TxInv
  <2>7. CASE nb_tx # 0
    <3>1. ~signaled /\ Age' = Age + 1 /\ Age \in 1..kUnsigBatch
      BY <1>0, <1>1, <1>6, <2>7, AgeNext, AgeRange DEF must_poll
    <3>2. Sig \in 1..kUnsigBatch /\ \A i \in 1..Known : Flag(i) <=> i = Sig
      BY <1>1, <2>7 DEF TxInv, OneFlag, Sig
    <3>3. Known' + 1 - Age' = Sig /\ Sig <= Known
      BY <2>0, <3>1, SendQueueAssumption DEF Sig
    <3>4. ASSUME NEW i \in 1..Known'
          PROVE  Flag(i)' <=> i = Sig
      <4>1. CASE i = Known + 1
        <5>1. i # Sig
          BY <2>0, <3>2, <3>3, <4>1, SendQueueAssumption
        <5> QED BY <2>4, <2>8, <3>1, <4>1, <5>1
      <4>2. CASE i # Known + 1
        BY <2>0, <2>3, <3>2, <4>2
      <4> QED BY <4>1, <4>2
    <3>5. OneFlag'
      BY <2>5, <3>2, <3>3, <3>4 DEF OneFlag
    <3> QED BY <1>4, <2>1, <2>2, <3>5 DEF TxInv
  <2> QED BY <2>6, <2>7
<1> QED BY <1>5, <1>6

\* Posting the batch moves its flags to the queue.
LEMMA PostBatch ==
    ASSUME TxInv, NEW refs \in Seq(CtrlMsgbufs \cup {Data, Inlined, FlushBuf}),
           Len(refs) = Len(tx_batch), post_batch(refs),
           transport = "ib" => \A i \in 1..Len(refs) : refs[i] \in {Data, Inlined},
           \A i \in 1..Len(refs) : refs[i] \in CtrlMsgbufs => refs[i] = tx_batch[i]
    PROVE  TxInv'
<1>0. /\ tx_batch \in Seq(CtrlMsgbufs \cup {Data})
      /\ tx_flags \in Seq(BOOLEAN) /\ nb_tx \in Nat /\ sq \in Seq(Wqe) /\ sq_done \in 0..Len(sq)
  BY DEF TxInv, TxTypeOK
<1>1. PICK w : w = [i \in DOMAIN refs |-> [sig |-> tx_flags[i], ref |-> refs[i]]]
  OBVIOUS
<1>2. /\ tx_pc = "burst" /\ Len(tx_flags) = Len(tx_batch)
      /\ sq' = sq \o w
      /\ tx_batch' = <<>> /\ tx_flags' = <<>>
      /\ tx_pc' = IF tx_drain THEN "flush" ELSE "idle"
      /\ UNCHANGED <<transport, ctrl_head, nb_tx, tx_drain, sq_done>>
  BY <1>1 DEF post_batch
<1>3. PICK L : L = Len(sq)
  OBVIOUS
<1>4. PICK F : F = Len(tx_flags)
  OBVIOUS
<1>5. L \in Nat /\ F \in Nat /\ DOMAIN refs = 1..F
  BY <1>0, <1>2, <1>3, <1>4
<1>6. \A i \in 1..F : w[i].sig = tx_flags[i] /\ w[i].ref = refs[i] /\ w[i] \in Wqe
  <2> SUFFICES ASSUME NEW i \in 1..F
               PROVE  w[i].sig = tx_flags[i] /\ w[i].ref = refs[i] /\ w[i] \in Wqe
    OBVIOUS
  <2>1. PICK f : f = tx_flags[i]
    OBVIOUS
  <2>2. PICK r : r = refs[i]
    OBVIOUS
  <2>3. w[i] = [sig |-> f, ref |-> r]
    BY <1>1, <1>5, <2>1, <2>2
  <2>4. f \in BOOLEAN
    BY <1>0, <1>4, <2>1
  <2>5. r \in CtrlMsgbufs \cup {Data, Inlined, FlushBuf}
    BY <1>5, <2>2
  <2>6. [sig |-> f, ref |-> r] \in Wqe
    BY <2>4, <2>5 DEF Wqe
  <2>7. w[i].sig = f /\ w[i].ref = r
    BY <2>3
  <2> QED BY <2>1, <2>2, <2>3, <2>6, <2>7
<1>7. w \in Seq(Wqe) /\ Len(w) = F
  BY <1>1, <1>5, <1>6
<1>8. sq' \in Seq(Wqe) /\ Len(sq') = L + F
  <2>1. sq \o w \in Seq(Wqe) /\ Len(sq \o w) = Len(sq) + Len(w)
    BY <1>0, <1>7, ConcatProperties
  <2> QED BY <1>2, <1>3, <1>7, <2>1
<1>9. \A i \in 1..L + F : sq'[i] = IF i <= L THEN sq[i] ELSE w[i - L]
  BY <1>0, <1>2, <1>3, <1>7
<1>10. Len(tx_batch') = 0 /\ Len(tx_flags') = 0
       /\ tx_batch' \in Seq(CtrlMsgbufs \cup {Data}) /\ tx_flags' \in Seq(BOOLEAN)
  BY <1>2
<1>11. TxTypeOK'
  <2>1. tx_pc' \in {"idle", "burst", "flush", "flushed"}
    BY <1>2
  <2>2. sq_done' \in 0..Len(sq')
    BY <1>0, <1>2, <1>3, <1>5, <1>8
  <2>3. 0 <= kPostlist
    BY SendQueueAssumption
  <2> QED BY <1>2, <1>8, <1>10, <2>1, <2>2, <2>3 DEF TxInv, TxTypeOK
<1>12. TxControl'
  <2>1. tx_pc' # "flushed" /\ Len(tx_batch') < kPostlist
    BY <1>2, <1>10, SendQueueAssumption
  <2> QED BY <1>2, <2>1 DEF TxControl
<1>13. OneFlag'
  <2>1. Known = L + F /\ Known' = L + F
    BY <1>3, <1>4, <1>5, <1>8, <1>10 DEF Known
  <2>2. ASSUME NEW i \in 1..L + F
        PROVE  Flag(i)' <=> Flag(i)
    <3>1. CASE i <= L
      BY <1>3, <1>8, <1>5, <1>9, <3>1 DEF Flag
    <3>2. CASE ~(i <= L)
      <4>1. PICK j : j = i - L
        OBVIOUS
      <4>2. j \in 1..F /\ i <= L + F
        BY <1>5, <3>2, <4>1
      <4>3. Flag(i)' = sq'[i].sig /\ sq'[i] = w[j]
        BY <1>8, <1>9, <3>2, <4>1, <4>2 DEF Flag
      <4>4. w[j].sig = tx_flags[j]
        BY <1>6, <4>2
      <4>5. Flag(i) = tx_flags[j]
        BY <1>3, <3>2, <4>1 DEF Flag
      <4> QED BY <4>3, <4>4, <4>5
    <3> QED BY <3>1, <3>2
  <2>3. nb_tx' = nb_tx /\ Age' = Age /\ tx_pc # "flushed" /\ tx_pc' # "flushed"
    BY <1>2 DEF Age
  <2> QED BY <2>1, <2>2, <2>3 DEF TxInv, OneFlag
<1>14. CtrlBehind'
  <2>1. ASSUME transport = "ib", NEW i \in 1..L + F
        PROVE  sq'[i].ref \in {Data, Inlined}
    <3>1. CASE i <= L
      BY <1>3, <1>5, <1>9, <2>1, <3>1 DEF TxInv, CtrlBehind
    <3>2. CASE ~(i <= L)
      <4>1. PICK j : j = i - L
        OBVIOUS
      <4>2. j \in 1..F
        BY <1>5, <3>2, <4>1
      <4>3. sq'[i] = w[j] /\ w[j].ref = refs[j]
        BY <1>6, <1>9, <3>2, <4>1, <4>2
      <4> QED BY <1>2, <1>4, <2>1, <4>2, <4>3
    <3> QED BY <3>1, <3>2
  <2>2. ASSUME NEW i \in 1..L + F, sq'[i].ref \in CtrlMsgbufs
        PROVE  Behind(sq[i].ref)' <= L + F + 1 - i
    <3>1. CASE i <= L
      <4>1. sq'[i] = sq[i] /\ i \in 1..L
        BY <1>5, <1>9, <3>1
      <4>2. Behind(sq[i].ref) <= L + 1 - i + F
        BY <1>2, <1>3, <1>4, <2>2, <4>1 DEF TxInv, CtrlBehind
      <4>3. Behind(sq[i].ref)' = Behind(sq[i].ref)
        BY <1>2, <4>1 DEF Behind
      <4>4. L + 1 - i + F = L + F + 1 - i
        BY <1>5
      <4> QED BY <4>2, <4>3, <4>4
    <3>2. CASE ~(i <= L)
      <4>1. PICK j : j = i - L
        OBVIOUS
      <4>2. j \in 1..F /\ F + 1 - j = L + F + 1 - i
        BY <1>5, <3>2, <4>1
      <4>3. sq'[i] = w[j] /\ w[j].ref = refs[j]
        BY <1>6, <1>9, <3>2, <4>1, <4>2
      <4>4. refs[j] = tx_batch[j] /\ tx_batch[j] \in CtrlMsgbufs /\ tx_batch[j] # Data
        BY <1>2, <1>4, <2>2, <4>2, <4>3, SendQueueAssumption DEF CtrlMsgbufs, NumCtrlMsgbufs, Data
      <4>5. Behind(tx_batch[j]) <= F + 1 - j
        BY <1>2, <1>4, <4>2, <4>4 DEF TxInv, CtrlBehind
      <4>6. Behind(sq[i].ref)' = Behind(tx_batch[j])
        BY <1>2, <4>3, <4>4 DEF Behind
      <4> QED BY <4>2, <4>5, <4>6
    <3> QED BY <3>1, <3>2
  <2>4. \A i \in 1..L + F : Len(sq') + 1 - i + Len(tx_batch') = L + F + 1 - i
    BY <1>5, <1>8, <1>10
  <2> QED BY <1>2, <1>8, <1>10, <2>1, <2>2, <2>4 DEF CtrlBehind
<1> QED BY <1>11, <1>12, <1>13, <1>14 DEF TxInv

LEMMA Bursts ==
    ASSUME TxInv, ib_tx_burst \/ raw_tx_burst
    PROVE  TxInv'
<1>0. tx_batch \in Seq(CtrlMsgbufs \cup {Data})
  BY DEF TxInv, TxTypeOK
<1>1. CASE ib_tx_burst
  <2>1. PICK refs : refs = [i \in DOMAIN tx_batch |->
                              IF tx_batch[i] # Data /\ ctrl_pkt_size <= kMaxInline
                                THEN Inlined ELSE tx_batch[i]]
    OBVIOUS
  <2>4. transport = "ib" => ctrl_pkt_size <= kMaxInline
    BY DEF ctrl_pkt_size, kMaxInline, kHeadroom
  <2>5. Inlined \notin CtrlMsgbufs
    BY SendQueueAssumption DEF Inlined, CtrlMsgbufs, NumCtrlMsgbufs
  <2>2. /\ refs \in Seq(CtrlMsgbufs \cup {Data, Inlined, FlushBuf})
        /\ Len(refs) = Len(tx_batch)
        /\ transport = "ib" => \A i \in 1..Len(refs) : refs[i] \in {Data, Inlined}
        /\ \A i \in 1..Len(refs) : refs[i] \in CtrlMsgbufs => refs[i] = tx_batch[i]
    BY <1>0, <2>1, <2>4, <2>5
  <2>3. post_batch(refs)
    BY <1>1, <2>1 DEF ib_tx_burst
  <2> QED BY <2>2, <2>3, PostBatch
<1>2. CASE raw_tx_burst
  <2>1. /\ tx_batch \in Seq(CtrlMsgbufs \cup {Data, Inlined, FlushBuf})
        /\ post_batch(tx_batch) /\ transport # "ib"
    BY <1>0, <1>2 DEF raw_tx_burst
  <2> QED BY <2>1, PostBatch
<1> QED BY <1>1, <1>2

\* The flush SEND takes the place of the one that was signalled.
LEMMA FlushPost ==
    ASSUME TxInv, ib_tx_flush \/ raw_tx_flush
    PROVE  TxInv'
<1>0. sq \in Seq(Wqe) /\ nb_tx \in Nat /\ sq_done \in 0..Len(sq) /\ Len(sq) \in Nat
  BY DEF TxInv, TxTypeOK
<1>1. PICK ref \in CtrlMsgbufs \cup {Data, Inlined, FlushBuf} :
        flush_post(ref) /\ (transport = "ib" => ref = Inlined) /\ ref \notin CtrlMsgbufs
  <2>1. Inlined \notin CtrlMsgbufs /\ FlushBuf \notin CtrlMsgbufs
    BY SendQueueAssumption DEF Inlined, FlushBuf, CtrlMsgbufs, NumCtrlMsgbufs
  <2> QED BY <2>1 DEF ib_tx_flush, raw_tx_flush
<1>2. /\ tx_pc = "flush" /\ nb_tx # 0 /\ tx_pc' = "flushed" /\ Completed # {}
      /\ UNCHANGED <<transport, tx_batch, ctrl_head, nb_tx, tx_flags, tx_drain>>
  BY <1>1 DEF flush_post
<1>3. tx_batch = <<>> /\ tx_flags = <<>> /\ Len(tx_flags) = 0 /\ Len(tx_batch) = 0
  BY <1>2 DEF TxInv, TxControl
<1>4. PICK p : p = Sig
  OBVIOUS
<1>5. Known = Len(sq)
  BY <1>0, <1>3 DEF Known
<1>6. /\ p = Len(sq) + 1 - Age /\ p \in 1..kUnsigBatch /\ Age \in 1..kUnsigBatch
      /\ \A i \in 1..Len(sq) : Flag(i) <=> i = p
  BY <1>0, <1>2, <1>4, <1>5, AgeRange DEF TxInv, OneFlag, Sig
<1>7. \A i \in 1..Len(sq) : sq[i].sig <=> i = p
  BY <1>6 DEF Flag
<1>8. PICK q : q = SubSeq(sq, p + 1, Len(sq))
  OBVIOUS
<1>9. /\ p \in 1..sq_done /\ p <= Len(sq)
      /\ sq' = Append(q, [sig |-> TRUE, ref |-> ref]) /\ sq_done' = sq_done - p
  BY <1>1, <1>2, <1>7, <1>8, PollOne DEF flush_post, TxInv
<1>10. /\ q \in Seq(Wqe) /\ Len(q) = Len(sq) - p
       /\ \A i \in 1..Len(sq) - p : q[i] = sq[p + i]
  BY SMTT(60), <1>0, <1>8, <1>9, Reclaimed
<1>11. [sig |-> TRUE, ref |-> ref] \in Wqe
  BY DEF Wqe
<1>12. PICK x : x = [sig |-> TRUE, ref |-> ref]
  OBVIOUS
<1>13. /\ sq' \in Seq(Wqe) /\ Len(sq') = Len(sq) - p + 1
       /\ sq'[Len(sq) - p + 1] = x
       /\ \A i \in 1..Len(sq) - p : sq'[i] = sq[p + i]
  <2>1. PICK m \in Nat : m = Len(q)
    BY <1>10
  <2>2. x \in Wqe /\ sq' = Append(q, x)
    BY <1>9, <1>11, <1>12
  <2>3. /\ sq' \in Seq(Wqe) /\ Len(sq') = m + 1 /\ sq'[m + 1] = x
        /\ \A i \in 1..m : sq'[i] = q[i]
    BY <1>10, <2>1, <2>2
  <2> QED BY <1>10, <2>1, <2>3
<1>14. TxTypeOK'
  <2>1. sq_done' \in 0..Len(sq')
    BY <1>0, <1>9, <1>13
  <2> QED BY <1>2, <1>13, <2>1 DEF TxInv, TxTypeOK
<1>15. TxControl'
  BY <1>2, <1>3 DEF TxControl
<1>16. OneFlag'
  <2>1. Len(sq') \in 1..kUnsigBatch
    BY <1>0, <1>6, <1>9, <1>13, SendQueueAssumption
  <2>2. ASSUME NEW i \in 1..Len(sq')
        PROVE  sq'[i].sig <=> i = Len(sq')
    <3>1. CASE i = Len(sq')
      BY <1>12, <1>13, <3>1
    <3>2. CASE i # Len(sq')
      <4>1. i \in 1..Len(sq) - p /\ p + i \in 1..Len(sq) /\ p + i # p
        BY <1>0, <1>9, <1>13, <3>2
      <4> QED BY <1>7, <1>13, <3>2, <4>1
    <3> QED BY <3>1, <3>2
  <2> QED BY <1>2, <2>1, <2>2 DEF OneFlag
<1>17. CtrlBehind'
  <2>1. ASSUME transport = "ib", NEW i \in 1..Len(sq')
        PROVE  sq'[i].ref \in {Data, Inlined}
    <3>1. CASE i = Len(sq')
      BY <1>1, <1>12, <1>13, <2>1, <3>1
    <3>2. CASE i # Len(sq')
      <4>1. i \in 1..Len(sq) - p /\ p + i \in 1..Len(sq)
        BY <1>0, <1>9, <1>13, <3>2
      <4> QED BY <1>13, <2>1, <4>1 DEF TxInv, CtrlBehind
    <3> QED BY <3>1, <3>2
  <2>2. ASSUME NEW i \in 1..Len(sq'), sq'[i].ref \in CtrlMsgbufs
        PROVE  (Behind(sq[i].ref) <= Len(sq) + 1 - i + Len(tx_batch))'
    <3>0. i # Len(sq')
      BY <1>1, <1>12, <1>13, <2>2
    <3>6. PICK k \in Nat, m \in Nat : k = Len(sq) /\ m = Len(sq')
      BY <1>0, <1>13
    <3>7. p \in 1..k /\ m = k - p + 1 /\ i \in 1..m /\ i # m
      BY <1>0, <1>9, <1>13, <3>0, <3>6
    <3>8. p + i \in 1..k /\ k + 1 - (p + i) <= m + 1 - i /\ i \in 1..k - p
      BY ONLY <3>7, k \in Nat, m \in Nat
    <3>1. p + i \in 1..Len(sq) /\ sq'[i] = sq[p + i]
          /\ Len(sq) + 1 - (p + i) <= Len(sq') + 1 - i
      BY <1>13, <3>6, <3>8
    <3>2. Behind(sq[p + i].ref) <= Len(sq) + 1 - (p + i)
      BY <1>0, <1>3, <2>2, <3>1 DEF TxInv, CtrlBehind
    <3>3. Behind(sq[i].ref)' = Behind(sq[p + i].ref)
      BY <1>2, <3>1 DEF Behind
    <3>4. Behind(sq[p + i].ref) \in Int
      <4>1. PICK z \in CtrlMsgbufs : z = sq[p + i].ref
        BY <2>2, <3>1
      <4>2. Behind(z) \in 1..NumCtrlMsgbufs
        BY <1>2, BehindNext DEF TxInv, TxTypeOK
      <4> QED BY <4>1, <4>2, SendQueueAssumption DEF NumCtrlMsgbufs
    <3>5. Len(sq') \in Nat /\ Len(tx_batch') = 0
      BY <1>2, <1>3, <1>13
    <3> QED BY <1>0, <1>9, <3>1, <3>2, <3>3, <3>4, <3>5
  <2> QED BY <1>2, <1>3, <2>1, <2>2 DEF CtrlBehind
<1> QED BY <1>14, <1>15, <1>16, <1>17 DEF TxInv

\* The CQE of the flush SEND: the queue is empty.
LEMMA FlushWait ==
    ASSUME TxInv, tx_flush_wait
    PROVE  TxInv'
<1>0. sq \in Seq(Wqe) /\ sq_done \in 0..Len(sq) /\ Len(sq) \in Nat
  BY DEF TxInv, TxTypeOK
<1>1. /\ tx_pc = "flushed" /\ poll_cq_one_helper /\ nb_tx' = 0
      /\ tx_pc' = "idle" /\ tx_drain' = FALSE
      /\ UNCHANGED <<transport, tx_batch, ctrl_head, tx_flags>>
  BY DEF tx_flush_wait, tx_flush_return
<1>2. tx_batch = <<>> /\ tx_flags = <<>> /\ Len(tx_flags) = 0 /\ Len(tx_batch) = 0
  BY <1>1 DEF TxInv, TxControl
<1>3. PICK p : p = Len(sq)
  OBVIOUS
<1>4. p \in 1..kUnsigBatch
  BY <1>1, <1>3 DEF TxInv, OneFlag
<1>11. \A i \in 1..Len(sq) : sq[i].sig <=> i = p
  BY <1>1, <1>3 DEF TxInv, OneFlag
<1>5. p <= sq_done /\ sq' = SubSeq(sq, p + 1, Len(sq)) /\ sq_done' = sq_done - p
  <2>1. TxTypeOK /\ Completed # {}
    BY <1>1 DEF poll_cq_one_helper, TxInv
  <2>2. /\ p \in 1..sq_done
        /\ (CHOOSE k \in Completed : \A m \in Completed : k <= m) = p
    BY <1>11, <2>1, PollOne
  <2>3. sq' = SubSeq(sq, p + 1, Len(sq)) /\ sq_done' = sq_done - p
    BY <1>1, <2>2, Zenon DEF poll_cq_one_helper
  <2> QED BY <1>0, <2>2, <2>3
<1>6. sq' \in Seq(Wqe) /\ Len(sq') = 0
  BY <1>0, <1>3, <1>4, <1>5, Reclaimed
<1>7. TxTypeOK'
  <2>1. sq_done' \in 0..Len(sq') /\ nb_tx' \in Nat
    BY <1>0, <1>1, <1>3, <1>5, <1>6
  <2>2. tx_pc' \in {"idle", "burst", "flush", "flushed"} /\ tx_drain' \in BOOLEAN
    BY <1>1
  <2> QED BY <1>1, <1>6, <2>1, <2>2 DEF TxInv, TxTypeOK
<1>8. TxControl'
  BY <1>1, <1>2, SendQueueAssumption DEF TxControl
<1>9. OneFlag'
  BY <1>1, <1>2, <1>6 DEF OneFlag, Known
<1>10. CtrlBehind'
  BY <1>1, <1>2, <1>6 DEF CtrlBehind
<1> QED BY <1>7, <1>8, <1>9, <1>10 DEF TxInv

LEMMA TxStep == TxInv /\ [TxNext]_txvars => TxInv'
<1> SUFFICES ASSUME TxInv, [TxNext]_txvars PROVE TxInv'
  OBVIOUS
<1>1. CASE UNCHANGED txvars
  BY <1>1 DEF txvars, TxInv, TxTypeOK, TxControl, OneFlag, Known, Age, Flag, CtrlBehind, Behind
<1> QED BY <1>1, EnqueuePkt, EnqueueHdr, TxMoves, NicSend, GetFlag, Bursts, FlushPost, FlushWait
        DEF TxNext, TxThread

\* The inductive invariant of the send queue holds.
THEOREM TxInvariance == TxSpec => []TxInv
<1>1. TxInit => TxInv
  BY TxInitInv
<1>2. TxInv /\ [TxNext]_txvars => TxInv'
  BY TxStep
<1> QED BY <1>1, <1>2, PTL DEF TxSpec

\* What the invariant says of the queue itself.
LEMMA QueueBound ==
    ASSUME TxInv
    PROVE  Len(sq) <= 2 * kUnsigBatch /\ (nb_tx = 0 => Len(sq) = 0)
<1>0. Len(sq) \in Nat /\ Len(tx_flags) \in Nat /\ nb_tx \in Nat
  BY DEF TxInv, TxTypeOK
<1>1. CASE nb_tx = 0
  BY <1>0, <1>1, SendQueueAssumption DEF TxInv, OneFlag, Known
<1>2. CASE tx_pc = "flushed"
  BY <1>0, <1>2, SendQueueAssumption DEF TxInv, OneFlag, TxControl
<1>3. CASE nb_tx # 0 /\ tx_pc # "flushed"
  <2>1. Known + 1 - Age \in 1..kUnsigBatch /\ Age \in 1..kUnsigBatch
    BY <1>0, <1>3, AgeRange DEF TxInv, OneFlag
  <2>2. Known = Len(sq) + Len(tx_flags)
    BY DEF Known
  <2> QED BY <1>0, <1>3, <2>1, <2>2, SendQueueAssumption
<1> QED BY <1>1, <1>2, <1>3

LEMMA QueueIdle ==
    ASSUME TxInv, tx_pc = "idle", Len(tx_flags) = 0
    PROVE  Len(sq) < 2 * kUnsigBatch
<1>0. Len(sq) \in Nat /\ nb_tx \in Nat
  BY DEF TxInv, TxTypeOK
<1>1. CASE nb_tx = 0
  BY <1>0, <1>1, QueueBound, SendQueueAssumption
<1>2. CASE nb_tx # 0
  <2>1. Known + 1 - Age \in 1..kUnsigBatch /\ Age \in 1..kUnsigBatch
    BY <1>0, <1>2, AgeRange DEF TxInv, OneFlag
  <2>2. Known = Len(sq)
    BY <1>0 DEF Known
  <2> QED BY <1>0, <2>1, <2>2, SendQueueAssumption
<1> QED BY <1>1, <1>2

LEMMA OneSignaledFollows == TxInv => OneSignaled
<1> SUFFICES ASSUME TxInv PROVE OneSignaled
  OBVIOUS
<1>0. /\ Len(sq) \in Nat /\ Len(tx_flags) \in Nat /\ nb_tx \in Nat /\ Len(tx_batch) \in Nat
      /\ Len(tx_batch) <= kPostlist
  BY DEF TxInv, TxTypeOK
<1>1. CASE tx_pc = "flushed"
  <2>1. Len(sq) \in 1..kUnsigBatch /\ \A i \in 1..Len(sq) : sq[i].sig <=> i = Len(sq)
    BY <1>1 DEF TxInv, OneFlag
  <2>2. Signalled = {Len(sq)}
    BY <2>1, <1>0 DEF Signalled
  <2> QED BY <2>2 DEF OneSignaled
<1>2. CASE tx_pc # "flushed" /\ nb_tx = 0
  <2>1. Len(sq) = 0
    BY <1>2, QueueBound
  <2>2. ~Polling
    BY <1>2 DEF Polling, must_poll
  <2> QED BY <2>1, <2>2 DEF OneSignaled, Signalled
<1>3. CASE tx_pc # "flushed" /\ nb_tx # 0
  <2>1. PICK p : p = Known + 1 - Age
    OBVIOUS
  <2>2. p \in 1..kUnsigBatch /\ Age \in 1..kUnsigBatch /\ Known = Len(sq) + Len(tx_flags)
        /\ (signaled => Age = kUnsigBatch)
    BY <1>0, <1>3, <2>1, AgeRange DEF TxInv, OneFlag, Known
  <2>3. \A i \in 1..Known : Flag(i) <=> i = p
    BY <1>3, <2>1 DEF TxInv, OneFlag
  <2>4. \A i \in 1..Len(sq) : sq[i].sig <=> i = p
    BY <1>0, <2>2, <2>3 DEF Flag
  <2>5. \A i \in Signalled : i = p
    BY <2>4 DEF Signalled
  <2>6. ASSUME Polling
        PROVE  p \in Signalled
    <3>1. p <= Len(sq)
      <4>1. CASE tx_pc = "flush"
        <5>1. Len(tx_flags) = 0
          BY <4>1 DEF TxInv, TxControl
        <5> QED BY <1>0, <2>1, <2>2, <5>1, SendQueueAssumption
      <4>2. CASE tx_pc # "flush"
        <5>1. Len(tx_flags) < Len(tx_batch) /\ signaled
          BY <1>3, <2>6, <4>2 DEF Polling, must_poll
        <5> QED BY <1>0, <2>1, <2>2, <5>1, SendQueueAssumption
      <4> QED BY <4>1, <4>2
    <3>2. p \in 1..Len(sq) /\ sq[p].sig
      BY <1>0, <2>2, <2>4, <3>1
    <3> QED BY <3>2 DEF Signalled
  <2> QED BY <2>5, <2>6 DEF OneSignaled
<1> QED BY <1>1, <1>2, <1>3

\* Selective signalling works for every kUnsigBatch, kPostlist <= kUnsigBatch and
\* number of packets: whenever tx_burst or tx_flush waits for a CQE, exactly one
\* signalled SEND is in the send queue (get_signaled_flag, tx_flush).
THEOREM OneSignaledHolds == TxSpec => []OneSignaled
<1>1. TxInv => OneSignaled
  BY OneSignaledFollows
<1> QED BY <1>1, TxInvariance, PTL

\* The control MsgBuffer written next is 2 * kUnsigBatch buffers behind the oldest
\* of the batch, and of the queue if the batch is empty.
LEMMA CtrlFollows ==
    ASSUME TxInv, transport = "ib" \/ tx_batch = <<>>
    PROVE  CtrlIntact
<1> SUFFICES ASSUME tx_pc = "idle",
                    NEW r \in {tx_batch[i] : i \in 1 .. Len(tx_batch)}
                                \cup {sq[i].ref : i \in sq_done + 1 .. Len(sq)},
                    r = ctrl_head
             PROVE  FALSE
  BY DEF CtrlIntact
<1>0. /\ ctrl_head \in CtrlMsgbufs /\ tx_batch \in Seq(CtrlMsgbufs \cup {Data})
      /\ Len(tx_batch) \in Nat /\ Len(tx_batch) <= kPostlist
      /\ sq_done \in Nat /\ Len(sq) \in Nat
  BY DEF TxInv, TxTypeOK
<1>1. r \in Nat /\ Behind(r) = 2 * kUnsigBatch
  BY <1>0, SendQueueAssumption DEF CtrlMsgbufs, NumCtrlMsgbufs, Behind
<1>2. ASSUME NEW i \in 1..Len(tx_batch), r = tx_batch[i]
      PROVE  FALSE
  <2>1. Behind(r) <= Len(tx_batch) + 1 - i
    BY <1>1, <1>2 DEF TxInv, CtrlBehind, Data
  <2> QED BY <1>0, <1>1, <2>1, SendQueueAssumption
<1>3. ASSUME NEW i \in sq_done + 1..Len(sq), r = sq[i].ref
      PROVE  FALSE
  <2>1. i \in 1..Len(sq)
    BY <1>0
  <2>2. CASE transport = "ib"
    <3>1. sq[i].ref \in {-1, -2}
      BY <2>1, <2>2 DEF TxInv, CtrlBehind, Data, Inlined
    <3> QED BY <1>1, <1>3, <3>1
  <2>3. CASE tx_batch = <<>>
    <3>1. Len(tx_batch) = 0 /\ Len(tx_flags) = 0
      BY <2>3 DEF TxInv, TxControl
    <3>2. Behind(sq[i].ref) <= Len(sq) + 1 - i
      BY <1>0, <1>3, <2>1, <3>1 DEF TxInv, CtrlBehind
    <3>3. Len(sq) < 2 * kUnsigBatch
      BY <3>1, QueueIdle
    <3> QED BY <1>0, <1>1, <1>3, <2>1, <3>2, <3>3, SendQueueAssumption
  <2> QED BY <2>2, <2>3
<1> QED BY <1>2, <1>3

\* What the Rpc takes for granted of the NIC's references: none is left after a
\* flush; none is to the next control MsgBuffer on InfiniBand, which inlines
\* control packets, and elsewhere while the batch is empty; and the send queue
\* never overflows (kSQDepth >= 2 * kUnsigBatch, tx_burst, tx_flush).
THEOREM TxReferencesHold == TxSpec => []TxReferences
<1>1. ASSUME TxInv
      PROVE  TxReferences
  <2>1. sq \in Seq(Wqe) /\ Len(sq) \in Nat
    BY <1>1 DEF TxInv, TxTypeOK
  <2>2. nb_tx = 0 => sq = <<>>
    BY <1>1, <2>1, QueueBound
  <2>3. Len(sq) <= kSQDepth
    BY <1>1, <2>1, QueueBound, SendQueueAssumption
  <2>4. transport = "ib" \/ tx_batch = <<>> => CtrlIntact
    BY <1>1, CtrlFollows
  <2> QED BY <2>2, <2>3, <2>4 DEF TxReferences
<1> QED BY <1>1, TxInvariance, PTL

-------------------------------------------------------------------------------
(***************************************************************************)
(* The RX ring of IBTransport.                                             *)
(***************************************************************************)
LEMMA ModPeriod ==
    ASSUME NEW d \in Nat \ {0}, NEW m \in 0..d - 1
    PROVE  (m + d) % d = m /\ m % d = m
<1>1. m + d = d * 1 + m /\ m + d \in Nat /\ 1 \in Int /\ m = d * 0 + m /\ m \in Nat /\ 0 \in Int
  OBVIOUS
<1>2. (m + d) % d = m
  BY ONLY <1>1, ModUnique, d \in Nat \ {0}, m \in 0..d - 1
<1>3. m % d = m
  BY ONLY <1>1, ModUnique, d \in Nat \ {0}, m \in 0..d - 1
<1> QED BY <1>2, <1>3

\* Numbers less than d apart have different remainders.
LEMMA ModInjective ==
    ASSUME NEW d \in Nat \ {0}, NEW a \in Nat, NEW b \in Nat, a < b, b < a + d
    PROVE  a % d # b % d
<1> SUFFICES ASSUME a % d = b % d PROVE FALSE
  OBVIOUS
<1>1. PICK q : q = a \div d
  OBVIOUS
<1>2. PICK m : m = a % d
  OBVIOUS
<1>3. PICK p : p = b \div d
  OBVIOUS
<1>4. q \in Nat /\ p \in Nat /\ m \in 0..d - 1 /\ a = d * q + m /\ b = d * p + m
  BY <1>1, <1>2, <1>3, ModBasic
<1>5. d * q < d * p /\ d * p < d * q + d
  BY <1>4
<1>6. CASE p <= q
  <2>1. d * p <= d * q
    BY <1>4, <1>6
  <2> QED BY <1>4, <1>5, <2>1
<1>7. CASE p >= q + 1
  <2>1. d * p >= d * (q + 1) /\ d * (q + 1) = d * q + d
    BY <1>4, <1>7
  <2> QED BY <1>4, <1>5, <2>1
<1> QED BY <1>4, <1>6, <1>7

\* Consecutive slots of the ring.
LEMMA SlotsType ==
    ASSUME NEW h \in Nat, NEW n \in Nat
    PROVE  /\ SlotsFrom(h, n) \in Seq(Slots) /\ Len(SlotsFrom(h, n)) = n
           /\ DOMAIN SlotsFrom(h, n) = 1..n
           /\ \A i \in 1..n : SlotsFrom(h, n)[i] = (h + i - 1) % kRQDepth
<1>1. \A i \in 1..n : (h + i - 1) % kRQDepth \in Slots
  BY IBRecvAssumption, ModBasic DEF Slots
<1> QED BY <1>1 DEF SlotsFrom

LEMMA SlotsJoin ==
    ASSUME NEW h \in Nat, NEW n \in Nat, NEW k \in Nat
    PROVE  SlotsFrom(h, n) \o SlotsFrom((h + n) % kRQDepth, k) = SlotsFrom(h, n + k)
<1>1. PICK g : g = (h + n) % kRQDepth
  OBVIOUS
<1>2. g \in Nat
  BY <1>1, ModBasic, IBRecvAssumption
<1>3. PICK s : s = SlotsFrom(h, n)
  OBVIOUS
<1>4. PICK t : t = SlotsFrom(g, k)
  OBVIOUS
<1>5. PICK u : u = SlotsFrom(h, n + k)
  OBVIOUS
<1>6. s \in Seq(Slots) /\ Len(s) = n /\ \A i \in 1..n : s[i] = (h + i - 1) % kRQDepth
  BY <1>3, SlotsType
<1>7. t \in Seq(Slots) /\ Len(t) = k /\ \A i \in 1..k : t[i] = (g + i - 1) % kRQDepth
  BY <1>2, <1>4, SlotsType
<1>8. u \in Seq(Slots) /\ Len(u) = n + k /\ \A i \in 1..n + k : u[i] = (h + i - 1) % kRQDepth
  <2>1. n + k \in Nat
    OBVIOUS
  <2> QED BY <1>5, <2>1, SlotsType
<1>9. /\ s \o t \in Seq(Slots) /\ Len(s \o t) = n + k
      /\ \A i \in 1..n + k : (s \o t)[i] = IF i <= n THEN s[i] ELSE t[i - n]
  BY <1>6, <1>7, ConcatProperties
<1>10. ASSUME NEW i \in 1..n + k
       PROVE  (s \o t)[i] = u[i]
  <2>1. CASE i <= n
    BY <1>6, <1>8, <1>9, <2>1
  <2>2. CASE ~(i <= n)
    <3>1. PICK j : j = i - n
      OBVIOUS
    <3>2. j \in 1..k /\ j - 1 \in Nat /\ h + n \in Nat /\ (h + n) + (j - 1) = h + i - 1
      BY <2>2, <3>1
    <3>3. (g + (j - 1)) % kRQDepth = (h + i - 1) % kRQDepth
      <4>1. PICK x : x = h + n
        OBVIOUS
      <4>2. PICK y : y = j - 1
        OBVIOUS
      <4>3. x \in Nat /\ y \in Nat /\ x + y = h + i - 1
        BY <3>2, <4>1, <4>2
      <4>4. ((x % kRQDepth) + y) % kRQDepth = (x + y) % kRQDepth
        BY <4>3, ModAdd, IBRecvAssumption
      <4> QED BY <1>1, <4>1, <4>2, <4>3, <4>4
    <3>4. g + (j - 1) = g + j - 1
      BY <1>2, <3>2
    <3> QED BY <1>7, <1>8, <1>9, <2>2, <3>1, <3>2, <3>3, <3>4
  <2> QED BY <2>1, <2>2
<1>11. s \o t = u
  BY SMTT(60), <1>8, <1>9, <1>10
<1> QED BY <1>1, <1>3, <1>4, <1>5, <1>11

LEMMA SlotsTail ==
    ASSUME NEW h \in Nat, NEW n \in Nat \ {0}
    PROVE  Tail(SlotsFrom(h, n)) = SlotsFrom((h + 1) % kRQDepth, n - 1)
<1>1. PICK g : g = (h + 1) % kRQDepth
  OBVIOUS
<1>2. g \in Nat
  BY <1>1, ModBasic, IBRecvAssumption
<1>3. PICK s : s = SlotsFrom(h, n)
  OBVIOUS
<1>4. PICK t : t = SlotsFrom(g, n - 1)
  OBVIOUS
<1>5. s \in Seq(Slots) /\ Len(s) = n /\ \A i \in 1..n : s[i] = (h + i - 1) % kRQDepth
  BY <1>3, SlotsType
<1>6. t \in Seq(Slots) /\ Len(t) = n - 1 /\ \A i \in 1..n - 1 : t[i] = (g + i - 1) % kRQDepth
  <2>1. n - 1 \in Nat
    OBVIOUS
  <2> QED BY <1>2, <1>4, <2>1, SlotsType
<1>7. Tail(s) \in Seq(Slots) /\ Len(Tail(s)) = n - 1 /\ \A i \in 1..n - 1 : Tail(s)[i] = s[i + 1]
  BY <1>5
<1>8. ASSUME NEW i \in 1..n - 1
      PROVE  Tail(s)[i] = t[i]
  <2>1. i - 1 \in Nat /\ (h + 1) + (i - 1) = h + (i + 1) - 1 /\ g + i - 1 = g + (i - 1)
        /\ i + 1 \in 1..n /\ h + 1 \in Nat
    BY <1>2
  <2>2. (g + (i - 1)) % kRQDepth = (h + (i + 1) - 1) % kRQDepth
    <3>1. PICK x : x = h + 1
      OBVIOUS
    <3>2. PICK y : y = i - 1
      OBVIOUS
    <3>3. x \in Nat /\ y \in Nat /\ x + y = h + (i + 1) - 1
      BY <2>1, <3>1, <3>2
    <3>4. ((x % kRQDepth) + y) % kRQDepth = (x + y) % kRQDepth
      BY <3>3, ModAdd, IBRecvAssumption
    <3> QED BY <1>1, <3>1, <3>2, <3>3, <3>4
  <2> QED BY <1>5, <1>6, <1>7, <2>1, <2>2
<1>9. Tail(s) = t
  BY <1>6, <1>7, <1>8
<1> QED BY <1>1, <1>3, <1>4, <1>9

\* A window of at most kRQDepth slots meets no slot twice.
LEMMA SlotsDistinct ==
    ASSUME NEW h \in Nat, NEW n \in Nat, n <= kRQDepth,
           NEW i \in 1..n, NEW j \in 1..n, i # j
    PROVE  SlotsFrom(h, n)[i] # SlotsFrom(h, n)[j]
<1>1. SlotsFrom(h, n)[i] = (h + i - 1) % kRQDepth /\ SlotsFrom(h, n)[j] = (h + j - 1) % kRQDepth
  BY SlotsType
<1>2. h + i - 1 \in Nat /\ h + j - 1 \in Nat
  OBVIOUS
<1>3. CASE i < j
  <2>1. h + i - 1 < h + j - 1 /\ h + j - 1 < (h + i - 1) + kRQDepth
    BY <1>3, IBRecvAssumption
  <2> QED BY <1>1, <1>2, <2>1, ModInjective, IBRecvAssumption
<1>4. CASE j < i
  <2>1. h + j - 1 < h + i - 1 /\ h + i - 1 < (h + j - 1) + kRQDepth
    BY <1>4, IBRecvAssumption
  <2> QED BY <1>1, <1>2, <2>1, ModInjective, IBRecvAssumption
<1> QED BY <1>3, <1>4

\* Sequences cut and joined.
LEMMA MoveHead ==
    ASSUME NEW S, NEW a \in Seq(S), NEW b \in Seq(S), b # <<>>
    PROVE  Append(a, Head(b)) \o Tail(b) = a \o b
  OBVIOUS

LEMMA CutJoin ==
    ASSUME NEW S, NEW a \in Seq(S), NEW n \in 0..Len(a)
    PROVE  /\ SubSeq(a, 1, n) \o SubSeq(a, n + 1, Len(a)) = a
           /\ SubSeq(a, 1, n) \in Seq(S) /\ SubSeq(a, n + 1, Len(a)) \in Seq(S)
           /\ Len(SubSeq(a, 1, n)) = n /\ Len(SubSeq(a, n + 1, Len(a))) = Len(a) - n
<1>1. PICK l : l = SubSeq(a, 1, n)
  OBVIOUS
<1>2. PICK r : r = SubSeq(a, n + 1, Len(a))
  OBVIOUS
<1>3. l = [i \in 1..n |-> a[i]]
  BY <1>1
<1>4. r = [i \in 1..Len(a) - n |-> a[n + i]]
  BY <1>2
<1>5. l \in Seq(S) /\ Len(l) = n /\ \A i \in 1..n : l[i] = a[i]
  BY <1>3
<1>6. r \in Seq(S) /\ Len(r) = Len(a) - n /\ \A i \in 1..Len(a) - n : r[i] = a[n + i]
  BY <1>4
<1>7. /\ l \o r \in Seq(S) /\ Len(l \o r) = Len(a)
      /\ \A i \in 1..Len(a) : (l \o r)[i] = IF i <= n THEN l[i] ELSE r[i - n]
  <2>1. Len(l) + Len(r) = Len(a)
    BY <1>5, <1>6
  <2>2. /\ l \o r \in Seq(S) /\ Len(l \o r) = Len(l) + Len(r)
        /\ \A i \in 1..Len(l) + Len(r) : (l \o r)[i] = IF i <= Len(l) THEN l[i] ELSE r[i - Len(l)]
    BY <1>5, <1>6, ConcatProperties
  <2> QED BY <1>5, <2>1, <2>2
<1>8. ASSUME NEW i \in 1..Len(a)
      PROVE  (l \o r)[i] = a[i]
  <2>1. CASE i <= n
    BY <1>5, <1>7, <2>1
  <2>2. CASE ~(i <= n)
    <3>1. i - n \in 1..Len(a) - n /\ n + (i - n) = i
      BY <2>2
    <3> QED BY <1>6, <1>7, <2>2, <3>1
  <2> QED BY <2>1, <2>2
<1>9. l \o r = a
  <2>1. Len(l \o r) = Len(a) /\ \A i \in 1..Len(l \o r) : (l \o r)[i] = a[i]
    BY <1>7, <1>8
  <2> QED BY <1>7, <2>1, SeqEqual
<1> QED BY <1>1, <1>2, <1>5, <1>6, <1>9

LEMMA TailJoin ==
    ASSUME NEW S, NEW a \in Seq(S), NEW b \in Seq(S), a # <<>>
    PROVE  Tail(a) \o b = Tail(a \o b)
  OBVIOUS

\* The buffers from the one the Rpc reads next to the one posted last.
Ring == recv_wc \o recv_cq \o rq

\* The inductive invariant: the ring is one window of consecutive slots, and both
\* indices from which RECVs are posted are at its end.
IBInv ==
    /\ IBRxTypeOK
    /\ Len(recv_wc) <= num_pkts
    /\ Ring = SlotsFrom(rx_ring_head, Len(Ring))
    /\ Len(Ring) + Read + recvs_to_post = kRQDepth
    /\ wqe_head = (rx_ring_head + Len(Ring)) % kRQDepth
    /\ ~use_fast_recv => recv_head = wqe_head

LEMMA RingType ==
    ASSUME IBRxTypeOK
    PROVE  /\ Ring \in Seq(Slots) /\ Len(Ring) \in Nat
           /\ Len(recv_wc) \in Nat /\ Len(recv_cq) \in Nat /\ Len(rq) \in Nat
           /\ Len(Ring) = Len(recv_wc) + Len(recv_cq) + Len(rq)
           /\ Read \in Int /\ num_pkts \in Nat /\ recvs_to_post \in Nat
           /\ rx_ring_head \in Nat /\ recv_head \in Nat /\ wqe_head \in Nat
<1>1. recv_wc \in Seq(Slots) /\ recv_cq \in Seq(Slots) /\ rq \in Seq(Slots)
  BY DEF IBRxTypeOK
<1>2. recv_wc \o recv_cq \in Seq(Slots) /\ Len(recv_wc \o recv_cq) = Len(recv_wc) + Len(recv_cq)
  BY <1>1, ConcatProperties
<1>3. Ring \in Seq(Slots) /\ Len(Ring) = Len(recv_wc \o recv_cq) + Len(rq)
  BY <1>1, <1>2, ConcatProperties DEF Ring
<1>4. num_pkts \in Nat /\ recvs_to_post \in Nat
      /\ rx_ring_head \in Nat /\ recv_head \in Nat /\ wqe_head \in Nat
  BY IBRecvAssumption DEF IBRxTypeOK, Slots
<1> QED BY <1>1, <1>2, <1>3, <1>4 DEF Read

LEMMA IBRxInitInv == IBRxInit => IBInv
<1> SUFFICES ASSUME IBRxInit PROVE IBInv
  OBVIOUS
<1>0. kRQDepth \in Nat /\ 0 \in Nat /\ 0 \in 0..kRQDepth - 1 /\ 0 + kRQDepth = kRQDepth
  BY IBRecvAssumption
<1>1. rq \in Seq(Slots) /\ Len(rq) = kRQDepth
  BY <1>0, SlotsType DEF IBRxInit
<1>2. Ring = rq
  BY <1>1, ConcatEmptySeq DEF Ring, IBRxInit
<1>3. IBRxTypeOK
  <2>1. recv_wc \in Seq(Slots) /\ recv_cq \in Seq(Slots) /\ use_fast_recv \in BOOLEAN
    BY DEF IBRxInit
  <2>2. 0 \in Slots /\ 0 \in 0..kRxPostlist /\ 0 \in 0..kRecvSlack - 1
    BY IBRecvAssumption DEF Slots
  <2> QED BY <1>1, <2>1, <2>2 DEF IBRxTypeOK, IBRxInit
<1>4. Len(recv_wc) = 0 /\ Read = 0 /\ num_pkts = 0
  <2>1. Len(recv_wc) = 0 /\ num_pkts = 0
    BY DEF IBRxInit
  <2>2. Read = 0 - 0
    BY ONLY <2>1 DEF Read
  <2> QED BY <2>1, <2>2
<1>5. (0 + kRQDepth) % kRQDepth = 0
  BY <1>0, ModPeriod, IBRecvAssumption
<1> QED BY <1>0, <1>1, <1>2, <1>3, <1>4, <1>5 DEF IBInv, IBRxInit

LEMMA NicRecv ==
    ASSUME IBInv, nic_recv
    PROVE  IBInv'
<1>0. recv_wc \in Seq(Slots) /\ recv_cq \in Seq(Slots) /\ rq \in Seq(Slots) /\ rq # <<>>
  BY DEF IBInv, IBRxTypeOK, nic_recv
<1>1. /\ rq' = Tail(rq) /\ recv_cq' = Append(recv_cq, Head(rq))
      /\ UNCHANGED <<use_fast_recv, recv_wc, num_pkts, rx_ring_head, recv_head,
                     recvs_to_post, wqe_head>>
  BY DEF nic_recv
<1>2. rq' \in Seq(Slots) /\ recv_cq' \in Seq(Slots)
  BY <1>0, <1>1
<1>3. recv_cq' \o rq' = recv_cq \o rq
  BY <1>0, <1>1, MoveHead
<1>4. Ring' = Ring
  <2>1. (recv_wc \o recv_cq) \o rq = recv_wc \o (recv_cq \o rq)
    BY <1>0, ConcatAssociative
  <2>2. (recv_wc \o recv_cq') \o rq' = recv_wc \o (recv_cq' \o rq')
    BY SMTT(60), <1>0, <1>2, ConcatAssociative
  <2> QED BY <1>1, <1>3, <2>1, <2>2 DEF Ring
<1>5. IBRxTypeOK'
  BY <1>1, <1>2 DEF IBInv, IBRxTypeOK
<1> QED BY <1>1, <1>4, <1>5 DEF IBInv, Read

LEMMA IBRxBurst ==
    ASSUME IBInv, ib_rx_burst
    PROVE  IBInv'
<1>0. /\ recv_wc \in Seq(Slots) /\ recv_cq \in Seq(Slots) /\ rq \in Seq(Slots)
      /\ recv_cq # <<>> /\ Len(recv_cq) \in Nat /\ num_pkts = 0
  BY DEF IBInv, IBRxTypeOK, ib_rx_burst
<1>1. recv_wc = <<>> /\ Len(recv_wc) = 0
  BY <1>0 DEF IBInv
<1>2. PICK n : n = num_pkts'
  OBVIOUS
<1>3. /\ n = IF Len(recv_cq) < kRxPostlist THEN Len(recv_cq) ELSE kRxPostlist
      /\ recv_wc' = SubSeq(recv_cq, 1, n)
      /\ recv_cq' = SubSeq(recv_cq, n + 1, Len(recv_cq))
      /\ UNCHANGED <<use_fast_recv, rq, rx_ring_head, recv_head, recvs_to_post, wqe_head>>
  BY <1>2 DEF ib_rx_burst
<1>4. n \in 0..Len(recv_cq) /\ n \in 0..kRxPostlist
  BY <1>0, <1>3, IBRecvAssumption
<1>5. /\ recv_wc' \o recv_cq' = recv_cq
      /\ recv_wc' \in Seq(Slots) /\ recv_cq' \in Seq(Slots) /\ Len(recv_wc') = n
  BY <1>0, <1>3, <1>4, CutJoin
<1>6. recv_wc \o recv_cq = recv_cq
  BY <1>0, <1>1, ConcatEmptySeq
<1>7. Ring' = Ring
  BY <1>3, <1>5, <1>6 DEF Ring
<1>8. Read' = 0 /\ Read = 0
  <2>1. Read' = n - n /\ Read = 0 - 0
    BY ONLY <1>0, <1>1, <1>2, <1>5 DEF Read
  <2> QED BY <1>4, <2>1
<1>9. IBRxTypeOK'
  BY <1>2, <1>3, <1>4, <1>5 DEF IBInv, IBRxTypeOK
<1>10. Len(recv_wc') <= num_pkts'
  BY <1>2, <1>4, <1>5
<1> QED BY <1>3, <1>7, <1>8, <1>9, <1>10 DEF IBInv

LEMMA ProcessComps ==
    ASSUME IBInv, process_comps_st
    PROVE  IBInv'
<1>0. /\ recv_wc \in Seq(Slots) /\ recv_cq \in Seq(Slots) /\ rq \in Seq(Slots)
      /\ recv_wc # <<>>
  BY DEF IBInv, IBRxTypeOK, process_comps_st
<1>1. /\ recv_wc' = Tail(recv_wc) /\ rx_ring_head' = (rx_ring_head + 1) % kRQDepth
      /\ UNCHANGED <<use_fast_recv, rq, recv_cq, num_pkts, recv_head,
                     recvs_to_post, wqe_head>>
  BY DEF process_comps_st
<1>2. recv_wc' \in Seq(Slots) /\ Len(recv_wc') = Len(recv_wc) - 1 /\ Len(recv_wc) \in Nat \ {0}
  BY <1>0, <1>1
<1>3. Ring' = Tail(Ring)
  <2>1. Tail(recv_wc) \o recv_cq = Tail(recv_wc \o recv_cq)
    BY <1>0, TailJoin
  <2>2. recv_wc \o recv_cq \in Seq(Slots) /\ recv_wc \o recv_cq # <<>>
    <3>1. recv_wc \o recv_cq \in Seq(Slots)
          /\ Len(recv_wc \o recv_cq) = Len(recv_wc) + Len(recv_cq) /\ Len(recv_cq) \in Nat
      BY <1>0, ConcatProperties
    <3>2. Len(recv_wc \o recv_cq) # 0
      BY <1>2, <3>1
    <3> QED BY <3>1, <3>2
  <2>3. Tail(recv_wc \o recv_cq) \o rq = Tail((recv_wc \o recv_cq) \o rq)
    BY <1>0, <2>2, TailJoin
  <2> QED BY <1>1, <2>1, <2>3 DEF Ring
<1>4. Ring \in Seq(Slots) /\ Len(Ring) \in Nat /\ Len(Ring) >= Len(recv_wc)
      /\ rx_ring_head \in Nat /\ Read \in Int /\ recvs_to_post \in Nat /\ num_pkts \in Nat
  BY <1>2, RingType DEF IBInv
<1>5. PICK N : N = Len(Ring)
  OBVIOUS
<1>6. N \in Nat \ {0} /\ N - 1 \in Nat
  BY <1>2, <1>4, <1>5
<1>7. Len(Ring') = N - 1
  <2>1. Ring # <<>>
    BY <1>5, <1>6
  <2> QED BY <1>3, <1>4, <1>5, <2>1, HeadTailProperties
<1>8. Ring' = SlotsFrom(rx_ring_head', N - 1)
  <2>1. Ring = SlotsFrom(rx_ring_head, N)
    BY <1>5 DEF IBInv
  <2>2. Tail(SlotsFrom(rx_ring_head, N)) = SlotsFrom((rx_ring_head + 1) % kRQDepth, N - 1)
    BY <1>4, <1>6, SlotsTail
  <2> QED BY <1>1, <1>3, <2>1, <2>2
<1>9. Read' = Read + 1
  BY <1>1, <1>2, <1>4 DEF Read
<1>10. wqe_head' = (rx_ring_head' + (N - 1)) % kRQDepth
  <2>1. PICK x : x = rx_ring_head + 1
    OBVIOUS
  <2>2. PICK y : y = N - 1
    OBVIOUS
  <2>3. x \in Nat /\ y \in Nat /\ x + y = rx_ring_head + N
    BY <1>4, <1>6, <2>1, <2>2
  <2>4. ((x % kRQDepth) + y) % kRQDepth = (x + y) % kRQDepth
    BY <2>3, ModAdd, IBRecvAssumption
  <2>5. wqe_head = (rx_ring_head + N) % kRQDepth
    BY <1>5 DEF IBInv
  <2> QED BY <1>1, <2>1, <2>2, <2>3, <2>4, <2>5
<1>11. IBRxTypeOK'
  <2>1. rx_ring_head' \in Slots
    <3>1. rx_ring_head + 1 \in Nat
      BY <1>4
    <3> QED BY <1>1, <3>1, ModBasic, IBRecvAssumption DEF Slots
  <2> QED BY <1>1, <1>2, <2>1 DEF IBInv, IBRxTypeOK
<1>12. Len(recv_wc') <= num_pkts' /\ Len(Ring') + Read' + recvs_to_post' = kRQDepth
  BY <1>1, <1>2, <1>4, <1>5, <1>6, <1>7, <1>9 DEF IBInv
<1> QED BY <1>1, <1>7, <1>8, <1>10, <1>11, <1>12 DEF IBInv

LEMMA PostRecvs ==
    ASSUME IBInv, post_recvs
    PROVE  IBInv'
<1>0. /\ recv_wc \in Seq(Slots) /\ recv_cq \in Seq(Slots) /\ rq \in Seq(Slots)
      /\ recv_wc = <<>> /\ Len(recv_wc) = 0 /\ num_pkts > 0 /\ num_pkts' = 0
      /\ UNCHANGED <<use_fast_recv, recv_cq, recv_wc, rx_ring_head>>
  BY DEF IBInv, IBRxTypeOK, post_recvs
<1>1. PICK n : n = recvs_to_post + num_pkts
  OBVIOUS
<1>2. /\ Ring \in Seq(Slots) /\ Len(Ring) \in Nat /\ n \in Nat \ {0}
      /\ rx_ring_head \in Nat /\ wqe_head \in Nat /\ Read = num_pkts
      /\ num_pkts \in Nat /\ recvs_to_post \in Nat
  BY SMTT(60), <1>0, <1>1, RingType DEF IBInv, Read
<1>3. PICK N : N = Len(Ring)
  OBVIOUS
<1>4. N \in Nat /\ N + n = kRQDepth
  BY <1>1, <1>2, <1>3 DEF IBInv
<1>5. Read' = 0
  <2>1. Read' = 0 - 0
    BY ONLY <1>0 DEF Read
  <2> QED BY <2>1
<1>6. CASE n < kRecvSlack
  <2>1. recvs_to_post' = n /\ UNCHANGED <<rq, wqe_head, recv_head>>
    BY <1>1, <1>6 DEF post_recvs
  <2>2. Ring' = Ring
    BY <1>0, <2>1 DEF Ring
  <2>3. IBRxTypeOK'
    <3>1. n \in 0..kRecvSlack - 1 /\ 0 \in 0..kRxPostlist
      BY <1>2, <1>6, IBRecvAssumption
    <3> QED BY <1>0, <2>1, <3>1 DEF IBInv, IBRxTypeOK
  <2>4. Len(Ring') + Read' + recvs_to_post' = kRQDepth /\ Len(recv_wc') <= num_pkts'
    BY <1>0, <1>2, <1>3, <1>4, <1>5, <2>1, <2>2
  <2> QED BY <1>0, <2>1, <2>2, <2>3, <2>4 DEF IBInv
<1>7. CASE ~(n < kRecvSlack)
  <2>1. /\ rq' = rq \o posted_bufs(n)
        /\ wqe_head' = (wqe_head + n) % kRQDepth
        /\ recv_head' = IF use_fast_recv THEN recv_head ELSE (recv_head + n) % kRQDepth
        /\ recvs_to_post' = 0
    BY <1>1, <1>7 DEF post_recvs
  <2>2. posted_bufs(n) = SlotsFrom(wqe_head, n)
    BY DEF posted_bufs, IBInv
  <2>3. PICK b : b = SlotsFrom(wqe_head, n)
    OBVIOUS
  <2>4. b \in Seq(Slots) /\ Len(b) = n
    BY <1>2, <2>3, SlotsType
  <2>5. rq' \in Seq(Slots) /\ rq' = rq \o b
    BY <1>0, <2>1, <2>2, <2>3, <2>4, ConcatProperties
  <2>6. Ring' = Ring \o b
    <3>1. recv_wc \o recv_cq \in Seq(Slots)
      BY <1>0, ConcatProperties
    <3>2. ((recv_wc \o recv_cq) \o rq) \o b = (recv_wc \o recv_cq) \o (rq \o b)
      BY <1>0, <2>4, <3>1, ConcatAssociative
    <3> QED BY <1>0, <2>5, <3>2 DEF Ring
  <2>7. Ring' = SlotsFrom(rx_ring_head, kRQDepth)
    <3>1. Ring = SlotsFrom(rx_ring_head, N) /\ wqe_head = (rx_ring_head + N) % kRQDepth
      BY <1>3 DEF IBInv
    <3>2. SlotsFrom(rx_ring_head, N) \o SlotsFrom((rx_ring_head + N) % kRQDepth, n)
            = SlotsFrom(rx_ring_head, N + n)
      BY ZenonT(60), <1>2, <1>4, SlotsJoin
    <3> QED BY <1>4, <2>3, <2>6, <3>1, <3>2
  <2>8. Len(Ring') = kRQDepth
    BY <1>2, <2>7, SlotsType, IBRecvAssumption
  <2>9. wqe_head' = (rx_ring_head + kRQDepth) % kRQDepth
    <3>1. PICK x : x = rx_ring_head + N
      OBVIOUS
    <3>2. x \in Nat /\ n \in Nat /\ x + n = rx_ring_head + kRQDepth
      BY <1>2, <1>4, <3>1
    <3>3. ((x % kRQDepth) + n) % kRQDepth = (x + n) % kRQDepth
      BY <3>2, ModAdd, IBRecvAssumption
    <3>4. wqe_head = x % kRQDepth
      BY <1>3, <3>1 DEF IBInv
    <3> QED BY <2>1, <3>2, <3>3, <3>4
  <2>10. wqe_head' \in Slots /\ (~use_fast_recv => recv_head' = wqe_head')
         /\ recv_head' \in Slots
    <3>1. (wqe_head + n) % kRQDepth \in Slots
      <4>1. wqe_head + n \in Nat
        BY <1>2
      <4> QED BY <4>1, ModBasic, IBRecvAssumption DEF Slots
    <3> QED BY <2>1, <3>1 DEF IBInv, IBRxTypeOK
  <2>11. IBRxTypeOK'
    <3>1. 0 \in 0..kRecvSlack - 1 /\ 0 \in 0..kRxPostlist
      BY IBRecvAssumption
    <3> QED BY <1>0, <2>1, <2>5, <2>10, <3>1 DEF IBInv, IBRxTypeOK
  <2>12. Len(Ring') + Read' + recvs_to_post' = kRQDepth /\ Len(recv_wc') <= num_pkts'
    BY <1>0, <1>5, <2>1, <2>8, IBRecvAssumption
  <2> QED BY <1>0, <2>7, <2>8, <2>9, <2>10, <2>11, <2>12 DEF IBInv
<1> QED BY <1>6, <1>7

\* The inductive invariant of the RX ring holds.
THEOREM IBInvariance == IBRxSpec => []IBInv
<1>1. IBRxInit => IBInv
  BY IBRxInitInv
<1>2. IBInv /\ [IBRxNext]_rxvars => IBInv'
  <2> SUFFICES ASSUME IBInv, [IBRxNext]_rxvars PROVE IBInv'
    OBVIOUS
  <2>1. CASE UNCHANGED rxvars
    BY <2>1 DEF rxvars, IBInv, IBRxTypeOK, Ring, Read
  <2> QED BY <2>1, NicRecv, IBRxBurst, ProcessComps, PostRecvs DEF IBRxNext
<1> QED BY <1>1, <1>2, PTL DEF IBRxSpec

LEMMA RecvsFollow == IBInv => RecvsAccounted
<1> SUFFICES ASSUME IBInv PROVE RecvsAccounted
  OBVIOUS
<1>1. /\ Ring \in Seq(Slots) /\ Len(Ring) \in Nat
      /\ Len(recv_wc) \in Nat /\ Len(recv_cq) \in Nat /\ Len(rq) \in Nat
      /\ Len(Ring) = Len(recv_wc) + Len(recv_cq) + Len(rq)
      /\ Read \in Int /\ num_pkts \in Nat /\ recvs_to_post \in Nat /\ rx_ring_head \in Nat
  BY RingType DEF IBInv
<1>2. RingsAgree
  BY <1>1 DEF IBInv, RingsAgree, Ring
<1>3. RecvShortfall
  <2>1. recvs_to_post < kRecvSlack
    BY IBRecvAssumption DEF IBInv, IBRxTypeOK
  <2> QED BY <1>1, <2>1, IBRecvAssumption DEF IBInv, RecvShortfall, Read
<1>4. PICK a : a = Len(recv_wc)
  OBVIOUS
<1>5. PICK c : c = Len(recv_cq)
  OBVIOUS
<1>6. PICK r : r = Len(rq)
  OBVIOUS
<1>7. a \in Nat /\ c \in Nat /\ r \in Nat /\ Len(Ring) = a + c + r /\ a + c + r <= kRQDepth
  <2>1. Read >= 0
    BY <1>1 DEF IBInv, Read
  <2> QED BY <1>1, <1>4, <1>5, <1>6, <2>1, IBRecvAssumption DEF IBInv
<1>8. \A i \in 1..a + c + r : Ring[i] = IF i <= a THEN recv_wc[i]
                                        ELSE IF i <= a + c THEN recv_cq[i - a]
                                        ELSE rq[i - (a + c)]
  <2>0. recv_wc \in Seq(Slots) /\ recv_cq \in Seq(Slots) /\ rq \in Seq(Slots)
    BY DEF IBInv, IBRxTypeOK
  <2>1. PICK s : s = recv_wc \o recv_cq
    OBVIOUS
  <2>2. /\ s \in Seq(Slots) /\ Len(s) = a + c
        /\ \A i \in 1..a + c : s[i] = IF i <= a THEN recv_wc[i] ELSE recv_cq[i - a]
    BY <1>4, <1>5, <2>0, <2>1, ConcatProperties
  <2>3. \A i \in 1..(a + c) + r : Ring[i] = IF i <= a + c THEN s[i] ELSE rq[i - (a + c)]
    BY <1>6, <2>0, <2>1, <2>2, ConcatProperties DEF Ring
  <2> QED BY <1>7, <2>2, <2>3
<1>9. \A i, j \in 1..a + c + r : i # j => Ring[i] # Ring[j]
  <2> SUFFICES ASSUME NEW i \in 1..a + c + r, NEW j \in 1..a + c + r, i # j
               PROVE  Ring[i] # Ring[j]
    OBVIOUS
  <2>1. PICK n : n = a + c + r
    OBVIOUS
  <2>2. n \in Nat /\ n <= kRQDepth /\ i \in 1..n /\ j \in 1..n
    BY <1>7, <2>1
  <2>3. SlotsFrom(rx_ring_head, n)[i] # SlotsFrom(rx_ring_head, n)[j]
    BY <1>1, <2>2, SlotsDistinct
  <2>4. Ring = SlotsFrom(rx_ring_head, n)
    BY <1>7, <2>1 DEF IBInv
  <2> QED BY <2>3, <2>4
<1>10. \A i \in 1..r : a + c + i \in 1..a + c + r /\ rq[i] = Ring[a + c + i]
  <2> SUFFICES ASSUME NEW i \in 1..r
               PROVE  a + c + i \in 1..a + c + r /\ rq[i] = Ring[a + c + i]
    OBVIOUS
  <2>1. PICK k : k = a + c + i
    OBVIOUS
  <2>2. k \in 1..a + c + r /\ ~(k <= a) /\ ~(k <= a + c) /\ k - (a + c) = i
    BY <1>7, <2>1
  <2>3. Ring[k] = rq[k - (a + c)]
    BY <1>8, <2>2
  <2> QED BY <2>1, <2>2, <2>3
<1>11. \A i \in 1..c : a + i \in 1..a + c + r /\ a + i <= a + c /\ recv_cq[i] = Ring[a + i]
  <2> SUFFICES ASSUME NEW i \in 1..c
               PROVE  a + i \in 1..a + c + r /\ a + i <= a + c /\ recv_cq[i] = Ring[a + i]
    OBVIOUS
  <2>1. PICK k : k = a + i
    OBVIOUS
  <2>2. k \in 1..a + c + r /\ ~(k <= a) /\ k <= a + c /\ k - a = i
    BY <1>7, <2>1
  <2>3. Ring[k] = recv_cq[k - a]
    BY <1>8, <2>2
  <2> QED BY <2>1, <2>2, <2>3
<1>12. \A i \in 1..a : i \in 1..a + c + r /\ i <= a + c /\ recv_wc[i] = Ring[i]
  BY <1>7, <1>8
<1>13. NoOverwrite
  <2>1. ASSUME NEW i \in 1..r, NEW j \in 1..r, rq[i] = rq[j]
        PROVE  i = j
    <3>1. Ring[a + c + i] = Ring[a + c + j] /\ a + c + i \in 1..a + c + r
          /\ a + c + j \in 1..a + c + r
      BY <1>10, <2>1
    <3>2. a + c + i = a + c + j
      BY <1>9, <3>1
    <3> QED BY <1>7, <3>2
  <2>2. ASSUME NEW i \in 1..r, NEW k \in 1..c
        PROVE  rq[i] # recv_cq[k]
    <3>1. rq[i] = Ring[a + c + i] /\ recv_cq[k] = Ring[a + k]
          /\ a + c + i \in 1..a + c + r /\ a + k \in 1..a + c + r
      BY <1>10, <1>11
    <3>2. a + c + i # a + k
      BY <1>7
    <3> QED BY <1>9, <3>1, <3>2
  <2>3. ASSUME NEW i \in 1..r, NEW k \in 1..a
        PROVE  rq[i] # recv_wc[k]
    <3>1. rq[i] = Ring[a + c + i] /\ recv_wc[k] = Ring[k]
          /\ a + c + i \in 1..a + c + r /\ k \in 1..a + c + r
      BY <1>10, <1>12
    <3>2. a + c + i # k
      BY <1>7
    <3> QED BY <1>9, <3>1, <3>2
  <2> QED BY <1>4, <1>5, <1>6, <2>1, <2>2, <2>3 DEF NoOverwrite
<1> QED BY <1>2, <1>3, <1>13 DEF RecvsAccounted

\* The RX ring of IBTransport is safe for every size of the ring, batch of RECVs and
\* burst, with and without fast RECVs: the NIC, the Rpc and post_recvs walk it in
\* step, and no packet is overwritten before process_comps_st read it.
THEOREM RecvsAccountedHolds == IBRxSpec => []RecvsAccounted
<1>1. IBInv => RecvsAccounted
  BY RecvsFollow
<1> QED BY <1>1, IBInvariance, PTL

-------------------------------------------------------------------------------
(***************************************************************************)
(* The multi-packet RECVs of RawTransport.  Every index and every CQE is a *)
(* function of the number P of packets completed so far, if the cycle      *)
(* before the first packet is counted as well, as                          *)
(* map_mlx5_overrunning_recv_cqes does.                                    *)
(***************************************************************************)
\* The CQE of packet q.
Snap(q) == snapshot_at(q % kCQESnapshotCycle)

\* A packet whose CQE was where rx_burst looks, since its last success.
Seen(P, q) ==
    /\ q % kRecvCQDepth = (P - unread) % kRecvCQDepth
    /\ P - unread - kRecvCQDepth <= q /\ q < P

\* What snapshot_cqe has read: the id of one such packet, then the counter of
\* the same or a later one.
ReadBy(P) ==
    raw_pc \in {"id", "counter"} =>
      \E q \in Nat :
        /\ Seen(P, q) /\ id_0 = Snap(q).wqe_id
        /\ raw_pc = "counter" =>
             \E r \in Nat : q <= r /\ Seen(P, r) /\ ctr_0 = Snap(r).wqe_counter

\* The state after P packets.
RawAt(P) ==
    /\ P >= kCQESnapshotCycle
    /\ nic_pkts = P % kCQESnapshotCycle /\ stride = P % kStridesPerWQE
    /\ \A q \in Nat : P - kRecvCQDepth <= q /\ q < P => cqe[q % kRecvCQDepth] = Snap(q)
    /\ prev_snapshot = Snap(P - unread - 1) /\ cqe_idx = (P - unread) % kRecvCQDepth
    /\ raw_ring_head = (P - unread - burst) % kNumRxRingEntries
    /\ \A i \in 1..Len(mp_rq) : mp_rq[i] = (P \div kStridesPerWQE + i - 1) % kRawRQDepth
    /\ mp_sge_idx = (P \div kStridesPerWQE + Len(mp_rq)) % kRawRQDepth
    /\ ReadBy(P)

\* The strides, counted.
RawCount ==
    /\ unread >= 0 /\ StridesConserved
    /\ stride # 0 => mp_rq # <<>>
    /\ raw_recvs_to_post < kNumRxRingEntries
    /\ raw_pc # "process" => burst = 0

\* The inductive invariant.
RawInv == RawTypeOK /\ RawCount /\ \E P \in Nat : RawAt(P)

LEMMA DivUnique ==
    ASSUME NEW d \in Nat \ {0}, NEW n \in Nat, NEW q \in Int, NEW m \in 0..d - 1,
           n = d * q + m
    PROVE  n \div d = q
  OBVIOUS

\* A remainder of a remainder, when one divisor divides the other.
LEMMA ModMod ==
    ASSUME NEW d \in Nat \ {0}, NEW k \in Nat \ {0}, NEW c \in Nat \ {0}, c = d * k,
           NEW n \in Nat
    PROVE  (n % c) % d = n % d
<1>1. PICK q \in Nat : q = n \div c
  BY ModBasic
<1>2. PICK m \in 0..c - 1 : m = n % c
  BY ModBasic
<1>3. n = c * q + m /\ m \in Nat
  BY ONLY <1>1, <1>2, ModBasic, c \in Nat \ {0}, n \in Nat
<1>4. PICK p \in Nat : p = m \div d
  BY <1>3, ModBasic
<1>5. PICK r \in 0..d - 1 : r = m % d
  BY <1>3, ModBasic
<1>6. m = d * p + r
  BY <1>3, <1>4, <1>5, ModBasic
<1>7. PICK x \in Int : x = k * q
  BY <1>1
<1>8. c * q = d * x
  <2>1. (d * k) * q = d * (k * q)
    BY <1>1
  <2> QED BY <1>7, <2>1
<1>9. d * x + d * p = d * (x + p) /\ x + p \in Int
  BY ONLY x \in Int, p \in Nat, d \in Nat
<1>10. n = d * (x + p) + r
  <2>1. d * x \in Int /\ d * p \in Int /\ r \in Int
    BY ONLY x \in Int, p \in Nat, d \in Nat, r \in 0..d - 1
  <2> QED BY ONLY <1>3, <1>6, <1>8, <1>9, <2>1
<1>11. n % d = r
  BY ONLY r \in 0..d - 1, <1>9, <1>10, ModUnique, d \in Nat \ {0}, n \in Nat
<1> QED BY <1>2, <1>5, <1>11

\* The quotient of a remainder is a remainder of the quotient.
LEMMA DivOfMod ==
    ASSUME NEW d \in Nat \ {0}, NEW k \in Nat \ {0}, NEW c \in Nat \ {0}, c = k * d,
           NEW n \in Nat
    PROVE  (n % c) \div d = (n \div d) % k
<1>1. PICK a \in Nat : a = n \div d
  BY ModBasic
<1>2. PICK b \in 0..d - 1 : b = n % d
  BY ModBasic
<1>3. n = d * a + b /\ b \in Nat /\ b < d
  BY <1>1, <1>2, ModBasic
<1>4. PICK p \in Nat : p = a \div k
  BY ModBasic
<1>5. PICK r \in 0..k - 1 : r = a % k
  BY ModBasic
<1>6. a = k * p + r /\ r \in Nat
  BY <1>4, <1>5, ModBasic
<1>7. d * a = c * p + d * r
  <2>1. d * a = d * (k * p) + d * r
    BY <1>6
  <2>2. d * (k * p) = (k * d) * p
    BY <1>4
  <2> QED BY <2>1, <2>2
<1>8. d * r + b \in 0..c - 1
  <2>1. d * r <= d * (k - 1) /\ d * r \in Nat
    BY <1>5, <1>6
  <2>2. d * (k - 1) = c - d
    OBVIOUS
  <2> QED BY <1>3, <2>1, <2>2
<1>9. PICK y \in 0..c - 1 : y = d * r + b
  BY <1>8
<1>10. n = c * p + y /\ y \in Nat
  BY <1>3, <1>6, <1>7, <1>9
<1>11. n % c = y
  BY ONLY p \in Nat, y \in 0..c - 1, <1>10, ModUnique, c \in Nat \ {0}, n \in Nat
<1>12. y \div d = r
  BY ONLY b \in 0..d - 1, r \in Nat, y = d * r + b, y \in Nat, <1>9, <1>10, DivUnique, d \in Nat \ {0}
<1> QED BY <1>1, <1>2, <1>5, <1>9, <1>11, <1>12

\* Equal remainders of close numbers.
LEMMA ModClose ==
    ASSUME NEW d \in Nat \ {0}, NEW a \in Nat, NEW b \in Nat, a % d = b % d, a <= b
    PROVE  /\ b - a < d => a = b
           /\ b - a < d + d => a = b \/ b = a + d
           /\ (b - a) % d = 0
<1>1. PICK p \in Nat : p = a \div d
  BY ModBasic
<1>2. PICK q \in Nat : q = b \div d
  BY ModBasic
<1>3. PICK m \in 0..d - 1 : m = a % d
  BY ModBasic
<1>4. a = d * p + m /\ b = d * q + m
  BY <1>1, <1>2, <1>3, ModBasic
<1>5. b - a = d * (q - p) /\ q - p \in Int
  BY <1>4
<1>6. q - p >= 0
  <2>1. CASE q - p <= -1
    <3>1. d * (q - p) <= d * (-1)
      BY <2>1, <1>5
    <3>2. b - a <= -d
      BY <1>5, <3>1
    <3> QED BY <3>2
  <2> QED BY <1>5, <2>1
<1>7. q - p >= 1 => d * (q - p) >= d
  BY <1>5
<1>8. q - p >= 2 => d * (q - p) >= d + d
  <2>1. q - p >= 2 => d * (q - p) >= d * 2
    BY <1>5
  <2> QED BY <2>1
<1>9. q - p = 0 => d * (q - p) = 0
  BY <1>5
<1>10. q - p = 1 => d * (q - p) = d
  BY <1>5
<1>11. (b - a) % d = 0
  <2>1. b - a \in Nat /\ 0 \in 0..d - 1 /\ b - a = d * (q - p) + 0
    BY <1>5
  <2> QED BY <1>5, <2>1, ModUnique
<1> QED BY <1>5, <1>6, <1>7, <1>8, <1>9, <1>10, <1>11

\* One of d consecutive numbers has a given remainder.
LEMMA ModExists ==
    ASSUME NEW d \in Nat \ {0}, NEW n \in Nat, d <= n, NEW m \in 0..d - 1
    PROVE  \E q \in Nat : n - d <= q /\ q < n /\ q % d = m
<1>1. PICK p \in Nat : p = n \div d
  BY ModBasic
<1>2. PICK r \in 0..d - 1 : r = n % d
  BY ModBasic
<1>3. n = d * p + r
  BY <1>1, <1>2, ModBasic
<1>4. p >= 1
  <2>1. p = 0 => d * p = 0
    OBVIOUS
  <2> QED BY <1>2, <1>3, <2>1
<1>5. d * (p - 1) = d * p - d /\ p - 1 \in Nat /\ d * (p - 1) \in Nat /\ d * p \in Nat
  BY <1>4
<1>6. CASE m < r
  <2>1. d * p + m \in Nat /\ (d * p + m) % d = m
    BY <1>5, ModUnique
  <2> QED BY <1>3, <1>6, <2>1
<1>7. CASE m >= r
  <2>1. PICK z \in Int : z = p - 1
    OBVIOUS
  <2>2. PICK y \in Nat : y = d * z + m
    BY <1>5, <2>1
  <2>3. y % d = m
    BY ONLY z \in Int, y \in Nat, y = d * z + m, ModUnique, d \in Nat \ {0}, m \in 0..d - 1
  <2>4. y = n - r - d + m
    BY <1>3, <1>5, <2>1, <2>2
  <2>5. n - d <= y /\ y < n
    BY ONLY <1>7, <2>4, n \in Nat, d \in Nat, m \in 0..d - 1, r \in 0..d - 1
  <2> QED BY <2>3, <2>5
<1> QED BY <1>6, <1>7

\* Counting further on both sides of an equation of remainders.
LEMMA ModShift ==
    ASSUME NEW d \in Nat \ {0}, NEW a \in Nat, NEW b \in Nat, NEW k \in Nat, a % d = b % d
    PROVE  (a + k) % d = (b + k) % d
<1>1. ((a % d) + k) % d = (a + k) % d
  BY ModAdd
<1>2. ((b % d) + k) % d = (b + k) % d
  BY ModAdd
<1> QED BY <1>1, <1>2

\* The cycle, the ring, the RECVs and the CQ, each a multiple of the next.
LEMMA RawSizes ==
    /\ kNumRxRingEntries \in Nat \ {0} /\ kStridesPerWQE \in Nat \ {0}
    /\ kRecvCQDepth \in Nat \ {0} /\ kRecvCQDepth >= 2 /\ WqeIds \in Nat \ {0}
    /\ kCQESnapshotCycle \in Nat \ {0} /\ kRawRQDepth \in Nat \ {0}
    /\ kCQESnapshotCycle = WqeIds * kStridesPerWQE
    /\ kNumRxRingEntries = kRawRQDepth * kStridesPerWQE
    /\ kRecvCQDepth <= kStridesPerWQE /\ kStridesPerWQE <= kNumRxRingEntries
    /\ kNumRxRingEntries + kStridesPerWQE + kRecvCQDepth <= kCQESnapshotCycle
<1>1. /\ kNumRxRingEntries \in Nat \ {0} /\ kStridesPerWQE \in Nat \ {0}
      /\ kRecvCQDepth \in Nat \ {0} /\ kRecvCQDepth >= 2 /\ WqeIds \in Nat \ {0}
      /\ kNumRxRingEntries % kStridesPerWQE = 0 /\ kRecvCQDepth <= kStridesPerWQE
      /\ kNumRxRingEntries + kStridesPerWQE + kRecvCQDepth <= WqeIds * kStridesPerWQE
  BY RawRecvAssumption
<1>2. kCQESnapshotCycle = WqeIds * kStridesPerWQE
  BY DEF kCQESnapshotCycle
<1>3. WqeIds * kStridesPerWQE \in Nat
  BY <1>1
<1>4. kCQESnapshotCycle \in Nat \ {0}
  BY <1>1, <1>2, <1>3
<1>5. PICK k \in Nat : k = kRawRQDepth
  BY <1>1, ModBasic DEF kRawRQDepth
<1>6. kNumRxRingEntries = kStridesPerWQE * k + 0
  BY <1>1, <1>5, ModBasic DEF kRawRQDepth
<1>7. k # 0
  <2>1. k = 0 => kStridesPerWQE * k = 0
    BY <1>1
  <2> QED BY <1>1, <1>6, <2>1
<1>8. kStridesPerWQE * k = k * kStridesPerWQE /\ kStridesPerWQE * k \in Nat
      /\ kStridesPerWQE <= kStridesPerWQE * k
  BY <1>1, <1>7
<1>9. kNumRxRingEntries = k * kStridesPerWQE /\ kStridesPerWQE <= kNumRxRingEntries
  BY <1>1, <1>6, <1>8
<1> QED BY <1>1, <1>2, <1>4, <1>5, <1>7, <1>9

\* What divides what.
LEMMA RawDivides ==
    /\ \E k \in Nat \ {0} : kStridesPerWQE = kRecvCQDepth * k
    /\ \E k \in Nat \ {0} : kNumRxRingEntries = kRecvCQDepth * k
    /\ \E k \in Nat \ {0} : kCQESnapshotCycle = kRecvCQDepth * k
    /\ \E k \in Nat \ {0} : kCQESnapshotCycle = kNumRxRingEntries * k /\ WqeIds = kRawRQDepth * k
<1>1. PICK k \in Nat : k = kStridesPerWQE \div kRecvCQDepth
  BY RawSizes, ModBasic
<1>2. kStridesPerWQE = kRecvCQDepth * k /\ k # 0
  <2>1. kStridesPerWQE = kRecvCQDepth * k + 0
    BY <1>1, RawSizes, RawRecvAssumption, ModBasic
  <2>2. k = 0 => kRecvCQDepth * k = 0
    BY RawSizes
  <2>3. kRecvCQDepth * k \in Nat
    BY RawSizes
  <2> QED BY <2>1, <2>2, <2>3, RawSizes
<1>3. ASSUME NEW x \in Nat \ {0}
      PROVE  \E j \in Nat \ {0} : x * kStridesPerWQE = kRecvCQDepth * j
  <2>1. PICK d \in Nat \ {0} : d = kRecvCQDepth
    BY RawSizes
  <2>2. x * (d * k) = d * (x * k) /\ x * k \in Nat \ {0}
    BY ONLY x \in Nat \ {0}, k \in Nat, <1>2, d \in Nat
  <2> QED BY <1>2, <2>1, <2>2
<1>4. \E j \in Nat \ {0} : kNumRxRingEntries = kRecvCQDepth * j
  BY <1>3, RawSizes
<1>5. \E j \in Nat \ {0} : kCQESnapshotCycle = kRecvCQDepth * j
  BY <1>3, RawSizes
<1>6. PICK j \in Nat : j = kCQESnapshotCycle \div kNumRxRingEntries
  BY RawSizes, ModBasic
<1>7. kCQESnapshotCycle = kNumRxRingEntries * j /\ j # 0
  <2>1. kCQESnapshotCycle = kNumRxRingEntries * j + 0
    <3>1. kCQESnapshotCycle % kNumRxRingEntries = 0
      BY RawRecvAssumption DEF kCQESnapshotCycle
    <3>2. kCQESnapshotCycle \in Nat /\ kNumRxRingEntries \in Nat \ {0}
      BY RawSizes
    <3> QED BY ONLY <1>6, <3>1, <3>2, ModBasic
  <2>2. j = 0 => kNumRxRingEntries * j = 0
    BY RawSizes
  <2>3. kNumRxRingEntries * j \in Nat
    BY RawSizes
  <2> QED BY <2>1, <2>2, <2>3, RawSizes
<1>8. WqeIds = kRawRQDepth * j
  <2>1. PICK s \in Nat \ {0} : s = kStridesPerWQE
    BY RawSizes
  <2>2. PICK w \in Nat : w = WqeIds
    BY RawSizes
  <2>3. PICK q \in Nat : q = kRawRQDepth
    BY RawSizes
  <2>4. PICK y \in Nat : y = q * j
    OBVIOUS
  <2>5. (q * s) * j = s * (q * j)
    BY ONLY q \in Nat, s \in Nat, j \in Nat
  <2>6. w * s = s * y + 0 /\ w * s = s * w + 0
    BY ONLY <1>7, <2>1, <2>2, <2>3, <2>4, <2>5, RawSizes, s \in Nat, w \in Nat, y \in Nat
  <2>7. PICK n \in Nat : n = w * s
    OBVIOUS
  <2>8. n \div s = y /\ n \div s = w
    BY ONLY n \in Nat, n = w * s, <2>6, s \in Nat \ {0}, w \in Nat, y \in Nat, 0 \in 0..s - 1, DivUnique
  <2> QED BY <2>2, <2>3, <2>4, <2>8
<1> QED BY <1>2, <1>4, <1>5, <1>7, <1>8

\* The CQE of a packet, and how far a cycle index is from another.
LEMMA SnapFacts ==
    ASSUME NEW q \in Nat
    PROVE  /\ Snap(q) \in Snapshot
           /\ Snap(q).wqe_id = (q \div kStridesPerWQE) % WqeIds
           /\ Snap(q).wqe_counter = q % kStridesPerWQE
           /\ Snap(q) = [wqe_id |-> (q \div kStridesPerWQE) % WqeIds,
                         wqe_counter |-> q % kStridesPerWQE]
           /\ get_cqe_snapshot_cycle_idx(Snap(q)) = q % kCQESnapshotCycle
<1>1. PICK s \in Nat \ {0} : s = kStridesPerWQE
  BY RawSizes
<1>2. PICK w \in Nat \ {0} : w = WqeIds
  BY RawSizes
<1>3. PICK c \in Nat \ {0} : c = kCQESnapshotCycle
  BY RawSizes
<1>4. c = w * s /\ c = s * w
  BY <1>1, <1>2, <1>3, RawSizes
<1>5. (q % c) \div s = (q \div s) % w
  BY ONLY ZenonT(60), <1>4, DivOfMod, s \in Nat \ {0}, w \in Nat \ {0}, c \in Nat \ {0}, q \in Nat
<1>6. (q % c) % s = q % s
  BY ONLY <1>4, ModMod, s \in Nat \ {0}, w \in Nat \ {0}, c \in Nat \ {0}, q \in Nat
<1>7. Snap(q) = [wqe_id |-> (q \div s) % w, wqe_counter |-> q % s]
  BY <1>1, <1>3, <1>5, <1>6 DEF Snap, snapshot_at
<1>8. (q \div s) % w \in 0..w - 1 /\ q % s \in 0..s - 1
  BY ModBasic
<1>9. get_cqe_snapshot_cycle_idx(Snap(q)) = ((q \div s) % w) * s + (q % s)
  BY <1>1, <1>7 DEF get_cqe_snapshot_cycle_idx
<1>10. q % c = s * ((q \div s) % w) + (q % s)
  <2>1. PICK x \in Nat : x = q % c
    BY ModBasic
  <2>2. x = s * (x \div s) + (x % s)
    BY ModBasic
  <2> QED BY <1>5, <1>6, <2>1, <2>2
<1>11. ((q \div s) % w) * s = s * ((q \div s) % w)
  BY <1>8
<1> QED BY <1>1, <1>2, <1>3, <1>7, <1>8, <1>9, <1>10, <1>11 DEF Snapshot

LEMMA SnapDelta ==
    ASSUME NEW p \in Nat, NEW q \in Nat
    PROVE  /\ p <= q /\ q < p + kCQESnapshotCycle => get_cqe_cycle_delta(Snap(p), Snap(q)) = q - p
           /\ q < p /\ p < q + kCQESnapshotCycle =>
                get_cqe_cycle_delta(Snap(p), Snap(q)) = q - p + kCQESnapshotCycle
<1>1. PICK c \in Nat \ {0} : c = kCQESnapshotCycle
  BY RawSizes
<1>2. get_cqe_cycle_delta(Snap(p), Snap(q)) = (((q % c) + c) - (p % c)) % c
  BY <1>1, SnapFacts DEF get_cqe_cycle_delta
<1>3. PICK a \in Nat : a = p \div c
  BY ModBasic
<1>4. PICK b \in Nat : b = q \div c
  BY ModBasic
<1>5. PICK m \in 0..c - 1 : m = p % c
  BY ModBasic
<1>6. PICK n \in 0..c - 1 : n = q % c
  BY ModBasic
<1>7. p = c * a + m /\ q = c * b + n
  BY <1>3, <1>4, <1>5, <1>6, ModBasic
<1>8. PICK e \in Int : e = a - b
  OBVIOUS
<1>9. c * e = c * a - c * b /\ c * a \in Int /\ c * b \in Int /\ c * e \in Int
  BY ONLY <1>8, e \in Int, c \in Nat, a \in Nat, b \in Nat
<1>10. PICK x \in Nat : x = n + c - m
  BY ONLY m \in 0..c - 1, n \in 0..c - 1, c \in Nat
<1>11. x = (q - p) + c * e + c
  BY ONLY <1>7, <1>9, <1>10, p \in Nat, q \in Nat, c \in Nat, m \in 0..c - 1, n \in 0..c - 1, x \in Nat
<1>12. c * (e + 1) = c * e + c /\ c * e = c * e
  BY ONLY e \in Int, c \in Nat
<1>13. ASSUME p <= q, q < p + c PROVE x % c = q - p
  <2>1. q - p \in 0..c - 1 /\ e + 1 \in Int
    BY <1>13
  <2>2. x = c * (e + 1) + (q - p)
    BY <1>9, <1>11, <1>12
  <2>3. PICK y \in 0..c - 1 : y = q - p
    BY <2>1
  <2>4. PICK f \in Int : f = e + 1
    BY <2>1
  <2> QED BY ONLY <2>2, <2>3, <2>4, x \in Nat, y \in 0..c - 1, f \in Int, c \in Nat \ {0}, ModUnique
<1>14. ASSUME q < p, p < q + c PROVE x % c = q - p + c
  <2>1. PICK y \in 0..c - 1 : y = q - p + c
    BY <1>14
  <2>2. x = c * e + y
    BY ONLY <2>1, <1>9, <1>11, p \in Nat, q \in Nat, c \in Nat, y \in 0..c - 1
  <2> QED BY ONLY <2>1, <2>2, x \in Nat, y \in 0..c - 1, e \in Int, c \in Nat \ {0}, ModUnique
<1>15. ((q % c) + c) - (p % c) = x
  BY ONLY <1>5, <1>6, <1>10
<1> QED BY <1>1, <1>2, <1>13, <1>14, <1>15

\* The next quotient.
LEMMA DivNext ==
    ASSUME NEW d \in Nat \ {0}, NEW n \in Nat
    PROVE  (n + 1) \div d = IF n % d = d - 1 THEN (n \div d) + 1 ELSE n \div d
<1>1. PICK q \in Nat : q = n \div d
  BY ModBasic
<1>2. PICK m \in 0..d - 1 : m = n % d
  BY ModBasic
<1>3. n = d * q + m
  BY <1>1, <1>2, ModBasic
<1>4. PICK x \in Nat : x = n + 1
  OBVIOUS
<1>5. CASE m = d - 1
  <2>1. PICK f \in Int : f = q + 1
    OBVIOUS
  <2>2. d * f = d * q + d /\ d * q \in Int
    BY ONLY <2>1, f \in Int, q \in Nat, d \in Nat
  <2>3. x = d * f + 0 /\ 0 \in 0..d - 1
    BY ONLY <1>3, <1>4, <1>5, <2>2, d \in Nat \ {0}, n \in Nat, x \in Nat
  <2>4. x \div d = f
    BY ONLY <2>3, x \in Nat, f \in Int, d \in Nat \ {0}, DivUnique
  <2> QED BY <1>1, <1>2, <1>4, <1>5, <2>1, <2>4
<1>6. CASE m # d - 1
  <2>1. PICK y \in 0..d - 1 : y = m + 1
    BY <1>6
  <2>2. d * q \in Int
    BY ONLY q \in Nat, d \in Nat
  <2>3. x = d * q + y
    BY ONLY <1>3, <1>4, <2>1, <2>2, n \in Nat, m \in 0..d - 1, y \in 0..d - 1, d \in Nat
  <2>4. x \div d = q
    BY ONLY <2>3, x \in Nat, q \in Nat, y \in 0..d - 1, d \in Nat \ {0}, DivUnique
  <2> QED BY <1>1, <1>2, <1>4, <1>6, <2>4
<1> QED BY <1>5, <1>6

\* Packets that wait or are being processed never exceed the ring.
LEMMA RawRoom ==
    ASSUME RawTypeOK, RawCount
    PROVE  /\ unread \in Nat /\ burst \in Nat /\ raw_recvs_to_post \in Nat
           /\ stride \in Nat /\ stride < kStridesPerWQE
           /\ Len(mp_rq) \in Nat /\ Len(mp_rq) * kStridesPerWQE \in Nat
           /\ mp_rq = <<>> => Len(mp_rq) * kStridesPerWQE = 0
           /\ mp_rq # <<>> => Len(mp_rq) * kStridesPerWQE >= kStridesPerWQE
           /\ unread + burst + raw_recvs_to_post <= kNumRxRingEntries
<1>1. /\ unread \in Nat /\ burst \in Nat /\ raw_recvs_to_post \in Nat
      /\ stride \in Nat /\ stride < kStridesPerWQE /\ Len(mp_rq) \in Nat
      /\ mp_rq = <<>> <=> Len(mp_rq) = 0
  BY RawSizes DEF RawTypeOK, RawCount
<1>2. PICK n \in Nat : n = Len(mp_rq)
  BY <1>1
<1>3. PICK s \in Nat \ {0} : s = kStridesPerWQE
  BY RawSizes
<1>4. n * s \in Nat /\ (n = 0 => n * s = 0) /\ (n # 0 => n * s >= s)
  BY ONLY n \in Nat, s \in Nat \ {0}
<1>5. n * s >= stride
  BY <1>1, <1>2, <1>3, <1>4 DEF RawCount
<1>6. n * s - stride + burst + unread + raw_recvs_to_post = kNumRxRingEntries
  BY <1>2, <1>3 DEF RawCount, StridesConserved
<1>7. unread + burst + raw_recvs_to_post <= kNumRxRingEntries
  BY <1>1, <1>4, <1>5, <1>6, RawSizes
<1> QED BY <1>1, <1>2, <1>3, <1>4, <1>7

\* The packets reported, and the range of what RawAt subtracts.
LEMMA RawRange ==
    ASSUME RawTypeOK, RawCount, NEW P \in Nat, RawAt(P)
    PROVE  /\ P - unread \in Nat /\ P - unread - burst \in Nat /\ P - unread - 1 \in Nat
           /\ P - unread - kRecvCQDepth \in Nat /\ P - kRecvCQDepth \in Nat
           /\ unread \in Nat /\ burst \in Nat /\ unread + burst <= kNumRxRingEntries
           /\ kRecvCQDepth \in Nat \ {0}
<1>1. P >= kCQESnapshotCycle
  BY DEF RawAt
<1>2. /\ unread \in Nat /\ burst \in Nat /\ raw_recvs_to_post \in Nat
      /\ unread + burst + raw_recvs_to_post <= kNumRxRingEntries
  BY RawRoom
<1>3. /\ kNumRxRingEntries \in Nat /\ kRecvCQDepth \in Nat \ {0} /\ kStridesPerWQE \in Nat \ {0}
      /\ kCQESnapshotCycle \in Nat
      /\ kNumRxRingEntries + kStridesPerWQE + kRecvCQDepth <= kCQESnapshotCycle
  BY RawSizes
<1> QED BY ONLY <1>1, <1>2, <1>3, P \in Nat

\* The CQE that rx_burst looks at is that of the latest packet of its class.
LEMMA Latest ==
    ASSUME RawTypeOK, RawCount, NEW P \in Nat, RawAt(P)
    PROVE  \E r \in Nat :
             /\ Seen(P, r) /\ P - kRecvCQDepth <= r
             /\ cqe[cqe_idx] = Snap(r)
             /\ \A q \in Nat : Seen(P, q) => q <= r
<1>1. PICK d \in Nat \ {0} : d = kRecvCQDepth
  BY RawSizes
<1>2. /\ P - unread \in Nat /\ unread \in Nat /\ d <= P
      /\ cqe_idx = (P - unread) % d /\ cqe_idx \in 0..d - 1
  <2>1. P - unread \in Nat /\ unread \in Nat /\ d <= P
    BY <1>1, RawRange
  <2>2. cqe_idx = (P - unread) % d
    BY <1>1 DEF RawAt
  <2> QED BY <2>1, <2>2, ModBasic
<1>3. PICK r \in Nat : P - d <= r /\ r < P /\ r % d = cqe_idx
  BY <1>2, ModExists
<1>4. Seen(P, r)
  BY <1>1, <1>2, <1>3 DEF Seen
<1>5. cqe[cqe_idx] = Snap(r)
  BY <1>1, <1>3 DEF RawAt
<1>6. ASSUME NEW q \in Nat, Seen(P, q) PROVE q <= r
  <2>1. q % d = r % d /\ q < P
    BY <1>1, <1>2, <1>3, <1>6 DEF Seen
  <2>2. SUFFICES ASSUME r <= q PROVE q <= r
    OBVIOUS
  <2>3. q - r < d
    BY <1>3, <2>1
  <2> QED BY ONLY <2>1, <2>2, <2>3, ModClose, d \in Nat \ {0}, q \in Nat, r \in Nat
<1> QED BY <1>1, <1>3, <1>4, <1>5, <1>6

\* What rx_burst infers from the CQE of a packet: nothing, or the number of
\* packets up to that one.
LEMMA Inferred ==
    ASSUME RawTypeOK, RawCount, NEW P \in Nat, RawAt(P), NEW q \in Nat, Seen(P, q)
    PROVE  LET delta == get_cqe_cycle_delta(prev_snapshot, Snap(q))
           IN  \/ q < P - unread /\ delta >= kNumRxRingEntries
               \/ q >= P - unread /\ delta = q - (P - unread) + 1 /\ delta \in 1..unread
                  /\ delta < kNumRxRingEntries
<1>1. PICK d \in Nat \ {0} : d = kRecvCQDepth
  BY RawSizes
<1>2. PICK R \in Nat : R = P - unread
  BY RawRange
<1>3. /\ d >= 2 /\ R - 1 \in Nat /\ R - d \in Nat /\ unread \in Nat /\ unread <= kNumRxRingEntries
      /\ kNumRxRingEntries \in Nat /\ kCQESnapshotCycle \in Nat
      /\ kNumRxRingEntries + d <= kCQESnapshotCycle
      /\ P = R + unread /\ d \in Nat
  BY <1>1, <1>2, RawRange, RawSizes
<1>4. q % d = R % d /\ R - d <= q /\ q < P
  BY <1>1, <1>2 DEF Seen
<1>5. PICK p \in Nat : p = R - 1
  BY <1>3
<1>6. prev_snapshot = Snap(p)
  BY <1>2, <1>5 DEF RawAt
<1>7. CASE q < R
  <2>1. q = R - d
    <3>1. q <= R /\ R - q < d + d
      BY <1>3, <1>4, <1>7
    <3>2. q = R \/ R = q + d
      BY ONLY <1>4, <3>1, ModClose, d \in Nat \ {0}, q \in Nat, R \in Nat
    <3> QED BY <1>7, <3>2
  <2>2. q < p /\ p < q + kCQESnapshotCycle
    BY <1>3, <1>5, <2>1
  <2>3. get_cqe_cycle_delta(Snap(p), Snap(q)) = q - p + kCQESnapshotCycle
    BY <2>2, SnapDelta
  <2> QED BY <1>2, <1>3, <1>5, <1>6, <1>7, <2>1, <2>3
<1>8. CASE q >= R
  <2>1. p <= q /\ q < p + kCQESnapshotCycle
    BY <1>3, <1>4, <1>5, <1>8
  <2>2. get_cqe_cycle_delta(Snap(p), Snap(q)) = q - p
    BY <2>1, SnapDelta
  <2>3. q - p = q - R + 1 /\ q - p \in 1..unread
    BY <1>3, <1>4, <1>5, <1>8
  <2>4. q - p # kNumRxRingEntries
    <3>1. (q - R) % d = 0
      BY ONLY <1>4, <1>8, ModClose, d \in Nat \ {0}, q \in Nat, R \in Nat
    <3>2. (q - R + 1) % d = 1
      <4>1. PICK x \in Nat : x = q - R
        BY <1>8
      <4>2. (x + 1) % d = IF x % d = d - 1 THEN 0 ELSE (x % d) + 1
        BY ModNext
      <4> QED BY <1>3, <3>1, <4>1, <4>2
    <3>3. kNumRxRingEntries % d = 0
      <4>1. PICK k \in Nat \ {0} : kNumRxRingEntries = d * k
        BY <1>1, RawDivides
      <4>2. PICK n \in Nat : n = kNumRxRingEntries
        BY <1>3
      <4>3. n = d * k + 0 /\ 0 \in 0..d - 1
        BY <4>1, <4>2
      <4>4. n % d = 0
        BY ONLY <4>3, n \in Nat, k \in Nat, d \in Nat \ {0}, ModUnique
      <4> QED BY <4>2, <4>4
    <3> QED BY <2>3, <3>2, <3>3
  <2> QED BY <1>2, <1>3, <1>6, <1>8, <2>2, <2>3, <2>4
<1> QED BY <1>7, <1>8, <1>3, <1>4

\* A multiple of the divisor leaves nothing.
LEMMA ModZero ==
    ASSUME NEW d \in Nat \ {0}, NEW k \in Nat, NEW n \in Nat, n = d * k
    PROVE  n % d = 0 /\ n \div d = k
<1>1. n = d * k + 0 /\ 0 \in 0..d - 1
  OBVIOUS
<1> QED BY <1>1, ModUnique, DivUnique

\* The CQEs that map_mlx5_overrunning_recv_cqes writes are those of the last
\* kRecvCQDepth packets of a cycle.
LEMMA FirstCqes ==
    ASSUME NEW i \in 0..kRecvCQDepth - 1,
           NEW q \in Nat, q = kCQESnapshotCycle - (kRecvCQDepth - i)
    PROVE  /\ q % kRecvCQDepth = i
           /\ Snap(q) = [wqe_id |-> WqeIds - 1,
                         wqe_counter |-> kStridesPerWQE - (kRecvCQDepth - i)]
<1>1. PICK d \in Nat \ {0} : d = kRecvCQDepth
  BY RawSizes
<1>2. PICK s \in Nat \ {0} : s = kStridesPerWQE
  BY RawSizes
<1>3. PICK w \in Nat \ {0} : w = WqeIds
  BY RawSizes
<1>4. PICK k \in Nat \ {0} : kCQESnapshotCycle = d * k
  BY <1>1, RawDivides
<1>5. kCQESnapshotCycle = w * s /\ d <= s
  BY <1>1, <1>2, <1>3, RawSizes
<1>6. i \in 0..d - 1 /\ i \in Nat /\ i < d
  BY <1>1
<1>7. q % d = i
  <2>1. PICK f \in Int : f = k - 1
    OBVIOUS
  <2>2. d * f = d * k - d /\ d * k \in Int
    BY ONLY <2>1, f \in Int, k \in Nat, d \in Nat
  <2>3. q = d * f + i
    BY ONLY <1>1, <1>4, <1>6, <2>2, q = kCQESnapshotCycle - (kRecvCQDepth - i), d \in Nat
  <2> QED BY ONLY <2>3, <1>6, q \in Nat, f \in Int, d \in Nat \ {0}, ModUnique
<1>8. PICK m \in 0..s - 1 : m = s - (d - i)
  BY ONLY <1>5, <1>6, s \in Nat \ {0}, d \in Nat \ {0}
<1>9. PICK f \in Nat : f = w - 1
  OBVIOUS
<1>10. q = s * f + m
  <2>1. s * f = w * s - s /\ w * s \in Int
    BY ONLY <1>9, f \in Nat, w \in Nat, s \in Nat
  <2> QED BY ONLY <1>1, <1>5, <1>6, <1>8, <2>1, q = kCQESnapshotCycle - (kRecvCQDepth - i),
                  s \in Nat, d \in Nat
<1>11. q \div s = f /\ q % s = m
  BY ONLY <1>10, q \in Nat, f \in Nat, m \in 0..s - 1, s \in Nat \ {0}, ModUnique, DivUnique
<1>12. f % w = f
  <2>1. f = w * 0 + f /\ f \in 0..w - 1 /\ 0 \in Int
    BY <1>9
  <2> QED BY ONLY <2>1, f \in Nat, w \in Nat \ {0}, ModUnique
<1> QED BY <1>1, <1>2, <1>3, <1>7, <1>8, <1>9, <1>11, <1>12, SnapFacts

LEMMA RawInitInv == RawInit => RawInv
<1> SUFFICES ASSUME RawInit PROVE RawInv
  OBVIOUS
<1>1. PICK C \in Nat \ {0} : C = kCQESnapshotCycle
  BY RawSizes
<1>2. /\ kNumRxRingEntries \in Nat \ {0} /\ kStridesPerWQE \in Nat \ {0}
      /\ kRecvCQDepth \in Nat \ {0} /\ kRecvCQDepth >= 2 /\ WqeIds \in Nat \ {0}
      /\ kRawRQDepth \in Nat \ {0} /\ kRecvCQDepth <= kStridesPerWQE
      /\ kNumRxRingEntries + kStridesPerWQE + kRecvCQDepth <= C
  BY <1>1, RawSizes
<1>3. /\ nic_pkts = 0 /\ unread = 0 /\ raw_pc = "idle" /\ id_0 = 0 /\ ctr_0 = 0 /\ burst = 0
      /\ raw_ring_head = 0 /\ mp_rq = [i \in 1 .. kRawRQDepth |-> i - 1] /\ stride = 0
      /\ raw_recvs_to_post = 0 /\ mp_sge_idx = 0 /\ cqe_idx = 0
      /\ cqe = [i \in 0 .. kRecvCQDepth - 1 |->
                 [wqe_id |-> WqeIds - 1,
                  wqe_counter |-> kStridesPerWQE - (kRecvCQDepth - i)]]
      /\ prev_snapshot = [wqe_id |-> WqeIds - 1, wqe_counter |-> kStridesPerWQE - 1]
  BY DEF RawInit, map_mlx5_overrunning_recv_cqes, raw_init_recvs
<1>4. mp_rq \in Seq(0 .. kRawRQDepth - 1) /\ Len(mp_rq) = kRawRQDepth
  BY <1>2, <1>3
<1>5. RawTypeOK
  <2>1. cqe \in [0 .. kRecvCQDepth - 1 -> Snapshot] /\ prev_snapshot \in Snapshot
    <3>1. \A i \in 0 .. kRecvCQDepth - 1 :
             kStridesPerWQE - (kRecvCQDepth - i) \in 0 .. kStridesPerWQE - 1
      BY <1>2
    <3>2. WqeIds - 1 \in 0 .. WqeIds - 1 /\ kStridesPerWQE - 1 \in 0 .. kStridesPerWQE - 1
      BY <1>2
    <3> QED BY <1>3, <3>1, <3>2 DEF Snapshot
  <2>2. /\ nic_pkts \in 0 .. kCQESnapshotCycle - 1 /\ stride \in 0 .. kStridesPerWQE - 1
        /\ id_0 \in 0 .. WqeIds - 1 /\ ctr_0 \in 0 .. kStridesPerWQE - 1
        /\ cqe_idx \in 0 .. kRecvCQDepth - 1 /\ burst \in 0 .. kNumRxRingEntries /\ unread \in Int
        /\ raw_ring_head \in 0 .. kNumRxRingEntries - 1
        /\ raw_recvs_to_post \in Nat /\ mp_sge_idx \in 0 .. kRawRQDepth - 1
    BY <1>1, <1>2, <1>3
  <2> QED BY <1>3, <1>4, <2>1, <2>2 DEF RawTypeOK
<1>6. RawCount
  <2>1. Len(mp_rq) * kStridesPerWQE = kNumRxRingEntries
    BY <1>4, RawSizes
  <2> QED BY <1>2, <1>3, <2>1 DEF RawCount, StridesConserved
<1>7. RawAt(C)
  <2>1. C % C = 0
    <3>1. C = C * 1
      OBVIOUS
    <3> QED BY <3>1, ModZero
  <2>2. C % kStridesPerWQE = 0 /\ C \div kStridesPerWQE = WqeIds
    <3>1. C = kStridesPerWQE * WqeIds
      BY <1>1, <1>2, RawSizes
    <3> QED BY <1>2, <3>1, ModZero
  <2>3. C % kRecvCQDepth = 0
    <3>1. PICK k \in Nat \ {0} : C = kRecvCQDepth * k
      BY <1>1, RawDivides
    <3> QED BY <1>2, <3>1, ModZero
  <2>4. PICK k \in Nat \ {0} : C = kNumRxRingEntries * k /\ WqeIds = kRawRQDepth * k
    BY <1>1, RawDivides
  <2>5. C % kNumRxRingEntries = 0
    BY <1>2, <2>4, ModZero
  <2>6. ASSUME NEW q \in Nat, C - kRecvCQDepth <= q, q < C
        PROVE  cqe[q % kRecvCQDepth] = Snap(q)
    <3>1. PICK i \in 0 .. kRecvCQDepth - 1 : q = C - (kRecvCQDepth - i)
      <4>1. q - (C - kRecvCQDepth) \in 0 .. kRecvCQDepth - 1
            /\ q = C - (kRecvCQDepth - (q - (C - kRecvCQDepth)))
        BY <1>2, <2>6
      <4> QED BY <4>1
    <3>2. q % kRecvCQDepth = i
          /\ Snap(q) = [wqe_id |-> WqeIds - 1,
                        wqe_counter |-> kStridesPerWQE - (kRecvCQDepth - i)]
      BY <1>1, <3>1, FirstCqes
    <3> QED BY <1>3, <3>2
  <2>7. prev_snapshot = Snap(C - unread - 1)
    <3>1. PICK i \in 0 .. kRecvCQDepth - 1 : i = kRecvCQDepth - 1
      BY <1>2
    <3>2. PICK q \in Nat : q = C - 1
      OBVIOUS
    <3>3. q = C - (kRecvCQDepth - i) /\ kStridesPerWQE - (kRecvCQDepth - i) = kStridesPerWQE - 1
          /\ C - unread - 1 = q
      BY <1>2, <1>3, <3>1, <3>2
    <3>4. Snap(q) = [wqe_id |-> WqeIds - 1,
                     wqe_counter |-> kStridesPerWQE - (kRecvCQDepth - i)]
      BY <1>1, <3>3, FirstCqes
    <3> QED BY <1>3, <3>3, <3>4
  <2>8. \A i \in 1..Len(mp_rq) : mp_rq[i] = (C \div kStridesPerWQE + i - 1) % kRawRQDepth
    <3> SUFFICES ASSUME NEW i \in 1..kRawRQDepth
                 PROVE  i - 1 = (WqeIds + i - 1) % kRawRQDepth
      BY <1>3, <1>4, <2>2
    <3>1. PICK r \in Nat \ {0} : r = kRawRQDepth
      BY <1>2
    <3>2. PICK j \in 0..r - 1 : j = i - 1
      BY <3>1
    <3>3. PICK n \in Nat : n = WqeIds + i - 1
      BY <1>2, <3>1
    <3>4. n = r * k + j
      BY <1>2, <2>4, <3>1, <3>2, <3>3
    <3>5. n % r = j
      BY ONLY <3>4, n \in Nat, k \in Nat, j \in 0..r - 1, r \in Nat \ {0}, ModUnique
    <3> QED BY <3>1, <3>2, <3>3, <3>5
  <2>9. mp_sge_idx = (C \div kStridesPerWQE + Len(mp_rq)) % kRawRQDepth
    <3>1. PICK r \in Nat \ {0} : r = kRawRQDepth
      BY <1>2
    <3>2. PICK n \in Nat : n = WqeIds + r
      BY <1>2
    <3>3. PICK f \in Nat : f = k + 1
      OBVIOUS
    <3>4. r * f = r * k + r
      BY ONLY <3>3, f \in Nat, k \in Nat, r \in Nat
    <3>5. n = r * f
      BY <2>4, <3>1, <3>2, <3>4
    <3>6. n % r = 0
      BY ONLY <3>5, n \in Nat, f \in Nat, r \in Nat \ {0}, ModZero
    <3> QED BY <1>3, <1>4, <2>2, <3>1, <3>2, <3>6
  <2>10. ReadBy(C)
    BY <1>3 DEF ReadBy
  <2>11. C - unread = C /\ C - unread - burst = C /\ C >= kCQESnapshotCycle
    BY <1>1, <1>3
  <2> QED BY <1>1, <1>3, <2>1, <2>2, <2>3, <2>5, <2>6, <2>7, <2>8, <2>9, <2>10, <2>11 DEF RawAt
<1> QED BY <1>5, <1>6, <1>7 DEF RawInv

\* A step that changes neither packets nor indices keeps RawAt, whatever is read.
LEMMA RawAtSame ==
    ASSUME NEW P \in Nat, RawAt(P), ReadBy(P)',
           UNCHANGED <<cqe, nic_pkts, mp_rq, stride, prev_snapshot, cqe_idx, burst, unread,
                       raw_ring_head, mp_sge_idx>>
    PROVE  RawAt(P)'
  BY DEF RawAt

LEMMA RawReadKeepsInv ==
    ASSUME RawInv, read_wqe_id_0 \/ read_wqe_counter_0 \/ snapshot_retry
    PROVE  RawInv'
<1>1. /\ RawTypeOK /\ RawCount
      /\ UNCHANGED <<cqe, nic_pkts, mp_rq, stride, prev_snapshot, cqe_idx, burst, unread,
                     raw_ring_head, raw_recvs_to_post, mp_sge_idx>>
  BY DEF RawInv, read_wqe_id_0, read_wqe_counter_0, snapshot_retry
<1>2. PICK P \in Nat : RawAt(P)
  BY DEF RawInv
<1>3. PICK r \in Nat : /\ Seen(P, r) /\ cqe[cqe_idx] = Snap(r)
                       /\ \A q \in Nat : Seen(P, q) => q <= r
  BY <1>1, <1>2, Latest
<1>4. \A q : Seen(P, q)' <=> Seen(P, q)
  BY <1>1 DEF Seen
<1>5. cqe[cqe_idx] \in Snapshot
  BY <1>1 DEF RawTypeOK
<1>6. CASE read_wqe_id_0
  <2>1. raw_pc' = "id" /\ id_0' = Snap(r).wqe_id /\ ctr_0' = ctr_0 /\ raw_pc = "idle"
    BY <1>3, <1>6 DEF read_wqe_id_0
  <2>2. ReadBy(P)'
    BY <1>3, <1>4, <2>1 DEF ReadBy
  <2>3. RawTypeOK'
    BY <1>1, <1>3, <1>5, <2>1 DEF RawTypeOK, Snapshot
  <2>4. RawCount'
    BY <1>1, <2>1 DEF RawCount, StridesConserved
  <2> QED BY <1>1, <1>2, <2>2, <2>3, <2>4, RawAtSame DEF RawInv
<1>7. CASE read_wqe_counter_0
  <2>1. raw_pc' = "counter" /\ ctr_0' = Snap(r).wqe_counter /\ id_0' = id_0 /\ raw_pc = "id"
    BY <1>3, <1>7 DEF read_wqe_counter_0
  <2>2. PICK q \in Nat : Seen(P, q) /\ id_0 = Snap(q).wqe_id
    BY <1>2, <2>1 DEF RawAt, ReadBy
  <2>3. q <= r
    BY <1>3, <2>2
  <2>4. ReadBy(P)'
    BY <1>3, <1>4, <2>1, <2>2, <2>3 DEF ReadBy
  <2>5. RawTypeOK'
    BY <1>1, <1>3, <1>5, <2>1 DEF RawTypeOK, Snapshot
  <2>6. RawCount'
    BY <1>1, <2>1 DEF RawCount, StridesConserved
  <2> QED BY <1>1, <1>2, <2>4, <2>5, <2>6, RawAtSame DEF RawInv
<1>8. CASE snapshot_retry
  <2>1. raw_pc' = "idle" /\ id_0' = 0 /\ ctr_0' = 0 /\ raw_pc = "counter"
    BY <1>8 DEF snapshot_retry
  <2>2. ReadBy(P)'
    BY <2>1 DEF ReadBy
  <2>3. 0 \in 0 .. WqeIds - 1 /\ 0 \in 0 .. kStridesPerWQE - 1
    BY RawSizes
  <2>4. RawTypeOK'
    BY <1>1, <2>1, <2>3 DEF RawTypeOK
  <2>5. RawCount'
    BY <1>1, <2>1 DEF RawCount, StridesConserved
  <2> QED BY <1>1, <1>2, <2>2, <2>4, <2>5, RawAtSame DEF RawInv
<1> QED BY <1>6, <1>7, <1>8

\* The NIC completes packet P.
LEMMA RawNicKeepsInv ==
    ASSUME RawInv, raw_nic_recv
    PROVE  RawInv'
<1>1. /\ RawTypeOK /\ RawCount /\ mp_rq # <<>> /\ unread' = unread + 1
      /\ UNCHANGED <<raw_pc, id_0, ctr_0, prev_snapshot, cqe_idx, burst,
                     raw_ring_head, raw_recvs_to_post, mp_sge_idx>>
  BY DEF RawInv, raw_nic_recv
<1>2. PICK P \in Nat : RawAt(P)
  BY DEF RawInv
<1>3. PICK s \in Nat \ {0} : s = kStridesPerWQE
  BY RawSizes
<1>4. PICK d \in Nat \ {0} : d = kRecvCQDepth
  BY RawSizes
<1>5. PICK c \in Nat \ {0} : c = kCQESnapshotCycle
  BY RawSizes
<1>6. /\ nic_pkts = P % c /\ stride = P % s /\ P >= c
      /\ \A q \in Nat : P - d <= q /\ q < P => cqe[q % d] = Snap(q)
  BY <1>2, <1>3, <1>4, <1>5 DEF RawAt
<1>7. /\ P - unread \in Nat /\ P - d \in Nat /\ unread \in Nat /\ burst \in Nat
      /\ P + 1 - unread' = P - unread
  <2>1. /\ P - unread \in Nat /\ P - d \in Nat /\ unread \in Nat /\ burst \in Nat
    BY <1>1, <1>2, <1>4, RawRange
  <2> QED BY ONLY <1>1, <2>1, P \in Nat
<1>8. nic_pkts' = (P + 1) % c
  <2>1. nic_pkts' = (nic_pkts + 1) % c
    BY <1>5 DEF raw_nic_recv
  <2>2. ((P % c) + 1) % c = (P + 1) % c
    BY ModAdd
  <2> QED BY <1>6, <2>1, <2>2
<1>9. stride' = (P + 1) % s
  <2>1. stride' = (stride + 1) % s
    BY <1>3 DEF raw_nic_recv
  <2>2. ((P % s) + 1) % s = (P + 1) % s
    BY ModAdd
  <2> QED BY <1>6, <2>1, <2>2
<1>10. cqe' = [cqe EXCEPT ![P % d] = Snap(P)]
  <2>1. PICK k \in Nat \ {0} : c = d * k
    BY <1>4, <1>5, RawDivides
  <2>2. (P % c) % d = P % d
    BY <2>1, ModMod
  <2> QED BY <1>4, <1>5, <1>6, <2>2 DEF raw_nic_recv, Snap
<1>11. P % d \in 0..d - 1 /\ cqe \in [0..d - 1 -> Snapshot] /\ Snap(P) \in Snapshot
  BY <1>1, <1>4, ModBasic, SnapFacts DEF RawTypeOK
<1>12. ASSUME NEW q \in Nat, P + 1 - d <= q, q < P + 1 PROVE cqe'[q % d] = Snap(q)
  <2>1. q % d \in 0..d - 1
    BY ModBasic
  <2>2. CASE q = P
    BY <1>10, <1>11, <2>2
  <2>3. CASE q # P
    <3>1. q <= P /\ P - q < d /\ q < P /\ P - d <= q
      BY <1>12, <2>3
    <3>2. q % d # P % d
      BY ONLY <2>3, <3>1, ModClose, d \in Nat \ {0}, q \in Nat, P \in Nat
    <3>3. cqe[q % d] = Snap(q)
      BY <1>6, <3>1
    <3> QED BY <1>10, <1>11, <2>1, <3>2, <3>3
  <2> QED BY <2>2, <2>3
<1>13. mp_rq \in Seq(0 .. kRawRQDepth - 1) /\ Len(mp_rq) \in Nat \ {0}
  BY <1>1 DEF RawTypeOK
<1>14. PICK a \in Nat : a = P \div s
  BY ModBasic
<1>15. /\ (P + 1) % s = IF P % s = s - 1 THEN 0 ELSE (P % s) + 1
       /\ (P + 1) \div s = IF P % s = s - 1 THEN a + 1 ELSE a
  BY <1>14, ModNext, DivNext
<1>16. P % s \in 0..s - 1
  BY ModBasic
<1>17. /\ \A i \in 1..Len(mp_rq) : mp_rq[i] = (a + i - 1) % kRawRQDepth
       /\ mp_sge_idx = (a + Len(mp_rq)) % kRawRQDepth
  BY <1>2, <1>3, <1>14 DEF RawAt
<1>18. /\ mp_rq' \in Seq(0 .. kRawRQDepth - 1)
       /\ \A i \in 1..Len(mp_rq') : mp_rq'[i] = ((P + 1) \div s + i - 1) % kRawRQDepth
       /\ mp_sge_idx' = ((P + 1) \div s + Len(mp_rq')) % kRawRQDepth
       /\ Len(mp_rq') = IF P % s = s - 1 THEN Len(mp_rq) - 1 ELSE Len(mp_rq)
       /\ stride' # 0 => mp_rq' # <<>>
  <2>1. CASE P % s = s - 1
    <3>1. stride' = 0 /\ mp_rq' = Tail(mp_rq) /\ (P + 1) \div s = a + 1
      BY <1>9, <1>15, <2>1 DEF raw_nic_recv
    <3>2. /\ Tail(mp_rq) \in Seq(0 .. kRawRQDepth - 1) /\ Len(Tail(mp_rq)) = Len(mp_rq) - 1
          /\ \A i \in 1..Len(mp_rq) - 1 : Tail(mp_rq)[i] = mp_rq[i + 1]
      BY <1>13
    <3>3. ASSUME NEW i \in 1..Len(mp_rq) - 1
          PROVE  mp_rq[i + 1] = (a + 1 + i - 1) % kRawRQDepth
      <4>1. i + 1 \in 1..Len(mp_rq) /\ a + (i + 1) - 1 = a + 1 + i - 1
        BY <1>13
      <4> QED BY <1>17, <4>1
    <3>4. a + 1 + (Len(mp_rq) - 1) = a + Len(mp_rq)
      BY <1>13
    <3> QED BY <1>1, <1>17, <2>1, <3>1, <3>2, <3>3, <3>4
  <2>2. CASE P % s # s - 1
    <3>1. stride' # 0 /\ mp_rq' = mp_rq /\ (P + 1) \div s = a
      BY <1>9, <1>15, <1>16, <2>2 DEF raw_nic_recv
    <3> QED BY <1>1, <1>13, <1>17, <2>2, <3>1
  <2> QED BY <2>1, <2>2
<1>19. RawTypeOK'
  <2>1. cqe' \in [0 .. kRecvCQDepth - 1 -> Snapshot]
    BY <1>4, <1>10, <1>11
  <2>2. nic_pkts' \in 0 .. kCQESnapshotCycle - 1 /\ stride' \in 0 .. kStridesPerWQE - 1
    BY <1>3, <1>5, <1>8, <1>9, ModBasic
  <2>3. mp_rq' \in Seq(0 .. kRawRQDepth - 1) /\ unread' \in Int
    BY <1>1, <1>7, <1>18
  <2> QED BY <1>1, <2>1, <2>2, <2>3 DEF RawTypeOK
<1>20. RawCount'
  <2>1. PICK n \in Nat : n = Len(mp_rq)
    BY <1>13
  <2>2. (n - 1) * s = n * s - s /\ n * s \in Int
    BY ONLY n \in Nat, s \in Nat
  <2>3. n * s - stride + burst + unread + raw_recvs_to_post = kNumRxRingEntries
    BY <1>1, <1>3, <2>1 DEF RawCount, StridesConserved
  <2>4. Len(mp_rq') * s - stride' = n * s - stride - 1
    <3>1. CASE P % s = s - 1
      <4>1. Len(mp_rq') = n - 1 /\ stride' = 0 /\ stride = s - 1
        BY <1>6, <1>9, <1>15, <1>18, <2>1, <3>1
      <4> QED BY ONLY <2>2, <4>1, s \in Nat, n \in Nat
    <3>2. CASE P % s # s - 1
      <4>1. Len(mp_rq') = n /\ stride' = stride + 1 /\ stride \in Nat
        BY <1>6, <1>9, <1>15, <1>16, <1>18, <2>1, <3>2
      <4> QED BY ONLY <2>2, <4>1, s \in Nat, n \in Nat
    <3> QED BY <3>1, <3>2
  <2>5. StridesConserved'
    <3>1. burst' = burst /\ raw_recvs_to_post' = raw_recvs_to_post /\ unread' = unread + 1
          /\ burst \in Nat /\ unread \in Nat /\ raw_recvs_to_post \in Nat
      BY <1>1, <1>7 DEF RawTypeOK
    <3>2. stride \in Int /\ kNumRxRingEntries \in Int
      BY <1>1, RawSizes DEF RawTypeOK
    <3>3. Len(mp_rq') * s - stride' + burst' + unread' + raw_recvs_to_post' = kNumRxRingEntries
      BY ONLY <2>2, <2>3, <2>4, <3>1, <3>2
    <3> QED BY <1>3, <3>3 DEF StridesConserved
  <2> QED BY <1>1, <1>7, <1>18, <2>5 DEF RawCount
<1>21. PICK Q \in Nat : Q = P + 1
  OBVIOUS
<1>22. Q - unread' = P - unread /\ unread' \in Nat
  BY <1>1, <1>7, <1>21
<1>23. RawAt(Q)'
  <2>1. ReadBy(Q)'
    <3>1. ASSUME NEW q \in Nat, Seen(P, q) PROVE Seen(Q, q)'
      <4>1. /\ q % kRecvCQDepth = (P - unread) % kRecvCQDepth
            /\ P - unread - kRecvCQDepth <= q /\ q < P
        BY <3>1 DEF Seen
      <4>2. q < Q
        BY <1>21, <4>1
      <4> QED BY <1>22, <4>1, <4>2 DEF Seen
    <3> QED BY <1>1, <1>2, <3>1 DEF RawAt, ReadBy
  <2>2. /\ prev_snapshot' = Snap(Q - unread' - 1) /\ cqe_idx' = (Q - unread') % kRecvCQDepth
        /\ raw_ring_head' = (Q - unread' - burst') % kNumRxRingEntries
    BY <1>1, <1>2, <1>22 DEF RawAt
  <2>3. \A q \in Nat : Q - kRecvCQDepth <= q /\ q < Q => cqe'[q % kRecvCQDepth] = Snap(q)
    BY <1>4, <1>12, <1>21
  <2>4. /\ \A i \in 1..Len(mp_rq') :
              mp_rq'[i] = (Q \div kStridesPerWQE + i - 1) % kRawRQDepth
        /\ mp_sge_idx' = (Q \div kStridesPerWQE + Len(mp_rq')) % kRawRQDepth
    BY <1>3, <1>18, <1>21
  <2>5. /\ Q >= kCQESnapshotCycle /\ nic_pkts' = Q % kCQESnapshotCycle
        /\ stride' = Q % kStridesPerWQE
    BY <1>3, <1>5, <1>6, <1>8, <1>9, <1>21
  <2> QED BY <2>1, <2>2, <2>3, <2>4, <2>5 DEF RawAt
<1> QED BY <1>19, <1>20, <1>23 DEF RawInv

LEMMA DivMono ==
    ASSUME NEW d \in Nat \ {0}, NEW a \in Nat, NEW b \in Nat, a <= b
    PROVE  a \div d <= b \div d /\ d * ((b \div d) - (a \div d)) <= b - a + d - 1
<1>1. PICK p \in Nat : p = a \div d
  BY ModBasic
<1>2. PICK q \in Nat : q = b \div d
  BY ModBasic
<1>3. PICK m \in 0..d - 1 : m = a % d
  BY ModBasic
<1>4. PICK n \in 0..d - 1 : n = b % d
  BY ModBasic
<1>5. a = d * p + m /\ b = d * q + n
  BY <1>1, <1>2, <1>3, <1>4, ModBasic
<1>6. d * (q - p) = d * q - d * p /\ d * q \in Int /\ d * p \in Int
  BY ONLY d \in Nat, p \in Nat, q \in Nat
<1>7. d * (q - p) = (b - a) + m - n
  BY ONLY <1>5, <1>6, a \in Nat, b \in Nat, m \in 0..d - 1, n \in 0..d - 1, d \in Nat
<1>8. p <= q
  <2>1. q - p <= -1 => d * (q - p) <= d * (-1)
    BY ONLY d \in Nat, p \in Nat, q \in Nat
  <2>2. q - p <= -1 => d * (q - p) <= -d
    BY <2>1
  <2>3. d * (q - p) > -d
    BY ONLY <1>7, a \in Nat, b \in Nat, a <= b, m \in 0..d - 1, n \in 0..d - 1, d \in Nat
  <2> QED BY ONLY <2>2, <2>3, <1>6, d \in Nat, p \in Nat, q \in Nat
<1>9. d * (q - p) <= b - a + d - 1
  BY ONLY <1>7, a \in Nat, b \in Nat, m \in 0..d - 1, n \in 0..d - 1, d \in Nat
<1> QED BY <1>1, <1>2, <1>8, <1>9

\* The counter read between two reads of the same id belongs to that id: the CQE
\* cannot have gone through all the others meanwhile.
LEMMA SameId ==
    ASSUME NEW q \in Nat, NEW r \in Nat, NEW t \in Nat, q <= r, r <= t,
           t - q <= kCQESnapshotCycle - kStridesPerWQE,
           Snap(q).wqe_id = Snap(t).wqe_id
    PROVE  Snap(q).wqe_id = Snap(r).wqe_id
<1>1. PICK s \in Nat \ {0} : s = kStridesPerWQE
  BY RawSizes
<1>2. PICK w \in Nat \ {0} : w = WqeIds
  BY RawSizes
<1>3. kCQESnapshotCycle = s * w
  BY <1>1, <1>2, RawSizes
<1>4. PICK a \in Nat : a = q \div s
  BY ModBasic
<1>5. PICK b \in Nat : b = r \div s
  BY ModBasic
<1>6. PICK e \in Nat : e = t \div s
  BY ModBasic
<1>7. a % w = e % w
  BY <1>1, <1>2, <1>4, <1>6, SnapFacts
<1>8. q <= t
  BY ONLY q \in Nat, r \in Nat, t \in Nat, q <= r, r <= t
<1>9. a <= b /\ b <= e /\ a <= e
  <2>1. a <= b
    BY <1>4, <1>5, DivMono
  <2>2. b <= e
    BY <1>5, <1>6, DivMono
  <2> QED BY <2>1, <2>2
<1>10. s * (e - a) <= t - q + s - 1
  BY <1>4, <1>6, <1>8, DivMono
<1>11. s * (e - a) < s * w
  <2>1. s * (e - a) \in Int /\ s * w \in Int
    BY ONLY s \in Nat, w \in Nat, e \in Nat, a \in Nat
  <2>2. t - q <= s * w - s
    BY <1>1, <1>3
  <2> QED BY ONLY <1>10, <2>1, <2>2, s \in Nat, t \in Nat, q \in Nat
<1>12. e - a < w
  <2>1. e - a >= w => s * (e - a) >= s * w
    BY ONLY s \in Nat, w \in Nat, e \in Nat, a \in Nat
  <2>2. s * (e - a) \in Int /\ s * w \in Int
    BY ONLY s \in Nat, w \in Nat, e \in Nat, a \in Nat
  <2> QED BY ONLY <1>11, <2>1, <2>2, w \in Nat, e \in Nat, a \in Nat
<1>13. a = e
  BY ONLY <1>7, <1>9, <1>12, ModClose, w \in Nat \ {0}, a \in Nat, e \in Nat
<1>14. a = b
  BY <1>9, <1>13
<1> QED BY ZenonT(60), <1>1, <1>2, <1>4, <1>5, <1>14, SnapFacts

\* rx_burst reports the packets up to one whose CQE it really saw.
LEMMA RawRxBurstKeepsInv ==
    ASSUME RawInv, raw_rx_burst
    PROVE  RawInv'
<1>1. /\ RawTypeOK /\ RawCount /\ raw_pc = "counter" /\ cqe[cqe_idx].wqe_id = id_0
      /\ id_0' = 0 /\ ctr_0' = 0 /\ burst = 0
      /\ UNCHANGED <<cqe, nic_pkts, mp_rq, stride, raw_ring_head, raw_recvs_to_post, mp_sge_idx>>
  BY DEF RawInv, RawCount, raw_rx_burst
<1>2. PICK P \in Nat : RawAt(P)
  BY DEF RawInv
<1>3. PICK q \in Nat :
        /\ Seen(P, q) /\ id_0 = Snap(q).wqe_id
        /\ \E r \in Nat : q <= r /\ Seen(P, r) /\ ctr_0 = Snap(r).wqe_counter
  BY <1>1, <1>2 DEF RawAt, ReadBy
<1>4. PICK r \in Nat : q <= r /\ Seen(P, r) /\ ctr_0 = Snap(r).wqe_counter
  BY <1>3
<1>5. PICK t \in Nat : Seen(P, t) /\ cqe[cqe_idx] = Snap(t) /\ r <= t
  BY <1>1, <1>2, <1>4, Latest
<1>6. PICK R \in Nat : R = P - unread
  BY <1>1, <1>2, RawRange
<1>7. /\ unread \in Nat /\ unread <= kNumRxRingEntries /\ kNumRxRingEntries \in Nat
      /\ kRecvCQDepth \in Nat \ {0} /\ R - kRecvCQDepth \in Nat
      /\ kCQESnapshotCycle \in Nat /\ kStridesPerWQE \in Nat
      /\ kNumRxRingEntries + kStridesPerWQE + kRecvCQDepth <= kCQESnapshotCycle
  BY <1>1, <1>2, <1>6, RawRange, RawSizes
<1>8. /\ R - kRecvCQDepth <= q /\ t < P /\ r < P
      /\ r % kRecvCQDepth = R % kRecvCQDepth
  BY <1>3, <1>4, <1>5, <1>6 DEF Seen
<1>9. t - q <= kCQESnapshotCycle - kStridesPerWQE
  BY ONLY <1>6, <1>7, <1>8, P \in Nat, R \in Nat, t \in Nat, q \in Nat
<1>10. id_0 = Snap(r).wqe_id
  BY <1>1, <1>3, <1>4, <1>5, <1>9, SameId
<1>11. [wqe_id |-> id_0, wqe_counter |-> ctr_0] = Snap(r)
  BY <1>4, <1>10, SnapFacts
<1> DEFINE delta == get_cqe_cycle_delta(prev_snapshot, Snap(r))
<1>12. \/ r < R /\ delta >= kNumRxRingEntries
       \/ r >= R /\ delta = r - R + 1 /\ delta \in 1..unread /\ delta < kNumRxRingEntries
  BY <1>1, <1>2, <1>4, <1>6, Inferred
<1>13. IF delta = 0 \/ delta >= kNumRxRingEntries
       THEN raw_pc' = "idle" /\ UNCHANGED <<prev_snapshot, cqe_idx, burst, unread>>
       ELSE /\ raw_pc' = "process" /\ prev_snapshot' = Snap(r)
            /\ cqe_idx' = (cqe_idx + 1) % kRecvCQDepth
            /\ burst' = delta /\ unread' = unread - delta
  BY <1>11 DEF raw_rx_burst
<1>14. 0 \in 0 .. WqeIds - 1 /\ 0 \in 0 .. kStridesPerWQE - 1
  BY RawSizes
<1> HIDE DEF delta
<1>15. CASE r < R
  <2>1. raw_pc' = "idle" /\ UNCHANGED <<prev_snapshot, cqe_idx, burst, unread>>
    BY <1>7, <1>12, <1>13, <1>15
  <2>2. ReadBy(P)'
    BY <2>1 DEF ReadBy
  <2>3. RawTypeOK'
    BY <1>1, <1>14, <2>1 DEF RawTypeOK
  <2>4. RawCount'
    BY <1>1, <2>1 DEF RawCount, StridesConserved
  <2> QED BY <1>1, <1>2, <2>1, <2>2, <2>3, <2>4, RawAtSame DEF RawInv
<1>16. CASE r >= R
  <2>1. delta = r - R + 1 /\ delta \in 1..unread /\ delta < kNumRxRingEntries /\ delta \in Nat
    BY <1>7, <1>12, <1>16
  <2>2. /\ raw_pc' = "process" /\ prev_snapshot' = Snap(r)
        /\ cqe_idx' = (cqe_idx + 1) % kRecvCQDepth
        /\ burst' = delta /\ unread' = unread - delta
    BY <1>7, <1>13, <2>1
  <2>3. unread' \in Nat /\ P - unread' = r + 1 /\ P - unread' - burst' = R
    BY ONLY <1>6, <1>7, <2>1, <2>2, P \in Nat, R \in Nat, r \in Nat
  <2>4. cqe_idx' = (r + 1) % kRecvCQDepth
    <3>1. cqe_idx = r % kRecvCQDepth
      BY <1>2, <1>6, <1>8 DEF RawAt
    <3>2. ((r % kRecvCQDepth) + 1) % kRecvCQDepth = (r + 1) % kRecvCQDepth
      BY <1>7, ModAdd
    <3> QED BY <2>2, <3>1, <3>2
  <2>5. RawTypeOK'
    <3>1. cqe_idx' \in 0 .. kRecvCQDepth - 1
      BY <1>7, <2>4, ModBasic
    <3>2. burst' \in 0 .. kNumRxRingEntries /\ unread' \in Int
      BY <1>7, <2>1, <2>2, <2>3
    <3>3. prev_snapshot' \in Snapshot
      BY <2>2, SnapFacts
    <3> QED BY <1>1, <1>14, <2>2, <3>1, <3>2, <3>3 DEF RawTypeOK
  <2>6. RawCount'
    <3>1. burst' + unread' = burst + unread
      BY ONLY <1>1, <1>7, <2>1, <2>2
    <3>2. Len(mp_rq) * kStridesPerWQE - stride + burst + unread + raw_recvs_to_post
            = kNumRxRingEntries
      BY <1>1 DEF RawCount, StridesConserved
    <3>3. PICK x \in Int : x = Len(mp_rq) * kStridesPerWQE - stride
      BY <1>1, RawRoom
    <3>4. x + burst' + unread' + raw_recvs_to_post = kNumRxRingEntries
      <4>1. burst \in Nat /\ burst' \in Nat /\ unread \in Nat /\ unread' \in Nat
            /\ raw_recvs_to_post \in Nat
        BY <1>1, <1>7, <2>1, <2>2, <2>3 DEF RawTypeOK
      <4>2. x + burst + unread + raw_recvs_to_post = kNumRxRingEntries
        BY <3>2, <3>3
      <4>3. PICK u \in Nat : u = unread
        BY <4>1
      <4>4. PICK d \in Nat : d = delta
        BY <2>1
      <4>5. PICK y \in Nat : y = raw_recvs_to_post
        BY <4>1
      <4>6. x + 0 + u + y = kNumRxRingEntries
        BY <1>1, <4>2, <4>3, <4>5
      <4>7. x + d + (u - d) + y = x + 0 + u + y
        BY ONLY x \in Int, d \in Nat, u \in Nat, y \in Nat
      <4>8. burst' = d /\ unread' = u - d
        BY <2>2, <4>3, <4>4
      <4> QED BY <4>5, <4>6, <4>7, <4>8
    <3>5. StridesConserved'
      BY <1>1, <3>3, <3>4 DEF StridesConserved
    <3> QED BY <1>1, <2>2, <2>3, <3>5 DEF RawCount
  <2>7. RawAt(P)'
    <3>1. P - unread' - 1 = r
      <4>1. PICK u \in Nat : u = unread'
        BY <2>3
      <4>2. P - u = r + 1
        BY <2>3, <4>1
      <4>3. P - u - 1 = r
        BY ONLY <4>2, P \in Nat, r \in Nat, u \in Nat
      <4> QED BY <4>1, <4>3
    <3>2. prev_snapshot' = Snap(P - unread' - 1) /\ cqe_idx' = (P - unread') % kRecvCQDepth
      BY <2>2, <2>3, <2>4, <3>1
    <3>3. raw_ring_head = (P - unread - burst) % kNumRxRingEntries /\ P - unread - burst = R
      BY <1>1, <1>2, <1>6 DEF RawAt
    <3>4. raw_ring_head' = (P - unread' - burst') % kNumRxRingEntries
      BY <1>1, <2>3, <3>3
    <3>5. ReadBy(P)'
      BY <2>2 DEF ReadBy
    <3> QED BY <1>1, <1>2, <3>2, <3>4, <3>5 DEF RawAt
  <2> QED BY <2>5, <2>6, <2>7 DEF RawInv
<1> QED BY <1>15, <1>16

\* process_comps_st reads the burst, and post_recvs posts at most one RECV.
LEMMA RawProcessKeepsInv ==
    ASSUME RawInv, raw_process_comps_st
    PROVE  RawInv'
<1>1. /\ RawTypeOK /\ RawCount /\ burst' = 0 /\ raw_pc' = "idle"
      /\ raw_ring_head' = (raw_ring_head + burst) % kNumRxRingEntries /\ raw_post_recvs
      /\ UNCHANGED <<cqe, nic_pkts, stride, id_0, ctr_0, prev_snapshot, cqe_idx, unread>>
  BY DEF RawInv, raw_process_comps_st
<1>2. PICK P \in Nat : RawAt(P)
  BY DEF RawInv
<1>3. PICK s \in Nat \ {0} : s = kStridesPerWQE
  BY RawSizes
<1>4. /\ P - unread \in Nat /\ P - unread - burst \in Nat /\ unread \in Nat /\ burst \in Nat
  BY <1>1, <1>2, RawRange
<1>5. /\ kNumRxRingEntries \in Nat \ {0} /\ s <= kNumRxRingEntries /\ kRawRQDepth \in Nat \ {0}
  BY <1>3, RawSizes
<1>6. raw_ring_head' = (P - unread) % kNumRxRingEntries
  <2>1. PICK x \in Nat : x = P - unread - burst
    BY <1>4
  <2>2. raw_ring_head = x % kNumRxRingEntries
    BY <1>2, <2>1 DEF RawAt
  <2>3. ((x % kNumRxRingEntries) + burst) % kNumRxRingEntries = (x + burst) % kNumRxRingEntries
    BY <1>4, <1>5, ModAdd
  <2>4. x + burst = P - unread
    BY <1>4, <2>1
  <2> QED BY <1>1, <2>2, <2>3, <2>4
<1>7. PICK n \in Nat : n = Len(mp_rq)
  BY <1>1, RawRoom
<1>8. PICK L \in Nat : L = n * s
  OBVIOUS
<1>9. /\ raw_recvs_to_post \in Nat /\ stride \in Nat /\ stride < s
      /\ mp_rq = <<>> => L = 0
      /\ mp_rq # <<>> => L >= s
      /\ unread + burst + raw_recvs_to_post <= kNumRxRingEntries
      /\ L - stride + burst + unread + raw_recvs_to_post = kNumRxRingEntries
      /\ stride # 0 => mp_rq # <<>>
  BY <1>1, <1>3, <1>7, <1>8, RawRoom DEF RawCount, StridesConserved
<1>10. mp_rq \in Seq(0 .. kRawRQDepth - 1) /\ mp_sge_idx \in 0 .. kRawRQDepth - 1
  BY <1>1 DEF RawTypeOK
<1>11. PICK a \in Nat : a = P \div s
  BY ModBasic
<1>12. /\ \A i \in 1..n : mp_rq[i] = (a + i - 1) % kRawRQDepth
       /\ mp_sge_idx = (a + n) % kRawRQDepth
  BY <1>2, <1>3, <1>7, <1>11 DEF RawAt
<1>13. /\ mp_rq' \in Seq(0 .. kRawRQDepth - 1) /\ mp_sge_idx' \in 0 .. kRawRQDepth - 1
       /\ raw_recvs_to_post' \in Nat /\ raw_recvs_to_post' < kNumRxRingEntries
       /\ Len(mp_rq') * s - stride + unread + raw_recvs_to_post' = kNumRxRingEntries
       /\ stride # 0 => mp_rq' # <<>>
       /\ \A i \in 1..Len(mp_rq') : mp_rq'[i] = (a + i - 1) % kRawRQDepth
       /\ mp_sge_idx' = (a + Len(mp_rq')) % kRawRQDepth
  <2>1. CASE raw_recvs_to_post + burst < s
    <3>1. /\ raw_recvs_to_post' = raw_recvs_to_post + burst /\ mp_rq' = mp_rq
          /\ mp_sge_idx' = mp_sge_idx
      BY <1>1, <1>3, <2>1 DEF raw_post_recvs
    <3>2. L - stride + unread + raw_recvs_to_post' = kNumRxRingEntries
      BY ONLY <1>4, <1>5, <1>9, <3>1, L \in Nat
    <3>3. raw_recvs_to_post' \in Nat /\ raw_recvs_to_post' < kNumRxRingEntries
      BY ONLY <1>4, <1>5, <1>9, <2>1, <3>1, s \in Nat
    <3> QED BY <1>7, <1>8, <1>9, <1>10, <1>12, <3>1, <3>2, <3>3
  <2>2. CASE ~(raw_recvs_to_post + burst < s)
    <3>1. /\ raw_recvs_to_post' = raw_recvs_to_post + burst - s
          /\ mp_rq' = Append(mp_rq, mp_sge_idx)
          /\ mp_sge_idx' = (mp_sge_idx + 1) % kRawRQDepth
      <4>1. raw_post_recvs /\ ~(raw_recvs_to_post + burst < kStridesPerWQE)
        BY <1>1, <1>3, <2>2
      <4>2. /\ raw_recvs_to_post' = (raw_recvs_to_post + burst) - kStridesPerWQE
            /\ mp_rq' = Append(mp_rq, mp_sge_idx)
            /\ mp_sge_idx' = (mp_sge_idx + 1) % kRawRQDepth
        <5> DEFINE n0 == raw_recvs_to_post + burst
        <5>1. IF n0 < kStridesPerWQE
              THEN raw_recvs_to_post' = n0 /\ UNCHANGED <<mp_rq, mp_sge_idx>>
              ELSE /\ mp_rq' = Append(mp_rq, mp_sge_idx)
                   /\ mp_sge_idx' = (mp_sge_idx + 1) % kRawRQDepth
                   /\ raw_recvs_to_post' = n0 - kStridesPerWQE
          BY ONLY <4>1, Zenon DEF raw_post_recvs
        <5>2. ~(n0 < kStridesPerWQE)
          BY <4>1
        <5> HIDE DEF n0
        <5>3. /\ mp_rq' = Append(mp_rq, mp_sge_idx)
              /\ mp_sge_idx' = (mp_sge_idx + 1) % kRawRQDepth
              /\ raw_recvs_to_post' = n0 - kStridesPerWQE
          BY ONLY <5>1, <5>2, Zenon
        <5> QED BY ONLY <5>3, Zenon DEF n0
      <4>3. raw_recvs_to_post + burst - s = (raw_recvs_to_post + burst) - s
        BY <1>4, <1>9
      <4> QED BY <1>3, <4>2, <4>3
    <3>2. /\ mp_rq' \in Seq(0 .. kRawRQDepth - 1) /\ Len(mp_rq') = n + 1 /\ mp_rq' # <<>>
          /\ mp_rq'[n + 1] = mp_sge_idx /\ \A i \in 1..n : mp_rq'[i] = mp_rq[i]
      BY <1>7, <1>10, <3>1
    <3>3. (n + 1) * s = L + s
      BY ONLY <1>8, n \in Nat, s \in Nat
    <3>4. L + s - stride + unread + raw_recvs_to_post' = kNumRxRingEntries
      BY ONLY <1>4, <1>5, <1>9, <3>1, L \in Nat, s \in Nat
    <3>5. raw_recvs_to_post' \in Nat /\ raw_recvs_to_post' < kNumRxRingEntries
      <4>1. L - stride >= 0
        BY ONLY <1>9, L \in Nat, s \in Nat
      <4> QED BY ONLY <1>4, <1>5, <1>9, <2>2, <3>1, <4>1, L \in Nat, s \in Nat \ {0}
    <3>6. mp_sge_idx' = (a + n + 1) % kRawRQDepth /\ mp_sge_idx' \in 0 .. kRawRQDepth - 1
      <4>1. PICK y \in Nat : y = a + n
        OBVIOUS
      <4>2. ((y % kRawRQDepth) + 1) % kRawRQDepth = (y + 1) % kRawRQDepth
        BY <1>5, ModAdd
      <4>3. (y + 1) % kRawRQDepth \in 0 .. kRawRQDepth - 1
        BY <1>5, ModBasic
      <4> QED BY <1>12, <3>1, <4>1, <4>2, <4>3
    <3>7. \A i \in 1..n + 1 : mp_rq'[i] = (a + i - 1) % kRawRQDepth
      <4>1. a + (n + 1) - 1 = a + n
        OBVIOUS
      <4>2. mp_rq'[n + 1] = (a + (n + 1) - 1) % kRawRQDepth
        BY <1>12, <3>2, <4>1
      <4>3. \A i \in 1..n : mp_rq'[i] = (a + i - 1) % kRawRQDepth
        BY <1>12, <3>2
      <4>4. \A i \in 1..n + 1 : i \in 1..n \/ i = n + 1
        OBVIOUS
      <4> QED BY <4>2, <4>3, <4>4
    <3>8. a + (n + 1) = a + n + 1
      OBVIOUS
    <3>9. Len(mp_rq') * s - stride + unread + raw_recvs_to_post' = kNumRxRingEntries
      <4>1. Len(mp_rq') * s = L + s
        BY <3>2, <3>3
      <4>2. PICK z \in Int : z = Len(mp_rq') * s
        BY <4>1
      <4>3. z - stride + unread + raw_recvs_to_post' = kNumRxRingEntries
        <5>1. z = L + s
          BY <4>1, <4>2
        <5>2. PICK y \in Nat : y = raw_recvs_to_post'
          BY <3>5
        <5>3. PICK u \in Nat : u = unread
          BY <1>4
        <5>4. PICK m \in Nat : m = stride
          BY <1>9
        <5>5. L + s - m + u + y = kNumRxRingEntries
          BY <3>4, <5>2, <5>3, <5>4
        <5>6. z - m + u + y = kNumRxRingEntries
          BY ONLY <5>1, <5>5, z \in Int, L \in Nat, s \in Nat, m \in Nat, u \in Nat,
                  y \in Nat
        <5> QED BY <5>2, <5>3, <5>4, <5>6
      <4> QED BY <4>2, <4>3
    <3>10. mp_sge_idx' = (a + Len(mp_rq')) % kRawRQDepth
      BY <3>2, <3>6, <3>8
    <3>11. \A i \in 1..Len(mp_rq') : mp_rq'[i] = (a + i - 1) % kRawRQDepth
      BY <3>2, <3>7
    <3> QED BY <3>2, <3>5, <3>6, <3>9, <3>10, <3>11
  <2> QED BY <2>1, <2>2
<1>14. RawTypeOK'
  <2>1. raw_ring_head' \in 0 .. kNumRxRingEntries - 1
    BY <1>4, <1>5, <1>6, ModBasic
  <2>2. burst' \in 0 .. kNumRxRingEntries
    BY <1>1, <1>5
  <2> QED BY <1>1, <1>13, <2>1, <2>2 DEF RawTypeOK
<1>15. RawCount'
  <2>1. StridesConserved'
    <3>1. PICK m \in Nat : m = Len(mp_rq')
      BY <1>13
    <3>2. PICK x \in Nat : x = m * s
      OBVIOUS
    <3>3. x - stride + unread + raw_recvs_to_post' = kNumRxRingEntries
      BY <1>13, <3>1, <3>2
    <3>4. x - stride' + burst' + unread' + raw_recvs_to_post' = kNumRxRingEntries
      BY <1>1, <1>4, <1>9, <1>13, <3>3
    <3> QED BY <1>3, <3>1, <3>2, <3>4 DEF StridesConserved
  <2> QED BY <1>1, <1>4, <1>13, <2>1 DEF RawCount
<1>16. RawAt(P)'
  <2>1. ReadBy(P)'
    BY <1>1 DEF ReadBy
  <2>2. raw_ring_head' = (P - unread' - burst') % kNumRxRingEntries
    <3>1. P - unread' - burst' = P - unread
      BY <1>1, <1>4
    <3> QED BY <1>6, <3>1
  <2>3. /\ \A i \in 1..Len(mp_rq') :
             mp_rq'[i] = (P \div kStridesPerWQE + i - 1) % kRawRQDepth
        /\ mp_sge_idx' = (P \div kStridesPerWQE + Len(mp_rq')) % kRawRQDepth
    BY <1>3, <1>11, <1>13
  <2> QED BY <1>1, <1>2, <2>1, <2>2, <2>3 DEF RawAt
<1> QED BY <1>14, <1>15, <1>16 DEF RawInv

LEMMA RawNextInv == RawInv /\ [RawNext]_rawvars => RawInv'
<1> SUFFICES ASSUME RawInv, [RawNext]_rawvars PROVE RawInv'
  OBVIOUS
<1>1. CASE raw_nic_recv
  BY <1>1, RawNicKeepsInv
<1>2. CASE read_wqe_id_0 \/ read_wqe_counter_0 \/ snapshot_retry
  BY <1>2, RawReadKeepsInv
<1>3. CASE raw_rx_burst
  BY <1>3, RawRxBurstKeepsInv
<1>4. CASE raw_process_comps_st
  BY <1>4, RawProcessKeepsInv
<1>5. CASE UNCHANGED rawvars
  <2>1. RawTypeOK' /\ RawCount'
    BY <1>5 DEF rawvars, RawInv, RawTypeOK, RawCount, StridesConserved
  <2>2. PICK P \in Nat : RawAt(P)
    BY DEF RawInv
  <2>3. ReadBy(P)'
    BY <1>5, <2>2 DEF rawvars, RawAt, ReadBy, Seen
  <2>4. RawAt(P)'
    BY <1>5, <2>2, <2>3, RawAtSame DEF rawvars
  <2> QED BY <2>1, <2>4 DEF RawInv
<1> QED BY <1>1, <1>2, <1>3, <1>4, <1>5 DEF RawNext, RawThread

\* The inductive invariant of the multi-packet RECVs holds.
THEOREM RawInvariance == RawSpec => []RawInv
<1> QED BY RawInitInv, RawNextInv, PTL DEF RawSpec

\* The CQE that rx_burst looks at is that of the first packet not yet
\* reported, or of a later one, if there is such a packet.
LEMMA RawVisible ==
    ASSUME RawTypeOK, RawCount, NEW P \in Nat, RawAt(P)
    PROVE  CqeVisible
<1>1. PICK r \in Nat :
        /\ Seen(P, r) /\ cqe[cqe_idx] = Snap(r)
        /\ \A q \in Nat : Seen(P, q) => q <= r
  BY Latest
<1>2. PICK R \in Nat : R = P - unread
  BY RawRange
<1>3. unread \in Nat /\ unread <= kNumRxRingEntries /\ kNumRxRingEntries \in Nat
      /\ kRecvCQDepth \in Nat
  BY RawRange, RawSizes
<1> DEFINE delta == get_cqe_cycle_delta(prev_snapshot, Snap(r))
<1>4. \/ r < R /\ delta >= kNumRxRingEntries
      \/ r >= R /\ delta \in 1..unread /\ delta < kNumRxRingEntries
  BY <1>1, <1>2, Inferred
<1> HIDE DEF delta
<1>5. CASE unread > 0
  <2>1. R % kRecvCQDepth = (P - unread) % kRecvCQDepth
    BY <1>2
  <2>2. P - unread - kRecvCQDepth <= R /\ R < P
    BY <1>2, <1>3, <1>5
  <2>3. R <= r
    BY <1>1, <2>1, <2>2 DEF Seen
  <2>4. delta \in 1 .. kNumRxRingEntries - 1
    BY <1>3, <1>4, <2>3
  <2> QED BY <1>1, <1>5, <2>4 DEF CqeVisible, delta
<1>6. CASE unread = 0
  <2>1. r < R
    BY <1>1, <1>2, <1>6 DEF Seen
  <2>2. delta \notin 1 .. kNumRxRingEntries - 1
    BY <1>3, <1>4, <2>1
  <2>3. ~(unread > 0)
    BY <1>6
  <2> QED BY <1>1, <2>2, <2>3 DEF CqeVisible, delta
<1> QED BY <1>3, <1>5, <1>6

\* The place of the next packet in the ring, seen by the Rpc and by the NIC.
LEMMA RawAgree ==
    ASSUME RawTypeOK, RawCount, NEW P \in Nat, RawAt(P)
    PROVE  StridesAgree
<1> SUFFICES ASSUME mp_rq # <<>>
             PROVE  (raw_ring_head + burst + unread) % kNumRxRingEntries
                       = Head(mp_rq) * kStridesPerWQE + stride
  BY DEF StridesAgree
<1>1. PICK N \in Nat \ {0} : N = kNumRxRingEntries
  BY RawSizes
<1>2. PICK s \in Nat \ {0} : s = kStridesPerWQE
  BY RawSizes
<1>3. PICK k \in Nat \ {0} : k = kRawRQDepth
  BY RawSizes
<1>4. N = k * s /\ N = s * k
  <2>1. N = k * s
    BY <1>1, <1>2, <1>3, RawSizes
  <2>2. k * s = s * k
    OBVIOUS
  <2> QED BY <2>1, <2>2
<1>5. PICK u \in Nat : u = unread
  BY RawRange
<1>6. PICK b \in Nat : b = burst
  BY RawRange
<1>7. PICK x \in Nat : x = P - u - b
  BY <1>5, <1>6, RawRange
<1>8. (raw_ring_head + burst + unread) % N = P % N
  <2>1. raw_ring_head = x % N
    BY <1>1, <1>5, <1>6, <1>7 DEF RawAt
  <2>2. PICK h \in 0..N - 1 : h = x % N
    BY ONLY ModBasic, x \in Nat, N \in Nat \ {0}
  <2>3. b + u \in Nat /\ x + (b + u) = P
    BY ONLY <1>7, x \in Nat, u \in Nat, b \in Nat, P \in Nat
  <2>4. ((x % N) + (b + u)) % N = (x + (b + u)) % N
    BY <2>3, ModAdd
  <2>5. h + b + u = h + (b + u)
    OBVIOUS
  <2>6. raw_ring_head + burst + unread = h + b + u
    BY <1>5, <1>6, <2>1, <2>2
  <2> QED BY <2>2, <2>3, <2>4, <2>5, <2>6
<1>9. PICK y \in 0..N - 1 : y = P % N
  BY ONLY ModBasic, P \in Nat, N \in Nat \ {0}
<1>10. y = s * (y \div s) + (y % s)
  BY ModBasic
<1>11. y \div s = (P \div s) % k
  <2>1. (P % N) \div s = (P \div s) % k
    BY ONLY <1>4, DivOfMod, P \in Nat, N \in Nat \ {0}, s \in Nat \ {0}, k \in Nat \ {0}
  <2> QED BY <1>9, <2>1
<1>12. y % s = P % s
  BY <1>4, <1>9, ModMod
<1>13. PICK a \in Nat : a = P \div s
  BY ModBasic
<1>14. Head(mp_rq) = a % k
  <2>1. mp_rq \in Seq(0 .. kRawRQDepth - 1) /\ 1 \in 1..Len(mp_rq) /\ Head(mp_rq) = mp_rq[1]
    BY DEF RawTypeOK
  <2>2. mp_rq[1] = (P \div kStridesPerWQE + 1 - 1) % kRawRQDepth
    BY <2>1 DEF RawAt
  <2>3. a + 1 - 1 = a
    OBVIOUS
  <2> QED BY <1>2, <1>3, <1>13, <2>1, <2>2, <2>3
<1>15. PICK e \in 0..k - 1 : e = a % k
  BY ONLY ModBasic, a \in Nat, k \in Nat \ {0}
<1>16. stride = P % s
  BY <1>2 DEF RawAt
<1>17. s * e = e * s
  OBVIOUS
<1>18. y = e * s + stride
  BY <1>10, <1>11, <1>12, <1>13, <1>15, <1>16, <1>17
<1> QED BY <1>1, <1>2, <1>8, <1>9, <1>14, <1>15, <1>18

LEMMA RawStridesFollow == RawInv => RawStrides
<1> SUFFICES ASSUME RawInv PROVE RawStrides
  OBVIOUS
<1>1. RawTypeOK /\ RawCount
  BY DEF RawInv
<1>2. PICK P \in Nat : RawAt(P)
  BY DEF RawInv
<1>3. NeverEarly /\ StridesConserved
  BY <1>1 DEF RawCount, NeverEarly
<1>4. NeverStarved
  <2> SUFFICES ASSUME raw_pc = "idle", unread = 0, mp_rq = <<>> PROVE FALSE
    BY DEF NeverStarved
  <2>1. /\ raw_recvs_to_post \in Nat /\ Len(mp_rq) * kStridesPerWQE = 0
        /\ stride = 0 /\ burst = 0 /\ raw_recvs_to_post < kNumRxRingEntries
    BY <1>1, RawRoom DEF RawCount
  <2>2. 0 - 0 + 0 + 0 + raw_recvs_to_post = kNumRxRingEntries
    BY <1>3, <2>1 DEF StridesConserved
  <2> QED BY <2>1, <2>2, RawSizes
<1> QED BY <1>1, <1>2, <1>3, <1>4, RawVisible, RawAgree DEF RawStrides

\* One CQE that the NIC rewrites while rx_burst reads it tells how many packets
\* arrived: rx_burst is never early and never blind, the Rpc reads the stride
\* the NIC filled, and no stride is filled before its packet was read.
THEOREM RawStridesHold == RawSpec => []RawStrides
<1> QED BY RawInvariance, RawStridesFollow, PTL

-------------------------------------------------------------------------------
(***************************************************************************)
(* The DPDK transport, for any number of processes, threads, QPs and       *)
(* mbufs.                                                                  *)
(*                                                                         *)
(* The ownership memzone: no QP ever has two users, and the count of free  *)
(* QPs is right whenever the mutex is free, however processes and the      *)
(* daemon die.  What makes the property inductive is that the mutex        *)
(* excludes, that a thread has a QP exactly between get_qp and free_qp,    *)
(* that a thread with a transport is a thread of a live process, so that   *)
(* the daemon does not touch its QP, and that the count is off by one only *)
(* between the two writes of whoever holds the mutex.                      *)
(*                                                                         *)
(* The mbufs of a QP: each is in one place, and the descriptors and the    *)
(* packets that wait to be polled always have kNumRxDesc mbufs together,   *)
(* so that what is left for tx_burst can be counted.                       *)
(***************************************************************************)
(* Ownership. *)

\* A thread has a QP from get_qp to free_qp, and only while its process lives.
HasQp == {"taken", "got", "has_qp", "resolve", "up", "free", "counted"}
HoldsWhileUp ==
    \A t \in Threads :
        /\ qp_id[t] # kInvalidQpId <=> dp_pc[t] \in HasQp
        /\ dp_pc[t] # "none" => proc[pid_of(t)] = "live"

\* The mutex of the memzone excludes: one thread or the daemon is inside, while it
\* is held; and the QP that the daemon is about to free is nobody's.
MutexExcludes ==
    /\ \A t \in Threads : inside(t) =>
         /\ mz_mutex = "held" /\ daemon \notin {"scan", "counted"}
         /\ \A u \in Threads : inside(u) => u = t
    /\ daemon \in {"scan", "counted"} => mz_mutex = "held"
    /\ daemon = "counted" =>
         /\ scan \in Qps /\ owner[scan] # 0
         /\ \A t \in Threads : qp_id[t] # scan

\* Between its two writes to the memzone somebody has counted a QP as free that is
\* not, or not yet.
Window ==
    \/ \E t \in Threads : dp_pc[t] \in {"taken", "counted"}
    \/ daemon = "counted"

CountedUp ==
    LET n == Cardinality(FreeQps)
    IN  /\ num_qps_available \in {n, n + 1}
        /\ mz_mutex # "orphaned" => (num_qps_available = n + 1 <=> Window)

DpInv == DpTypeOK /\ HoldsWhileUp /\ MutexExcludes /\ QpExclusive /\ CountedUp

\* QP numbers are finite in number and distinct from kInvalidQpId.
LEMMA QpNumbers ==
    /\ IsFiniteSet(Qps) /\ Cardinality(Qps) = kMaxQueuesPerPort
    /\ kInvalidQpId \notin Qps
<1>1. kMaxQueuesPerPort \in Nat \ {0}
  BY DpdkAssumption
<1>2. 0 \in Int /\ kMaxQueuesPerPort - 1 \in Int
  BY <1>1
<1>3. /\ IsFiniteSet(0 .. kMaxQueuesPerPort - 1)
      /\ Cardinality(0 .. kMaxQueuesPerPort - 1)
           = IF 0 > kMaxQueuesPerPort - 1 THEN 0 ELSE kMaxQueuesPerPort - 1 - 0 + 1
  BY <1>2, FS_Interval
<1> QED BY <1>1, <1>3 DEF Qps, kInvalidQpId

\* The process of a thread.
LEMMA PidOf == \A t \in Threads : pid_of(t) \in Pids /\ pid_of(t) # 0
  BY DpdkAssumption DEF Threads, pid_of

\* The free QPs are finitely many.
LEMMA FreeFinite == IsFiniteSet(FreeQps) /\ Cardinality(FreeQps) \in Nat
<1>1. FreeQps \in SUBSET Qps
  BY DEF FreeQps
<1>2. IsFiniteSet(FreeQps)
  BY <1>1, QpNumbers, FS_Subset
<1> QED BY <1>2, FS_CardinalityType

\* The memzone starts with every QP free.
LEMMA DpInitInv == DpInit => DpInv
<1> SUFFICES ASSUME DpInit PROVE DpInv
  OBVIOUS
<1>1. DpTypeOK
  <2>1. kInvalidQpId \in Qps \cup {kInvalidQpId}
    OBVIOUS
  <2>2. num_qps_available \in Int /\ 0 \in 0 .. kMaxQueuesPerPort
    BY DpdkAssumption DEF DpInit
  <2> QED BY <2>1, <2>2 DEF DpInit, DpTypeOK
<1>2. HoldsWhileUp
  BY DEF DpInit, HoldsWhileUp, HasQp
<1>3. QpExclusive
  BY DEF DpInit, QpExclusive
<1>4. CountedUp
  <2>1. FreeQps = Qps
    BY DEF DpInit, FreeQps
  <2>2. ~Window
    BY DEF DpInit, Window
  <2> QED BY <2>1, <2>2, QpNumbers, DpdkAssumption DEF DpInit, CountedUp
<1>5. MutexExcludes
  BY DEF DpInit, MutexExcludes, inside, InGet, InFree
<1> QED BY <1>1, <1>2, <1>3, <1>4, <1>5 DEF DpInv

\* An action that leaves the memzone alone keeps the count, unless it opens or
\* closes a window.
LEMMA CountKept ==
    ASSUME CountedUp, UNCHANGED <<owner, num_qps_available>>,
           mz_mutex' # "orphaned" => mz_mutex # "orphaned" /\ (Window' <=> Window)
    PROVE  CountedUp'
  BY DEF CountedUp, FreeQps

\* Processes start.
LEMMA StartKeepsInv ==
    ASSUME DpInv, NEW p \in Pids, dp_start(p)
    PROVE  DpInv'
<1>1. /\ UNCHANGED <<owner, num_qps_available, mz_mutex, dpdk_lock, dp_pc, qp_id, daemon, scan>>
      /\ proc' = [proc EXCEPT ![p] = "live"]
  BY DEF dp_start
<1>2. DpTypeOK'
  BY <1>1 DEF DpInv, DpTypeOK
<1>3. HoldsWhileUp'
  BY <1>1, PidOf DEF DpInv, DpTypeOK, HoldsWhileUp
<1>4. MutexExcludes' /\ QpExclusive'
  BY <1>1 DEF DpInv, MutexExcludes, inside, QpExclusive
<1>5. CountedUp'
  BY <1>1, CountKept DEF DpInv, Window
<1> QED BY <1>2, <1>3, <1>4, <1>5 DEF DpInv

\* A process dies, and may take the mutex with it.
LEMMA CrashKeepsInv ==
    ASSUME DpInv, NEW p \in Pids, dp_crash(p)
    PROVE  DpInv'
<1>0. /\ UNCHANGED <<owner, num_qps_available, daemon, scan>>
      /\ proc' = [proc EXCEPT ![p] = "dead"]
      /\ dpdk_lock' = [dpdk_lock EXCEPT ![p] = "free"]
      /\ dp_pc' = [t \in Threads |-> IF pid_of(t) = p THEN "none" ELSE dp_pc[t]]
      /\ qp_id' = [t \in Threads |-> IF pid_of(t) = p THEN kInvalidQpId ELSE qp_id[t]]
  BY DEF dp_crash
<1>1. DpTypeOK'
  <2>1. mz_mutex' \in {"free", "held", "orphaned"}
    BY DEF dp_crash, DpInv, DpTypeOK
  <2> QED BY <1>0, <2>1 DEF DpInv, DpTypeOK
<1>2. HoldsWhileUp'
  BY <1>0, PidOf DEF DpInv, DpTypeOK, HoldsWhileUp, HasQp
<1>3. QpExclusive'
  BY <1>0 DEF DpInv, DpTypeOK, QpExclusive
<1>4. ~(\E t \in Threads : pid_of(t) = p /\ inside(t)) => mz_mutex' = mz_mutex
      /\ \A t \in Threads : inside(t)' <=> inside(t)
  BY <1>0 DEF dp_crash, inside, InGet, InFree
<1>5. (\E t \in Threads : pid_of(t) = p /\ inside(t)) =>
         /\ mz_mutex' = "orphaned" /\ daemon \notin {"scan", "counted"}
         /\ \A t \in Threads : ~inside(t)'
  <2> SUFFICES ASSUME NEW u \in Threads, pid_of(u) = p, inside(u)
               PROVE  /\ mz_mutex' = "orphaned" /\ daemon \notin {"scan", "counted"}
                      /\ \A t \in Threads : ~inside(t)'
    OBVIOUS
  <2>1. mz_mutex' = "orphaned" /\ daemon \notin {"scan", "counted"}
    BY DEF dp_crash, DpInv, MutexExcludes
  <2>2. \A t \in Threads : inside(t) => t = u
    BY DEF DpInv, MutexExcludes
  <2>3. \A t \in Threads : inside(t)' => t # u /\ inside(t)
    BY <1>0 DEF inside, InGet, InFree
  <2> QED BY <2>1, <2>2, <2>3
<1>6. MutexExcludes'
  <2>0. \A t \in Threads : qp_id'[t] = qp_id[t] \/ qp_id'[t] = kInvalidQpId
    BY <1>0
  <2>1. daemon' = "counted" => /\ scan' \in Qps /\ owner'[scan'] # 0
                               /\ \A t \in Threads : qp_id'[t] # scan'
    BY <1>0, <2>0, QpNumbers DEF DpInv, MutexExcludes
  <2>2. CASE \E t \in Threads : pid_of(t) = p /\ inside(t)
    BY <1>0, <1>5, <2>1, <2>2 DEF MutexExcludes
  <2>3. CASE ~(\E t \in Threads : pid_of(t) = p /\ inside(t))
    BY <1>0, <1>4, <2>1, <2>3 DEF DpInv, MutexExcludes
  <2> QED BY <2>2, <2>3
<1>7. CountedUp'
  <2>1. ASSUME mz_mutex' # "orphaned"
        PROVE  mz_mutex # "orphaned" /\ (Window' <=> Window)
    <3>1. ~(\E t \in Threads : pid_of(t) = p /\ inside(t)) /\ mz_mutex' = mz_mutex
      BY <1>4, <1>5, <2>1
    <3>2. \A t \in Threads : dp_pc'[t] \in {"taken", "counted"}
                               <=> dp_pc[t] \in {"taken", "counted"}
      BY <1>0, <3>1 DEF inside, InGet, InFree
    <3> QED BY <1>0, <2>1, <3>1, <3>2 DEF Window
  <2> QED BY <1>0, <2>1, CountKept DEF DpInv
<1> QED BY <1>1, <1>2, <1>3, <1>6, <1>7 DEF DpInv

LEMMA DaemonCrashKeepsInv ==
    ASSUME DpInv, dp_daemon_crash
    PROVE  DpInv'
<1>1. /\ UNCHANGED <<proc, owner, num_qps_available, dpdk_lock, dp_pc, qp_id, scan>>
      /\ daemon' = "dead" /\ daemon # "dead"
      /\ mz_mutex' = IF daemon = "idle" THEN mz_mutex ELSE "orphaned"
  BY DEF dp_daemon_crash
<1>2. DpTypeOK'
  BY <1>1 DEF DpInv, DpTypeOK
<1>3. HoldsWhileUp' /\ QpExclusive'
  BY <1>1 DEF DpInv, HoldsWhileUp, QpExclusive
<1>4. daemon # "idle" => daemon \in {"scan", "counted"}
  BY <1>1 DEF DpInv, DpTypeOK
<1>5. MutexExcludes'
  BY <1>1, <1>4 DEF DpInv, MutexExcludes, inside
<1>6. CountedUp'
  BY <1>1, CountKept DEF DpInv, Window
<1> QED BY <1>2, <1>3, <1>5, <1>6 DEF DpInv

\* A thread goes to another place.
LEMMA Goes ==
    ASSUME DpInv, NEW t \in Threads, NEW from, NEW to, goes(t, from, to)
    PROVE  /\ dp_pc[t] = from /\ dp_pc'[t] = to
           /\ \A u \in Threads : u # t => dp_pc'[u] = dp_pc[u]
           /\ dp_pc' = [dp_pc EXCEPT ![t] = to]
  BY DEF goes, DpInv, DpTypeOK

\* The steps of a constructor that touch neither the memzone nor its mutex.
LEMMA CtorKeepsInv ==
    ASSUME DpInv, NEW t \in Threads,
           \/ dp_ctor_call(t) \/ dp_ctor_lock(t) \/ dp_ctor_unlock(t)
           \/ dp_ctor_finish(t) \/ dp_ctor_throw(t)
    PROVE  DpInv'
<1>0. /\ UNCHANGED <<proc, owner, num_qps_available, mz_mutex, daemon, scan>>
      /\ dpdk_lock' \in [Pids -> {"free", "held", "leaked"}]
  BY PidOf DEF DpInv, DpTypeOK, dp_ctor_call, dp_ctor_lock, dp_ctor_throw, dp_ctor_unlock,
               dp_ctor_finish
<1>1. PICK from, to : goes(t, from, to)
        /\ from \in {"none", "waiting", "has_qp", "resolve"}
        /\ to \in {"none", "waiting", "locked", "resolve", "up"}
        /\ (to # "none" => proc[pid_of(t)] = "live")
        /\ \/ qp_id' = qp_id /\ (from \in HasQp <=> to \in HasQp)
           \/ qp_id' = [qp_id EXCEPT ![t] = kInvalidQpId] /\ to \notin HasQp
  <2>1. CASE dp_ctor_call(t)
    BY <2>1 DEF dp_ctor_call, HasQp
  <2>2. CASE dp_ctor_lock(t)
    <3>1. goes(t, "waiting", "locked") /\ qp_id' = qp_id
      BY <2>2 DEF dp_ctor_lock
    <3>2. proc[pid_of(t)] = "live"
      BY <3>1 DEF goes, DpInv, HoldsWhileUp
    <3> QED BY <3>1, <3>2 DEF HasQp
  <2>3. CASE dp_ctor_unlock(t)
    BY <2>3 DEF dp_ctor_unlock, HasQp, goes, DpInv, HoldsWhileUp
  <2>4. CASE dp_ctor_finish(t)
    BY <2>4 DEF dp_ctor_finish, HasQp, goes, DpInv, HoldsWhileUp
  <2>5. CASE dp_ctor_throw(t)
    BY <2>5 DEF dp_ctor_throw, HasQp
  <2> QED BY <2>1, <2>2, <2>3, <2>4, <2>5
<1>2. /\ dp_pc[t] = from /\ dp_pc'[t] = to
      /\ \A u \in Threads : u # t => dp_pc'[u] = dp_pc[u]
      /\ dp_pc' = [dp_pc EXCEPT ![t] = to]
  BY <1>1, Goes
<1>3. qp_id' \in [Threads -> Qps \cup {kInvalidQpId}]
      /\ \A u \in Threads : \/ qp_id'[u] = qp_id[u]
                            \/ u = t /\ qp_id'[u] = kInvalidQpId /\ to \notin HasQp
  BY <1>1 DEF DpInv, DpTypeOK
<1>4. DpTypeOK'
  <2>1. dp_pc' \in [Threads -> {"none", "waiting", "locked", "has_qp", "resolve",
                                "up"} \cup InGet \cup InFree]
    BY <1>1, <1>2 DEF DpInv, DpTypeOK
  <2> QED BY <1>0, <1>3, <2>1 DEF DpInv, DpTypeOK
<1>5. HoldsWhileUp'
  BY <1>0, <1>1, <1>2, <1>3 DEF DpInv, DpTypeOK, HoldsWhileUp
<1>6. \A u \in Threads : inside(u)' <=> inside(u)
  BY <1>1, <1>2 DEF inside, InGet, InFree
<1>7. MutexExcludes'
  BY <1>0, <1>3, <1>6, QpNumbers DEF DpInv, MutexExcludes
<1>8. QpExclusive'
  BY <1>0, <1>3 DEF DpInv, QpExclusive
<1>9. CountedUp'
  <2>1. Window' <=> Window
    BY <1>0, <1>1, <1>2 DEF Window
  <2> QED BY <1>0, <2>1, CountKept DEF DpInv
<1> QED BY <1>4, <1>5, <1>7, <1>8, <1>9 DEF DpInv

\* A thread takes the mutex.
LEMMA LockKeepsInv ==
    ASSUME DpInv, NEW t \in Threads, get_qp_lock(t) \/ free_qp_lock(t)
    PROVE  DpInv'
<1>0. /\ UNCHANGED <<proc, owner, num_qps_available, dpdk_lock, qp_id, daemon, scan>>
      /\ mz_mutex = "free" /\ mz_mutex' = "held"
  BY DEF get_qp_lock, free_qp_lock
<1>1. PICK from, to : /\ goes(t, from, to)
                      /\ <<from, to>> \in {<<"locked", "get">>, <<"up", "free">>}
  BY DEF get_qp_lock, free_qp_lock
<1>2. /\ dp_pc[t] = from /\ dp_pc'[t] = to
      /\ \A u \in Threads : u # t => dp_pc'[u] = dp_pc[u]
      /\ dp_pc' = [dp_pc EXCEPT ![t] = to]
  BY <1>1, Goes
<1>3. DpTypeOK'
  <2>1. dp_pc' \in [Threads -> {"none", "waiting", "locked", "has_qp", "resolve",
                                "up"} \cup InGet \cup InFree]
    BY <1>1, <1>2 DEF DpInv, DpTypeOK, InGet, InFree
  <2> QED BY <1>0, <2>1 DEF DpInv, DpTypeOK
<1>4. HoldsWhileUp'
  BY <1>0, <1>1, <1>2 DEF DpInv, DpTypeOK, HoldsWhileUp, HasQp
<1>5. \A u \in Threads : ~inside(u)
  BY <1>0 DEF DpInv, MutexExcludes
<1>6. \A u \in Threads : inside(u)' => u = t
  BY <1>2, <1>5 DEF inside
<1>7. MutexExcludes'
  BY <1>0, <1>6 DEF DpInv, MutexExcludes
<1>8. QpExclusive'
  BY <1>0 DEF DpInv, QpExclusive
<1>9. CountedUp'
  <2>1. Window' <=> Window
    BY <1>0, <1>1, <1>2 DEF Window
  <2> QED BY <1>0, <2>1, CountKept DEF DpInv
<1> QED BY <1>3, <1>4, <1>7, <1>8, <1>9 DEF DpInv

\* A thread gives the mutex back.
LEMMA UnlockKeepsInv ==
    ASSUME DpInv, NEW t \in Threads,
           get_qp_none(t) \/ get_qp_unlock(t) \/ free_qp_unlock(t)
    PROVE  DpInv'
<1>0. /\ UNCHANGED <<proc, owner, num_qps_available, qp_id, daemon, scan>>
      /\ mz_mutex' = "free" /\ dpdk_lock' \in [Pids -> {"free", "held", "leaked"}]
  BY PidOf DEF get_qp_none, get_qp_unlock, free_qp_unlock, DpInv, DpTypeOK
<1>1. PICK from, to :
        /\ goes(t, from, to)
        /\ <<from, to>> \in {<<"get", "none">>, <<"got", "has_qp">>, <<"freed", "none">>}
  BY DEF get_qp_none, get_qp_unlock, free_qp_unlock
<1>2. /\ dp_pc[t] = from /\ dp_pc'[t] = to
      /\ \A u \in Threads : u # t => dp_pc'[u] = dp_pc[u]
      /\ dp_pc' = [dp_pc EXCEPT ![t] = to]
  BY <1>1, Goes
<1>3. DpTypeOK'
  <2>1. dp_pc' \in [Threads -> {"none", "waiting", "locked", "has_qp", "resolve",
                                "up"} \cup InGet \cup InFree]
    BY <1>1, <1>2 DEF DpInv, DpTypeOK
  <2> QED BY <1>0, <2>1 DEF DpInv, DpTypeOK
<1>4. HoldsWhileUp'
  BY <1>0, <1>1, <1>2 DEF DpInv, DpTypeOK, HoldsWhileUp, HasQp
<1>5. /\ mz_mutex = "held" /\ daemon \notin {"scan", "counted"}
      /\ \A u \in Threads : inside(u) => u = t
  BY <1>1, <1>2 DEF DpInv, MutexExcludes, inside, InGet, InFree
<1>6. \A u \in Threads : ~inside(u)'
  BY <1>1, <1>2, <1>5 DEF inside, InGet, InFree
<1>7. MutexExcludes'
  BY <1>0, <1>5, <1>6 DEF MutexExcludes
<1>8. QpExclusive'
  BY <1>0 DEF DpInv, QpExclusive
<1>9. CountedUp'
  <2>1. Window' <=> Window
    BY <1>0, <1>1, <1>2 DEF Window
  <2> QED BY <1>0, <1>5, <2>1, CountKept DEF DpInv
<1> QED BY <1>3, <1>4, <1>7, <1>8, <1>9 DEF DpInv

\* A thread inside a critical section goes on to its next step there.
LEMMA StaysInside ==
    ASSUME DpInv, NEW t \in Threads, NEW from, NEW to, goes(t, from, to),
           from \in InGet \cup InFree, to \in InGet \cup InFree,
           UNCHANGED <<proc, mz_mutex, dpdk_lock, daemon, scan>>
    PROVE  /\ mz_mutex = "held" /\ mz_mutex' = "held"
           /\ daemon \notin {"scan", "counted"} /\ daemon' \notin {"scan", "counted"}
           /\ MutexExcludes'
           /\ Window <=> from \in {"taken", "counted"}
           /\ Window' <=> to \in {"taken", "counted"}
           /\ dp_pc' \in [Threads -> {"none", "waiting", "locked", "has_qp", "resolve",
                                      "up"} \cup InGet \cup InFree]
<1>1. /\ dp_pc[t] = from /\ dp_pc'[t] = to
      /\ \A u \in Threads : u # t => dp_pc'[u] = dp_pc[u]
      /\ dp_pc' = [dp_pc EXCEPT ![t] = to]
  BY Goes
<1>2. /\ mz_mutex = "held" /\ daemon \notin {"scan", "counted"}
      /\ \A u \in Threads : inside(u) => u = t
  BY <1>1 DEF DpInv, MutexExcludes, inside
<1>3. \A u \in Threads : inside(u)' => u = t
  BY <1>1, <1>2 DEF inside
<1>4. MutexExcludes'
  BY <1>2, <1>3 DEF MutexExcludes
<1>5. \A u \in Threads : u # t => dp_pc[u] \notin InGet \cup InFree
  BY <1>2 DEF inside
<1>6. (Window <=> from \in {"taken", "counted"}) /\ (Window' <=> to \in {"taken", "counted"})
  BY <1>1, <1>2, <1>5 DEF Window, InGet, InFree
<1>7. dp_pc' \in [Threads -> {"none", "waiting", "locked", "has_qp", "resolve",
                              "up"} \cup InGet \cup InFree]
  BY <1>1 DEF DpInv, DpTypeOK
<1> QED BY <1>2, <1>4, <1>6, <1>7

\* The QP that get_qp takes is free, so nobody uses it.
LEMMA TakeKeepsInv ==
    ASSUME DpInv, NEW t \in Threads, get_qp_take(t)
    PROVE  DpInv'
<1>0. /\ goes(t, "get", "taken")
      /\ UNCHANGED <<proc, num_qps_available, mz_mutex, dpdk_lock, daemon, scan>>
  BY DEF get_qp_take
<1>1. PICK q \in FreeQps : /\ owner' = [owner EXCEPT ![q] = pid_of(t)]
                           /\ qp_id' = [qp_id EXCEPT ![t] = q]
  BY DEF get_qp_take
<1>2. q \in Qps /\ owner[q] = 0
  BY <1>1 DEF FreeQps
<1>3. /\ mz_mutex = "held" /\ MutexExcludes' /\ ~Window /\ Window'
      /\ dp_pc' \in [Threads -> {"none", "waiting", "locked", "has_qp", "resolve",
                                 "up"} \cup InGet \cup InFree]
  <2>1. "get" \in InGet /\ "taken" \in InGet
    BY DEF InGet
  <2> QED BY <1>0, <2>1, StaysInside
<1>4. DpTypeOK'
  BY <1>0, <1>1, <1>2, <1>3, PidOf DEF DpInv, DpTypeOK
<1>5. HoldsWhileUp'
  BY <1>0, <1>1, <1>2, Goes, QpNumbers DEF DpInv, DpTypeOK, HoldsWhileUp, HasQp
<1>6. QpExclusive'
  <2>1. \A u \in Threads : qp_id[u] # q
    BY <1>2, PidOf, QpNumbers DEF DpInv, QpExclusive
  <2> QED BY <1>1, <1>2, <2>1 DEF DpInv, DpTypeOK, QpExclusive
<1>7. CountedUp'
  <2>1. FreeQps' = FreeQps \ {q}
    BY <1>1, <1>2, PidOf DEF DpInv, DpTypeOK, FreeQps
  <2>2. Cardinality(FreeQps \ {q}) = Cardinality(FreeQps) - 1
    BY <1>1, FreeFinite, FS_RemoveElement
  <2>3. num_qps_available = Cardinality(FreeQps)
    BY <1>3 DEF DpInv, CountedUp
  <2>4. num_qps_available' = Cardinality(FreeQps') + 1
    BY <1>0, <2>1, <2>2, <2>3, FreeFinite
  <2> QED BY <1>3, <2>4 DEF CountedUp
<1> QED BY <1>3, <1>4, <1>5, <1>6, <1>7 DEF DpInv

\* The count follows in get_qp, and comes first in free_qp.
LEMMA CountKeepsInv ==
    ASSUME DpInv, NEW t \in Threads, get_qp_count(t) \/ free_qp_count(t)
    PROVE  DpInv'
<1>0. UNCHANGED <<proc, owner, mz_mutex, dpdk_lock, qp_id, daemon, scan>>
  BY DEF get_qp_count, free_qp_count
<1>1. PICK from, to :
        /\ goes(t, from, to)
        /\ \/ from = "taken" /\ to = "got" /\ num_qps_available' = num_qps_available - 1
           \/ from = "free" /\ to = "counted" /\ num_qps_available' = num_qps_available + 1
  BY DEF get_qp_count, free_qp_count
<1>2. /\ mz_mutex = "held" /\ MutexExcludes'
      /\ Window <=> from \in {"taken", "counted"}
      /\ Window' <=> to \in {"taken", "counted"}
      /\ dp_pc' \in [Threads -> {"none", "waiting", "locked", "has_qp", "resolve",
                                 "up"} \cup InGet \cup InFree]
  <2>1. from \in InGet \cup InFree /\ to \in InGet \cup InFree
    BY <1>1 DEF InGet, InFree
  <2> QED BY <1>0, <1>1, <2>1, StaysInside
<1>3. DpTypeOK'
  BY <1>0, <1>1, <1>2 DEF DpInv, DpTypeOK
<1>4. /\ dp_pc[t] = from /\ dp_pc'[t] = to
      /\ \A u \in Threads : u # t => dp_pc'[u] = dp_pc[u]
  BY <1>1, Goes
<1>5. HoldsWhileUp'
  BY <1>0, <1>1, <1>4 DEF DpInv, HoldsWhileUp, HasQp
<1>6. QpExclusive'
  BY <1>0 DEF DpInv, QpExclusive
<1>7. CountedUp'
  <2>1. FreeQps' = FreeQps
    BY <1>0 DEF FreeQps
  <2>2. PICK n \in Nat : n = Cardinality(FreeQps)
    BY FreeFinite
  <2>3. Cardinality(FreeQps') = n
    BY <2>1, <2>2
  <2>4. CASE from = "taken"
    <3>1. num_qps_available = n + 1
      BY <1>2, <2>2, <2>4 DEF DpInv, CountedUp
    <3>2. num_qps_available' = n /\ ~Window'
      BY <1>1, <1>2, <2>4, <3>1
    <3> QED BY <2>3, <3>2 DEF CountedUp
  <2>5. CASE from = "free"
    <3>1. num_qps_available = n
      BY <1>2, <2>2, <2>5 DEF DpInv, CountedUp
    <3>2. num_qps_available' = n + 1 /\ Window'
      BY <1>1, <1>2, <2>5, <3>1
    <3> QED BY <2>3, <3>2 DEF CountedUp
  <2> QED BY <1>1, <2>4, <2>5
<1> QED BY <1>2, <1>3, <1>5, <1>6, <1>7 DEF DpInv

\* One more QP is free.
LEMMA ClearCounts ==
    ASSUME DpInv, NEW q \in Qps, owner[q] # 0, owner' = [owner EXCEPT ![q] = 0],
           num_qps_available' = num_qps_available, Window, mz_mutex = "held", ~Window'
    PROVE  CountedUp'
<1>1. q \notin FreeQps
  BY DEF FreeQps
<1>2. FreeQps' = FreeQps \cup {q}
  BY DEF DpInv, DpTypeOK, FreeQps
<1>3. Cardinality(FreeQps \cup {q}) = Cardinality(FreeQps) + 1
  BY <1>1, FreeFinite, FS_AddElement
<1>4. num_qps_available = Cardinality(FreeQps) + 1
  BY DEF DpInv, CountedUp
<1>5. num_qps_available' = Cardinality(FreeQps')
  BY <1>2, <1>3, <1>4
<1>6. Cardinality(FreeQps') \in Nat
  BY <1>2, <1>3, FreeFinite
<1> QED BY <1>5, <1>6 DEF CountedUp

\* The destructor returns a QP that was its own.
LEMMA ClearKeepsInv ==
    ASSUME DpInv, NEW t \in Threads, free_qp_clear(t)
    PROVE  DpInv'
<1>0. /\ goes(t, "counted", "freed")
      /\ owner' = [owner EXCEPT ![qp_id[t]] = 0]
      /\ qp_id' = [qp_id EXCEPT ![t] = kInvalidQpId]
      /\ UNCHANGED <<proc, num_qps_available, mz_mutex, dpdk_lock, daemon, scan>>
  BY DEF free_qp_clear
<1>1. PICK q : q = qp_id[t]
  OBVIOUS
<1>2. q \in Qps /\ owner[q] = pid_of(t) /\ owner[q] # 0
  BY <1>0, <1>1, Goes, PidOf DEF DpInv, DpTypeOK, HoldsWhileUp, HasQp, QpExclusive
<1>3. /\ mz_mutex = "held" /\ MutexExcludes' /\ Window /\ ~Window'
      /\ dp_pc' \in [Threads -> {"none", "waiting", "locked", "has_qp", "resolve",
                                 "up"} \cup InGet \cup InFree]
  <2>1. "counted" \in InFree /\ "freed" \in InFree
    BY DEF InFree
  <2> QED BY <1>0, <2>1, StaysInside
<1>4. DpTypeOK'
  BY <1>0, <1>1, <1>2, <1>3 DEF DpInv, DpTypeOK
<1>5. HoldsWhileUp'
  BY <1>0, Goes DEF DpInv, DpTypeOK, HoldsWhileUp, HasQp
<1>6. QpExclusive'
  BY <1>0, <1>1, <1>2, QpNumbers DEF DpInv, DpTypeOK, QpExclusive
<1>7. CountedUp'
  BY <1>0, <1>1, <1>2, <1>3, ClearCounts
<1> QED BY <1>3, <1>4, <1>5, <1>6, <1>7 DEF DpInv

\* The daemon goes in, past the QPs of the living, and out.
LEMMA DaemonMovesKeepInv ==
    ASSUME DpInv, daemon_lock \/ daemon_skip \/ daemon_unlock
    PROVE  DpInv'
<1>0. /\ UNCHANGED <<proc, owner, num_qps_available, dpdk_lock, dp_pc, qp_id>>
      /\ daemon \in {"idle", "scan"} /\ daemon' \in {"idle", "scan"}
      /\ mz_mutex # "orphaned" /\ mz_mutex' = (IF daemon' = "scan" THEN "held" ELSE "free")
      /\ daemon # "scan" => mz_mutex = "free"
      /\ scan' \in 0 .. kMaxQueuesPerPort
  BY DpdkAssumption DEF daemon_lock, daemon_skip, daemon_unlock, DpInv, DpTypeOK, MutexExcludes, Qps
<1>1. DpTypeOK'
  BY <1>0 DEF DpInv, DpTypeOK
<1>2. HoldsWhileUp' /\ QpExclusive'
  BY <1>0 DEF DpInv, HoldsWhileUp, QpExclusive
<1>3. \A t \in Threads : ~inside(t)
  BY <1>0 DEF DpInv, MutexExcludes
<1>4. \A t \in Threads : ~inside(t)'
  BY <1>0, <1>3 DEF inside
<1>5. MutexExcludes'
  BY <1>0, <1>4 DEF MutexExcludes
<1>6. CountedUp'
  BY <1>0, CountKept DEF DpInv, Window
<1> QED BY <1>1, <1>2, <1>5, <1>6 DEF DpInv

\* The daemon counts a QP only if no thread has it: its process would be alive.
LEMMA DaemonCountKeepsInv ==
    ASSUME DpInv, daemon_count
    PROVE  DpInv'
<1>0. /\ UNCHANGED <<proc, owner, mz_mutex, dpdk_lock, dp_pc, qp_id, scan>>
      /\ daemon = "scan" /\ daemon' = "counted" /\ scan \in Qps
      /\ owner[scan] # 0 /\ proc[owner[scan]] = "dead"
      /\ num_qps_available' = num_qps_available + 1
  BY DEF daemon_count, dead_owned
<1>1. DpTypeOK'
  BY <1>0 DEF DpInv, DpTypeOK
<1>2. HoldsWhileUp' /\ QpExclusive'
  BY <1>0 DEF DpInv, HoldsWhileUp, QpExclusive
<1>3. \A t \in Threads : qp_id[t] # scan
  BY <1>0, QpNumbers DEF DpInv, HoldsWhileUp, QpExclusive, HasQp
<1>4. mz_mutex = "held" /\ \A t \in Threads : ~inside(t)
  BY <1>0 DEF DpInv, MutexExcludes
<1>5. \A t \in Threads : ~inside(t)'
  BY <1>0, <1>4 DEF inside
<1>6. MutexExcludes'
  BY <1>0, <1>3, <1>4, <1>5 DEF MutexExcludes
<1>7. CountedUp'
  <2>1. ~Window /\ Window'
    BY <1>0, <1>4 DEF Window, inside, InGet, InFree
  <2>2. FreeQps' = FreeQps
    BY <1>0 DEF FreeQps
  <2>3. num_qps_available = Cardinality(FreeQps)
    BY <1>4, <2>1 DEF DpInv, CountedUp
  <2> QED BY <1>0, <2>1, <2>2, <2>3 DEF CountedUp
<1> QED BY <1>1, <1>2, <1>6, <1>7 DEF DpInv

LEMMA DaemonClearKeepsInv ==
    ASSUME DpInv, daemon_clear
    PROVE  DpInv'
<1>0. /\ UNCHANGED <<proc, num_qps_available, mz_mutex, dpdk_lock, dp_pc, qp_id>>
      /\ daemon = "counted" /\ daemon' = "scan" /\ scan' = scan + 1
      /\ owner' = [owner EXCEPT ![scan] = 0]
  BY DEF daemon_clear
<1>1. /\ scan \in Qps /\ owner[scan] # 0 /\ mz_mutex = "held"
      /\ \A t \in Threads : qp_id[t] # scan
      /\ \A t \in Threads : ~inside(t)
  BY <1>0 DEF DpInv, MutexExcludes
<1>2. DpTypeOK'
  <2>1. scan' \in 0 .. kMaxQueuesPerPort
    BY <1>0, <1>1, DpdkAssumption DEF Qps
  <2> QED BY <1>0, <1>1, <2>1 DEF DpInv, DpTypeOK
<1>3. HoldsWhileUp'
  BY <1>0 DEF DpInv, HoldsWhileUp
<1>4. QpExclusive'
  BY <1>0, <1>1 DEF DpInv, DpTypeOK, QpExclusive
<1>5. \A t \in Threads : ~inside(t)'
  BY <1>0, <1>1 DEF inside
<1>6. MutexExcludes'
  BY <1>0, <1>1, <1>5 DEF MutexExcludes
<1>7. CountedUp'
  <2>1. Window /\ ~Window'
    BY <1>0, <1>5 DEF Window, inside, InGet, InFree
  <2> QED BY <1>0, <1>1, <2>1, ClearCounts
<1> QED BY <1>2, <1>3, <1>4, <1>6, <1>7 DEF DpInv

\* Every step of every process and of the daemon keeps the invariant.
LEMMA DpNextInv == DpInv /\ [DpNext]_dpvars => DpInv'
<1> SUFFICES ASSUME DpInv, [DpNext]_dpvars PROVE DpInv'
  OBVIOUS
<1>1. ASSUME NEW p \in Pids, dp_start(p) \/ dp_crash(p) PROVE DpInv'
  BY <1>1, StartKeepsInv, CrashKeepsInv
<1>2. ASSUME NEW t \in Threads, dp_ctor(t) PROVE DpInv'
  BY <1>2, CtorKeepsInv, LockKeepsInv DEF dp_ctor
<1>3. ASSUME NEW t \in Threads, dp_get_qp(t) PROVE DpInv'
  BY <1>3, TakeKeepsInv, CountKeepsInv, UnlockKeepsInv DEF dp_get_qp
<1>4. ASSUME NEW t \in Threads, free_qp_lock(t) \/ dp_free_qp(t) PROVE DpInv'
  BY <1>4, LockKeepsInv, CountKeepsInv, ClearKeepsInv, UnlockKeepsInv DEF dp_free_qp
<1>5. CASE daemon_lock \/ daemon_scan
  BY <1>5, DaemonMovesKeepInv, DaemonCountKeepsInv, DaemonClearKeepsInv DEF daemon_scan
<1>6. CASE dp_daemon_crash
  BY <1>6, DaemonCrashKeepsInv
<1>7. CASE UNCHANGED dpvars
  BY <1>7 DEF dpvars, DpInv, DpTypeOK, HoldsWhileUp, MutexExcludes, inside, QpExclusive,
              CountedUp, FreeQps, Window
<1> QED BY <1>1, <1>2, <1>3, <1>4, <1>5, <1>6, <1>7 DEF DpNext

\* Through deaths at any point, in a critical section of the memzone too, PID reuse
\* and reclaims, a QP has at most one user and the memzone names its process; and
\* num_qps_available_ is the number of free QPs whenever the mutex is free, and
\* never off by more than the one QP of an interrupted critical section.
THEOREM QpsOwned == DpSpec => []QpOwnership
<1>1. ASSUME DpInv PROVE QpOwnership
  <2>1. mz_mutex = "free" => ~Window
    BY <1>1 DEF DpInv, MutexExcludes, Window, inside, InGet, InFree
  <2>2. QpsCounted
    BY <1>1, <2>1 DEF DpInv, CountedUp, QpsCounted
  <2> QED BY <1>1, <2>2 DEF DpInv, QpOwnership
<1> QED BY <1>1, DpInitInv, DpNextInv, PTL DEF DpSpec

-------------------------------------------------------------------------------
(* The mbufs. *)

\* The mbufs of the burst that is being processed, one by one.
Burst(i) == rx_ring[(dm_tail + i) % kRxRing]

\* Every mbuf is somewhere.
Covered ==
    Mbufs = pool \cup desc \cup ToSet(rxq) \cup held \cup tx_mbufs \cup txq \cup lost

\* No mbuf is in two places.
Apart ==
    /\ pool \cap (desc \cup ToSet(rxq) \cup held \cup tx_mbufs \cup txq \cup lost) = {}
    /\ desc \cap (ToSet(rxq) \cup held \cup tx_mbufs \cup txq \cup lost) = {}
    /\ ToSet(rxq) \cap (held \cup tx_mbufs \cup txq \cup lost) = {}
    /\ held \cap (tx_mbufs \cup txq \cup lost) = {}
    /\ tx_mbufs \cap (txq \cup lost) = {}
    /\ txq \cap lost = {}

\* No mbuf is twice in one place.
Distinct ==
    /\ \A i, j \in 1 .. Len(rxq) : rxq[i] = rxq[j] => i = j
    /\ \A i, j \in 0 .. nb_rx - 1 : Burst(i) = Burst(j) => i = j

\* A packet is polled only with a fresh mbuf for its descriptor.
DescsFilled == Cardinality(desc) + Len(rxq) = kNumRxDesc

\* A TX batch and the TX ring are bounded.
TxBounded ==
    /\ Cardinality(txq) <= kNumTxRingDesc
    /\ tx_left + Cardinality(tx_mbufs) <= kTxBatchSize

\* Without a transport nobody is inside a burst.
DownIdle == ~dm_up => nb_rx = 0 /\ tx_left = 0 /\ tx_mbufs = {}

\* The inductive invariant.
DmInv ==
    /\ DmTypeOK /\ Covered /\ Apart /\ Distinct /\ DescsFilled /\ DpdkRingAgrees
    /\ TxBounded /\ DownIdle

\* An index that is advanced by at most the size of the ring.
LEMMA RingIndex ==
    ASSUME NEW e \in Entries, NEW i \in 0 .. kRxRing
    PROVE  /\ (e + i) % kRxRing = IF e + i < kRxRing THEN e + i ELSE e + i - kRxRing
           /\ (e + i) % kRxRing \in Entries
<1>1. kRxRing \in Nat \ {0}
  BY DpdkMbufsAssumption
<1>2. e \in Nat /\ i \in Nat /\ e < kRxRing /\ i <= kRxRing /\ e + i \in Nat
  BY <1>1 DEF Entries
<1>3. CASE e + i < kRxRing
  <2>1. e + i = kRxRing * 0 + (e + i) /\ e + i \in 0 .. kRxRing - 1
    BY <1>1, <1>2, <1>3
  <2>2. (e + i) % kRxRing = e + i
    BY <1>1, <1>2, <2>1, ModUnique
  <2> QED BY <1>1, <1>2, <1>3, <2>2 DEF Entries
<1>4. CASE ~(e + i < kRxRing)
  <2>1. e + i = kRxRing * 1 + (e + i - kRxRing) /\ e + i - kRxRing \in 0 .. kRxRing - 1
    BY <1>1, <1>2, <1>4
  <2>2. (e + i) % kRxRing = e + i - kRxRing
    BY <1>1, <1>2, <2>1, ModUnique
  <2> QED BY <1>1, <1>2, <1>4, <2>1, <2>2 DEF Entries
<1> QED BY <1>3, <1>4

\* An index that is not advanced, or once around the ring.
LEMMA RingHome ==
    ASSUME NEW e \in Entries
    PROVE  (e + 0) % kRxRing = e /\ (e + kRxRing) % kRxRing = e
<1>1. kRxRing \in Nat /\ 0 \in 0 .. kRxRing /\ kRxRing \in 0 .. kRxRing
  BY DpdkMbufsAssumption
<1>2. e \in Nat /\ e < kRxRing
  BY <1>1 DEF Entries
<1>3. (e + 0) % kRxRing = IF e + 0 < kRxRing THEN e + 0 ELSE e + 0 - kRxRing
  BY <1>1, RingIndex
<1>4. (e + kRxRing) % kRxRing
        = IF e + kRxRing < kRxRing THEN e + kRxRing ELSE e + kRxRing - kRxRing
  BY <1>1, RingIndex
<1> QED BY <1>1, <1>2, <1>3, <1>4

\* As many distinct values as indices.
LEMMA InjectiveCount ==
    ASSUME NEW n \in Nat, NEW S, NEW f \in [1..n -> S],
           \A i, j \in 1..n : f[i] = f[j] => i = j,
           \A x \in S : \E i \in 1..n : f[i] = x
    PROVE  IsFiniteSet(S) /\ Cardinality(S) = n
<1>1. f \in Bijection(1..n, S)
  BY DEF Bijection, Injection, Surjection, IsInjective
<1>2. ExistsBijection(1..n, S)
  BY <1>1 DEF ExistsBijection
<1>3. IsFiniteSet(1..n) /\ Cardinality(1..n) = n
  BY FS_Interval
<1> QED BY <1>2, <1>3, FS_Bijection

\* A finite set has subsets of every smaller size.
LEMMA SubsetOfSize ==
    ASSUME NEW S, IsFiniteSet(S), NEW n \in 0 .. Cardinality(S)
    PROVE  \E T \in SUBSET S : Cardinality(T) = n
<1> DEFINE c == Cardinality(S)
<1>1. c \in Nat /\ ExistsBijection(1..c, S)
  BY FS_CardinalityType
<1>2. PICK f : f \in Bijection(1..c, S)
  BY <1>1 DEF ExistsBijection
<1>3. f \in [1..c -> S] /\ \A i, j \in 1..c : f[i] = f[j] => i = j
  BY <1>2 DEF Bijection, Injection, Surjection, IsInjective
<1> HIDE DEF c
<1>4. n \in Nat /\ 1..n \subseteq 1..c
  BY <1>1 DEF c
<1> DEFINE g == [i \in 1..n |-> f[i]]
<1>5. g \in [1..n -> S] /\ \A i, j \in 1..n : g[i] = g[j] => i = j
  BY <1>3, <1>4
<1> DEFINE T == {g[i] : i \in 1..n}
<1>6. T \subseteq S /\ \A x \in T : \E i \in 1..n : g[i] = x
  BY <1>5
<1>7. g \in [1..n -> T]
  OBVIOUS
<1> HIDE DEF g, T
<1>8. Cardinality(T) = n
  BY <1>4, <1>5, <1>6, <1>7, InjectiveCount
<1> QED BY <1>6, <1>8

LEMMA DisjointCount ==
    ASSUME NEW S, IsFiniteSet(S), NEW T, IsFiniteSet(T), S \cap T = {}
    PROVE  IsFiniteSet(S \cup T) /\ Cardinality(S \cup T) = Cardinality(S) + Cardinality(T)
<1>1. Cardinality(S) \in Nat /\ Cardinality(T) \in Nat /\ Cardinality(S \cap T) = 0
  BY FS_CardinalityType, FS_EmptySet
<1>2. /\ IsFiniteSet(S \cup T)
      /\ Cardinality(S \cup T) = Cardinality(S) + Cardinality(T) - Cardinality(S \cap T)
  BY FS_Union
<1> QED BY <1>1, <1>2

LEMMA MbufSets ==
    /\ IsFiniteSet(Mbufs) /\ Cardinality(Mbufs) = kNumMbufs
    /\ \A S : S \subseteq Mbufs => IsFiniteSet(S) /\ Cardinality(S) \in Nat
<1>1. kNumMbufs \in Nat
  BY DpdkMbufsAssumption
<1>2. IsFiniteSet(Mbufs) /\ Cardinality(Mbufs) = kNumMbufs
  BY <1>1, FS_Interval DEF Mbufs
<1> QED BY <1>2, FS_Subset, FS_CardinalityType

\* The two indexed places hold as many mbufs as they have entries.
LEMMA IndexedCounts ==
    ASSUME DmTypeOK, Distinct
    PROVE  /\ Cardinality(ToSet(rxq)) = Len(rxq) /\ ToSet(rxq) \subseteq Mbufs
           /\ Cardinality(held) = nb_rx
           /\ held = {Burst(i) : i \in 0 .. nb_rx - 1}
<1>1. rxq \in Seq(Mbufs) /\ Len(rxq) \in Nat /\ rxq \in [1 .. Len(rxq) -> Mbufs]
  BY DEF DmTypeOK
<1>2. /\ ToSet(rxq) \subseteq Mbufs /\ rxq \in [1 .. Len(rxq) -> ToSet(rxq)]
      /\ \A x \in ToSet(rxq) : \E i \in 1 .. Len(rxq) : rxq[i] = x
  BY <1>1 DEF ToSet
<1>3. Cardinality(ToSet(rxq)) = Len(rxq)
  BY <1>1, <1>2, InjectiveCount DEF Distinct
<1>4. nb_rx \in Nat
  BY DpdkMbufsAssumption DEF DmTypeOK
<1>5. held = {Burst(i) : i \in 0 .. nb_rx - 1}
  BY DEF held, entries_from, Burst
<1> DEFINE f == [i \in 1 .. nb_rx |-> Burst(i - 1)]
<1>6. f \in [1 .. nb_rx -> held]
  BY <1>4, <1>5
<1>7. \A i, j \in 1 .. nb_rx : f[i] = f[j] => i = j
  BY <1>4 DEF Distinct
<1>8. ASSUME NEW x \in held PROVE \E j \in 1 .. nb_rx : f[j] = x
  <2>1. PICK i \in 0 .. nb_rx - 1 : x = Burst(i)
    BY <1>5
  <2>2. i + 1 \in 1 .. nb_rx /\ (i + 1) - 1 = i
    BY <1>4
  <2> QED BY <2>1, <2>2
<1> HIDE DEF f
<1>9. Cardinality(held) = nb_rx
  BY <1>4, <1>6, <1>7, <1>8, InjectiveCount
<1> QED BY <1>2, <1>3, <1>5, <1>9

\* Between two bursts the RX ring holds nothing.
LEMMA NoBurst == nb_rx = 0 => held = {}
  BY DEF held, entries_from

LEMMA DmInitInv == DmInit => DmInv
<1> SUFFICES ASSUME DmInit PROVE DmInv
  OBVIOUS
<1>1. kRxRing \in Nat \ {0} /\ kNumRxDesc \in Nat /\ kNumMbufs \in Nat /\ kNumRxDesc <= kNumMbufs
      /\ kRxBatchSize \in Nat /\ kTxBatchSize \in Nat
  BY DpdkMbufsAssumption
<1>2. desc \subseteq Mbufs /\ Cardinality(desc) = kNumRxDesc
  BY <1>1, FS_Interval DEF DmInit, Mbufs
<1>3. ToSet(rxq) = {} /\ held = {} /\ Len(rxq) = 0 /\ nb_rx = 0
  BY NoBurst DEF DmInit, ToSet
<1>4. DmTypeOK
  BY <1>1, <1>2 DEF DmInit, DmTypeOK, Entries
<1>5. Covered /\ Apart
  BY <1>2, <1>3 DEF DmInit, Covered, Apart
<1>6. Distinct /\ DescsFilled /\ DpdkRingAgrees
  BY <1>1, <1>2, <1>3 DEF DmInit, Distinct, DescsFilled, DpdkRingAgrees
<1>7. TxBounded /\ DownIdle
  <2>1. Cardinality({}) = 0
    BY FS_EmptySet
  <2> QED BY <2>1, DpdkMbufsAssumption DEF DmInit, TxBounded, DownIdle
<1> QED BY <1>3, <1>4, <1>5, <1>6, <1>7 DEF DmInv

\* What drain_rx_queue frees goes back to the descriptors, if it can start at all.
LEMMA Drained ==
    ASSUME DmInv, drain_rx_queue
    PROVE  /\ rxq' \in Seq(Mbufs) /\ desc' \subseteq Mbufs
           /\ desc' \cup ToSet(rxq)' = desc \cup ToSet(rxq)
           /\ desc' \cap ToSet(rxq)' = {}
           /\ \A i, j \in 1 .. Len(rxq') : rxq'[i] = rxq'[j] => i = j
           /\ DescsFilled'
<1>1. DmTypeOK /\ Distinct /\ Apart /\ DescsFilled
  BY DEF DmInv
<1>2. desc \subseteq Mbufs /\ ToSet(rxq) \subseteq Mbufs /\ desc \cap ToSet(rxq) = {}
  BY <1>1, IndexedCounts DEF DmTypeOK, Apart
<1>3. CASE UNCHANGED <<rxq, desc>>
  <2>1. ToSet(rxq)' = ToSet(rxq)
    BY <1>3 DEF ToSet
  <2>2. DescsFilled' /\ rxq' \in Seq(Mbufs)
    BY <1>1, <1>3 DEF DescsFilled, DmTypeOK
  <2> QED BY <1>1, <1>2, <1>3, <2>1, <2>2 DEF Distinct
<1>4. CASE rxq' = <<>> /\ desc' = desc \cup ToSet(rxq)
  <2>1. rxq' \in Seq(Mbufs) /\ ToSet(rxq)' = {} /\ Len(rxq') = 0
    BY <1>4 DEF ToSet
  <2>2. Cardinality(desc \cup ToSet(rxq)) = Cardinality(desc) + Cardinality(ToSet(rxq))
    BY <1>2, MbufSets, DisjointCount
  <2>3. Cardinality(desc') = kNumRxDesc
    BY <1>1, <1>4, <2>2, IndexedCounts DEF DescsFilled
  <2>4. DescsFilled'
    BY <2>1, <2>3, DpdkMbufsAssumption DEF DescsFilled
  <2> QED BY <1>2, <1>4, <2>1, <2>4
<1> QED BY <1>3, <1>4 DEF drain_rx_queue

\* The constructor and the destructor, which drain the RX queue.
LEMMA DrainKeepsMbufs ==
    ASSUME DmInv, dm_ctor \/ dm_dtor
    PROVE  DmInv'
<1>1. /\ DmTypeOK /\ Covered /\ Apart /\ nb_rx = 0 /\ nb_rx' = 0 /\ drain_rx_queue
      /\ tx_left = 0 /\ tx_mbufs = {} /\ dm_up' \in BOOLEAN
      /\ UNCHANGED <<pool, tx_left, tx_mbufs, txq, lost>>
  <2>1. CASE dm_ctor
    BY <2>1 DEF DmInv, dm_ctor, DownIdle
  <2>2. CASE dm_dtor
    <3>1. tx_left = 0 /\ tx_mbufs = {}
      BY <2>2 DEF DmInv, DmTypeOK, dm_dtor, in_tx_burst
    <3> QED BY <2>2, <3>1 DEF DmInv, dm_dtor
  <2> QED BY <2>1, <2>2
<1>2. held = {} /\ held' = {}
  BY <1>1, NoBurst DEF held, entries_from
<1>3. kRxRing \in Nat \ {0} /\ 0 \in Entries /\ 0 % kRxRing = 0 /\ 0 \in 0 .. kRxBatchSize
  BY DpdkMbufsAssumption DEF Entries
<1>4. /\ rx_ring' \in [Entries -> Mbufs \cup {NoMbuf}]
      /\ dm_head' \in Entries /\ dm_tail' \in Entries /\ rpc_head' \in Entries
  BY <1>1, <1>3 DEF DmTypeOK, dm_ctor, dm_dtor
<1>5. DmTypeOK'
  BY <1>1, <1>3, <1>4, Drained DEF DmTypeOK
<1>6. Covered' /\ Apart'
  BY <1>1, <1>2, Drained DEF Covered, Apart
<1>7. Distinct'
  BY <1>1, Drained DEF Distinct
<1>8. DpdkRingAgrees'
  BY <1>1, <1>3 DEF DpdkRingAgrees, dm_ctor, dm_dtor
<1>9. TxBounded' /\ DownIdle'
  BY <1>1 DEF DmInv, TxBounded, DownIdle
<1> QED BY <1>1, <1>5, <1>6, <1>7, <1>8, <1>9, Drained DEF DmInv

\* What the ring and the TX batch of a dead process point to is lost.
LEMMA DeathKeepsMbufs ==
    ASSUME DmInv, dm_dies
    PROVE  DmInv'
<1>1. /\ DmTypeOK /\ Covered /\ Apart /\ Distinct /\ DescsFilled /\ nb_rx' = 0
      /\ dm_up' = FALSE /\ lost' = lost \cup held \cup tx_mbufs
      /\ tx_left' = 0 /\ tx_mbufs' = {} /\ UNCHANGED <<pool, desc, rxq, txq>>
  BY DEF DmInv, dm_dies
<1>2. held' = {} /\ ToSet(rxq)' = ToSet(rxq)
  BY <1>1 DEF held, entries_from, ToSet
<1>3. held \subseteq Mbufs
  BY <1>1 DEF Covered
<1>4. DmTypeOK'
  <2>1. /\ pool' \subseteq Mbufs /\ desc' \subseteq Mbufs /\ txq' \subseteq Mbufs
        /\ lost' \subseteq Mbufs /\ rxq' \in Seq(Mbufs) /\ nb_rx' \in 0 .. kRxBatchSize
        /\ tx_mbufs' \subseteq Mbufs /\ tx_left' \in 0 .. kTxBatchSize
    BY <1>1, <1>3, DpdkMbufsAssumption DEF DmTypeOK
  <2>2. dm_up' \in BOOLEAN
    BY <1>1
  <2>3. UNCHANGED <<rx_ring, dm_head, dm_tail, rpc_head>>
    BY DEF dm_dies
  <2> QED BY <1>1, <2>1, <2>2, <2>3 DEF DmTypeOK
<1>5. Covered' /\ Apart'
  BY <1>1, <1>2 DEF Covered, Apart
<1>6. Distinct' /\ DescsFilled' /\ DpdkRingAgrees'
  BY <1>1 DEF Distinct, DescsFilled, DpdkRingAgrees
<1>7. TxBounded' /\ DownIdle'
  <2>1. Cardinality({}) = 0
    BY FS_EmptySet
  <2> QED BY <1>1, <2>1, DpdkMbufsAssumption DEF DmInv, TxBounded, DownIdle
<1> QED BY <1>4, <1>5, <1>6, <1>7 DEF DmInv

\* The NIC takes a descriptor's mbuf for a packet.
LEMMA NicRecvKeepsMbufs ==
    ASSUME DmInv, dm_nic_recv
    PROVE  DmInv'
<1>1. /\ DmTypeOK /\ Covered /\ Apart /\ Distinct /\ DescsFilled /\ DpdkRingAgrees
      /\ TxBounded /\ DownIdle
      /\ UNCHANGED <<dm_up, pool, rx_ring, dm_head, dm_tail, rpc_head, nb_rx, tx_left,
                     tx_mbufs, txq, lost>>
  BY DEF DmInv, dm_nic_recv
<1>2. PICK m \in desc : desc' = desc \ {m} /\ rxq' = Append(rxq, m)
  BY DEF dm_nic_recv
<1>3. /\ rxq \in Seq(Mbufs) /\ Len(rxq) \in Nat /\ m \in Mbufs /\ rxq' \in Seq(Mbufs)
      /\ Len(rxq') = Len(rxq) + 1 /\ rxq'[Len(rxq) + 1] = m
      /\ \A i \in 1 .. Len(rxq) : rxq'[i] = rxq[i]
  BY <1>1, <1>2 DEF DmTypeOK
<1>4. ToSet(rxq)' = ToSet(rxq) \cup {m} /\ m \notin ToSet(rxq)
  <2>1. ToSet(rxq)' = ToSet(rxq) \cup {m}
    BY <1>3 DEF ToSet
  <2>2. m \notin ToSet(rxq)
    BY <1>1 DEF Apart
  <2> QED BY <2>1, <2>2
<1>5. held' = held
  BY <1>1 DEF held
<1>6. DmTypeOK'
  BY <1>1, <1>2, <1>3 DEF DmTypeOK
<1>7. Covered' /\ Apart'
  BY <1>1, <1>2, <1>4, <1>5 DEF Covered, Apart
<1>8. Distinct'
  <2>1. \A i \in 1 .. Len(rxq) : rxq[i] # m
    BY <1>3, <1>4 DEF ToSet
  <2>2. ASSUME NEW i \in 1 .. Len(rxq'), NEW j \in 1 .. Len(rxq'), rxq'[i] = rxq'[j]
        PROVE  i = j
    BY <1>1, <1>3, <2>1, <2>2 DEF Distinct
  <2>3. \A i, j \in 0 .. nb_rx' - 1 : Burst(i)' = Burst(j)' => i = j
    BY <1>1 DEF Distinct, Burst
  <2> QED BY <2>2, <2>3 DEF Distinct
<1>9. DescsFilled'
  <2>1. IsFiniteSet(desc) /\ Cardinality(desc) \in Nat
    BY <1>1, MbufSets DEF DmTypeOK
  <2>2. Cardinality(desc \ {m}) = Cardinality(desc) - 1
    BY <2>1, FS_RemoveElement
  <2> QED BY <1>1, <1>2, <1>3, <2>1, <2>2 DEF DescsFilled
<1>10. DpdkRingAgrees' /\ TxBounded' /\ DownIdle'
  BY <1>1 DEF DpdkRingAgrees, TxBounded, DownIdle
<1> QED BY <1>1, <1>6, <1>7, <1>8, <1>9, <1>10 DEF DmInv

\* The pool, the TX batch and the TX ring exchange mbufs, and nothing else moves.
MbufMove ==
    /\ UNCHANGED <<dm_up, desc, rxq, rx_ring, dm_head, dm_tail, rpc_head, nb_rx, lost>>
    /\ pool' \cup tx_mbufs' \cup txq' = pool \cup tx_mbufs \cup txq
    /\ pool' \cap tx_mbufs' = {} /\ pool' \cap txq' = {} /\ tx_mbufs' \cap txq' = {}
    /\ tx_left' \in 0 .. kTxBatchSize

LEMMA MbufsMove ==
    ASSUME DmInv, MbufMove, TxBounded', DownIdle'
    PROVE  DmInv'
<1>1. DmTypeOK /\ Covered /\ Apart /\ Distinct /\ DescsFilled /\ DpdkRingAgrees
  BY DEF DmInv
<1>2. held' = held /\ ToSet(rxq)' = ToSet(rxq)
  BY DEF MbufMove, held, ToSet
<1>3. pool' \subseteq Mbufs /\ txq' \subseteq Mbufs /\ tx_mbufs' \subseteq Mbufs
  BY <1>1 DEF MbufMove, DmTypeOK
<1>4. DmTypeOK'
  BY <1>1, <1>3 DEF MbufMove, DmTypeOK
<1>5. Covered' /\ Apart'
  BY <1>1, <1>2 DEF MbufMove, Covered, Apart
<1>6. Distinct'
  BY <1>1 DEF MbufMove, Distinct, Burst
<1>7. DescsFilled' /\ DpdkRingAgrees'
  BY <1>1 DEF MbufMove, DescsFilled, DpdkRingAgrees
<1> QED BY <1>4, <1>5, <1>6, <1>7 DEF DmInv

\* Sets of mbufs have cardinalities to count with.
LEMMA TxCounts ==
    ASSUME DmInv
    PROVE  /\ IsFiniteSet(txq) /\ IsFiniteSet(tx_mbufs)
           /\ Cardinality(txq) \in Nat /\ Cardinality(tx_mbufs) \in Nat
           /\ tx_left \in Nat /\ tx_left <= kTxBatchSize
           /\ kTxBatchSize \in Nat /\ kNumTxRingDesc \in Nat /\ Cardinality({}) = 0
  BY MbufSets, DpdkMbufsAssumption, FS_EmptySet DEF DmInv, DmTypeOK

LEMMA NicSendKeepsMbufs ==
    ASSUME DmInv, dm_nic_send
    PROVE  DmInv'
<1>1. /\ UNCHANGED <<dm_up, desc, rxq, rx_ring, dm_head, dm_tail, rpc_head, nb_rx, tx_left,
                     tx_mbufs, lost>>
      /\ pool' = pool \cup txq /\ txq' = {}
  BY DEF dm_nic_send
<1>2. pool \cap tx_mbufs = {} /\ txq \cap tx_mbufs = {} /\ tx_left \in 0 .. kTxBatchSize
  BY DEF DmInv, Apart, DmTypeOK
<1>3. TxBounded' /\ DownIdle'
  BY <1>1, TxCounts DEF DmInv, TxBounded, DownIdle
<1>4. MbufMove
  BY <1>1, <1>2 DEF MbufMove
<1> QED BY <1>3, <1>4, MbufsMove

LEMMA TxBurstKeepsMbufs ==
    ASSUME DmInv, NEW n \in 1 .. kTxBatchSize, dm_tx_burst(n)
    PROVE  DmInv'
<1>1. /\ UNCHANGED <<dm_up, desc, rxq, rx_ring, dm_head, dm_tail, rpc_head, nb_rx, pool,
                     tx_mbufs, txq, lost>>
      /\ dm_up /\ tx_left' = n /\ tx_mbufs = {}
  BY DEF dm_tx_burst, in_tx_burst
<1>2. pool \cap txq = {} /\ n \in 0 .. kTxBatchSize
  BY TxCounts DEF DmInv, Apart
<1>3. TxBounded' /\ DownIdle'
  BY <1>1, <1>2, TxCounts DEF DmInv, TxBounded, DownIdle
<1>4. MbufMove
  BY <1>1, <1>2 DEF MbufMove
<1> QED BY <1>3, <1>4, MbufsMove

LEMMA TxAllocKeepsMbufs ==
    ASSUME DmInv, dm_tx_alloc
    PROVE  DmInv'
<1>1. /\ UNCHANGED <<dm_up, desc, rxq, rx_ring, dm_head, dm_tail, rpc_head, nb_rx, txq, lost>>
      /\ tx_left > 0 /\ tx_left' = tx_left - 1
  BY DEF dm_tx_alloc
<1>2. PICK m \in pool : pool' = pool \ {m} /\ tx_mbufs' = tx_mbufs \cup {m}
  BY DEF dm_tx_alloc
<1>3. pool \cap tx_mbufs = {} /\ pool \cap txq = {} /\ tx_mbufs \cap txq = {}
  BY DEF DmInv, Apart
<1>4. tx_left' \in 0 .. kTxBatchSize
  BY <1>1, TxCounts
<1>5. Cardinality(tx_mbufs') = Cardinality(tx_mbufs) + 1
  BY <1>2, <1>3, TxCounts, FS_AddElement
<1>6. TxBounded'
  BY <1>1, <1>5, TxCounts DEF DmInv, TxBounded
<1>7. DownIdle'
  BY <1>1, TxCounts DEF DmInv, DownIdle
<1>8. MbufMove
  BY <1>1, <1>2, <1>3, <1>4 DEF MbufMove
<1> QED BY <1>6, <1>7, <1>8, MbufsMove

LEMMA TxRingKeepsMbufs ==
    ASSUME DmInv, dm_tx_ring
    PROVE  DmInv'
<1>1. /\ UNCHANGED <<dm_up, desc, rxq, rx_ring, dm_head, dm_tail, rpc_head, nb_rx, pool,
                     tx_left, lost>>
      /\ Cardinality(txq) < kNumTxRingDesc
  BY DEF dm_tx_ring
<1>2. PICK m \in tx_mbufs : tx_mbufs' = tx_mbufs \ {m} /\ txq' = txq \cup {m}
  BY DEF dm_tx_ring
<1>3. /\ pool \cap tx_mbufs = {} /\ pool \cap txq = {} /\ tx_mbufs \cap txq = {}
      /\ tx_left \in 0 .. kTxBatchSize
  BY DEF DmInv, Apart, DmTypeOK
<1>4. Cardinality(txq') = Cardinality(txq) + 1
  BY <1>2, <1>3, TxCounts, FS_AddElement
<1>5. Cardinality(tx_mbufs') = Cardinality(tx_mbufs) - 1
  BY <1>2, TxCounts, FS_RemoveElement
<1>6. TxBounded'
  BY <1>1, <1>4, <1>5, TxCounts DEF DmInv, TxBounded
<1>7. DownIdle'
  BY <1>1, <1>2 DEF DmInv, DownIdle
<1>8. MbufMove
  BY <1>1, <1>2, <1>3 DEF MbufMove
<1> QED BY <1>6, <1>7, <1>8, MbufsMove

\* The size of a burst is limited by its array, by the packets and by the pool.
LEMMA BurstSize ==
    ASSUME DmTypeOK
    PROVE  /\ burst_size \in 0 .. kRxBatchSize
           /\ burst_size <= Len(rxq) /\ burst_size <= Cardinality(pool)
<1> DEFINE Fits(n) == /\ n <= Len(rxq) /\ n <= Cardinality(pool)
                      /\ n = kRxBatchSize \/ n = Len(rxq) \/ n = Cardinality(pool)
<1>1. Len(rxq) \in Nat /\ Cardinality(pool) \in Nat /\ kRxBatchSize \in Nat
  BY MbufSets, DpdkMbufsAssumption DEF DmTypeOK
<1>2. \E n \in 0 .. kRxBatchSize : Fits(n)
  <2>1. CASE kRxBatchSize <= Len(rxq) /\ kRxBatchSize <= Cardinality(pool)
    <3>1. kRxBatchSize \in 0 .. kRxBatchSize /\ Fits(kRxBatchSize)
      BY <1>1, <2>1
    <3> QED BY <3>1
  <2>2. CASE Len(rxq) <= kRxBatchSize /\ Len(rxq) <= Cardinality(pool)
    <3>1. Len(rxq) \in 0 .. kRxBatchSize /\ Fits(Len(rxq))
      BY <1>1, <2>2
    <3> QED BY <3>1
  <2>3. CASE Cardinality(pool) <= kRxBatchSize /\ Cardinality(pool) <= Len(rxq)
    <3>1. Cardinality(pool) \in 0 .. kRxBatchSize /\ Fits(Cardinality(pool))
      BY <1>1, <2>3
    <3> QED BY <3>1
  <2> QED BY <1>1, <2>1, <2>2, <2>3
<1>3. burst_size \in 0 .. kRxBatchSize /\ Fits(burst_size)
  BY <1>2 DEF burst_size
<1> QED BY <1>3

\* rx_burst writes packet i to entry i of the ring from its head on.
LEMMA BurstInRing ==
    ASSUME DmInv, dm_rx_burst
    PROVE  \A i \in 0 .. burst_size - 1 : Burst(i)' = rxq[i + 1]
<1>1. /\ DmTypeOK /\ dm_up /\ nb_rx = 0 /\ dm_tail' = dm_tail
      /\ rpc_head = dm_tail /\ dm_head = (dm_tail + nb_rx) % kRxRing
  BY DEF DmInv, dm_rx_burst, DpdkRingAgrees
<1>2. /\ kRxRing \in Nat \ {0} /\ dm_tail \in Entries /\ dm_tail \in Nat /\ dm_tail < kRxRing
      /\ burst_size \in Nat /\ burst_size <= kRxRing
  BY <1>1, BurstSize, DpdkMbufsAssumption DEF DmTypeOK, Entries
<1>3. dm_head = dm_tail
  BY <1>1, <1>2, RingHome
<1> SUFFICES ASSUME NEW i \in 0 .. burst_size - 1 PROVE Burst(i)' = rxq[i + 1]
  OBVIOUS
<1>4. i \in 0 .. kRxRing /\ i \in Entries /\ 0 \in 0 .. kRxRing /\ kRxRing \in 0 .. kRxRing
  BY <1>2 DEF Entries
<1>5. PICK e \in Entries : e = (dm_tail + i) % kRxRing
  BY <1>2, <1>4, RingIndex
<1>6. e = IF dm_tail + i < kRxRing THEN dm_tail + i ELSE dm_tail + i - kRxRing
  BY <1>2, <1>4, <1>5, RingIndex
<1>7. (e - dm_head + kRxRing) % kRxRing = i
  <2>1. (i + 0) % kRxRing = i /\ (i + kRxRing) % kRxRing = i
    BY <1>4, RingHome
  <2>2. CASE dm_tail + i < kRxRing
    <3>1. e - dm_head + kRxRing = i + kRxRing
      BY <1>2, <1>3, <1>6, <2>2
    <3> QED BY <2>1, <3>1
  <2>3. CASE ~(dm_tail + i < kRxRing)
    <3>1. e - dm_head + kRxRing = i + 0
      BY <1>2, <1>3, <1>6, <2>3
    <3> QED BY <2>1, <3>1
  <2> QED BY <2>2, <2>3
<1>8. rx_ring'[e] = rxq[i + 1]
  BY <1>2, <1>7 DEF dm_rx_burst
<1> QED BY <1>1, <1>5, <1>8 DEF Burst

\* A burst moves packets to the ring, and fresh mbufs to their descriptors.
LEMMA RxBurstKeepsMbufs ==
    ASSUME DmInv, dm_rx_burst
    PROVE  DmInv'
<1>1. /\ DmTypeOK /\ Covered /\ Apart /\ Distinct /\ DescsFilled /\ DpdkRingAgrees
      /\ dm_up /\ nb_rx = 0 /\ nb_rx' = burst_size
      /\ UNCHANGED <<dm_up, dm_tail, rpc_head, tx_left, tx_mbufs, txq, lost>>
  BY DEF DmInv, dm_rx_burst
<1>2. PICK n \in 0 .. kRxBatchSize : n = burst_size
  BY <1>1, BurstSize
<1>3. /\ n \in Nat /\ n <= kRxBatchSize /\ n <= kRxRing /\ n <= Len(rxq) /\ n <= Cardinality(pool)
      /\ rxq \in Seq(Mbufs) /\ Len(rxq) \in Nat /\ Cardinality(pool) \in Nat
      /\ IsFiniteSet(pool) /\ IsFiniteSet(desc) /\ Cardinality(desc) \in Nat
      /\ pool \subseteq Mbufs /\ desc \subseteq Mbufs
  BY <1>1, <1>2, BurstSize, MbufSets, DpdkMbufsAssumption DEF DmTypeOK
<1>4. PICK fresh \in SUBSET pool :
        Cardinality(fresh) = n /\ pool' = pool \ fresh /\ desc' = desc \cup fresh
  <2>1. \E s \in SUBSET pool : Cardinality(s) = n
    BY <1>3, SubsetOfSize
  <2> DEFINE c == CHOOSE s \in SUBSET pool : Cardinality(s) = n
  <2>2. c \in SUBSET pool /\ Cardinality(c) = n
    BY <2>1
  <2>3. pool' = pool \ c /\ desc' = desc \cup c
    BY <1>2 DEF dm_rx_burst
  <2> QED BY <2>2, <2>3
<1>5. /\ rxq' \in Seq(Mbufs) /\ Len(rxq') = Len(rxq) - n
      /\ \A i \in 1 .. Len(rxq) - n : rxq'[i] = rxq[n + i]
  BY <1>2, <1>3 DEF dm_rx_burst
<1> DEFINE polled == {rxq[i] : i \in 1 .. n}
<1>6. held' = polled /\ \A i \in 0 .. n - 1 : Burst(i)' = rxq[i + 1]
  <2>1. \A i \in 0 .. n - 1 : Burst(i)' = rxq[i + 1]
    BY <1>2, BurstInRing
  <2>2. held' = {Burst(i)' : i \in 0 .. n - 1}
    BY <1>1, <1>2 DEF held, entries_from, Burst
  <2>3. ASSUME NEW j \in 1 .. n PROVE rxq[j] \in held'
    <3>1. j - 1 \in 0 .. n - 1 /\ (j - 1) + 1 = j
      BY <1>3
    <3> QED BY <2>1, <2>2, <3>1
  <2>4. ASSUME NEW x \in held' PROVE x \in polled
    <3>1. PICK i \in 0 .. n - 1 : x = rxq[i + 1]
      BY <2>1, <2>2, <2>4
    <3>2. i + 1 \in 1 .. n
      BY <1>3
    <3> QED BY <3>1, <3>2
  <2> QED BY <2>1, <2>3, <2>4
<1>7. ToSet(rxq) = polled \cup ToSet(rxq)' /\ polled \cap ToSet(rxq)' = {}
  <2>1. \A x \in ToSet(rxq)' : \E j \in 1 .. Len(rxq) : j > n /\ x = rxq[j]
    BY <1>3, <1>5 DEF ToSet
  <2>2. ASSUME NEW j \in 1 .. Len(rxq), j > n PROVE rxq[j] \in ToSet(rxq)'
    <3>1. j - n \in 1 .. Len(rxq') /\ n + (j - n) = j /\ rxq'[j - n] = rxq[j]
      BY <1>3, <1>5, <2>2
    <3> QED BY <1>5, <3>1 DEF ToSet
  <2>3. ToSet(rxq) = {rxq[j] : j \in 1 .. Len(rxq)}
    BY <1>3 DEF ToSet
  <2>4. ToSet(rxq) = polled \cup ToSet(rxq)'
    BY <1>3, <2>1, <2>2, <2>3
  <2>5. polled \cap ToSet(rxq)' = {}
    BY <1>1, <1>3, <2>1 DEF Distinct
  <2> QED BY <2>4, <2>5
<1>8. held = {}
  BY <1>1, NoBurst
<1>9. DmTypeOK'
  <2>1. rx_ring' \in [Entries -> Mbufs \cup {NoMbuf}]
    <3>1. ASSUME NEW e \in Entries PROVE rx_ring'[e] \in Mbufs \cup {NoMbuf}
      <4>1. (e - dm_head + kRxRing) % kRxRing \in Nat
        BY <1>1, DpdkMbufsAssumption DEF DmTypeOK, Entries
      <4>2. rx_ring[e] \in Mbufs \cup {NoMbuf}
        BY <1>1 DEF DmTypeOK
      <4>3. \A i \in 1 .. Len(rxq) : rxq[i] \in Mbufs
        BY <1>3
      <4> QED BY <1>2, <1>3, <4>1, <4>2, <4>3 DEF dm_rx_burst
    <3> QED BY <3>1 DEF dm_rx_burst
  <2>2. dm_head' \in Entries
    BY <1>1, <1>2, <1>3, RingIndex DEF dm_rx_burst, DmTypeOK
  <2>3. pool' \subseteq Mbufs /\ desc' \subseteq Mbufs /\ nb_rx' \in 0 .. kRxBatchSize
    BY <1>1, <1>2, <1>3, <1>4
  <2> QED BY <1>1, <1>5, <2>1, <2>2, <2>3 DEF DmTypeOK
<1> HIDE DEF polled
<1>10. Covered'
  BY <1>1, <1>4, <1>6, <1>7, <1>8 DEF Covered
<1>11. Apart'
  BY <1>1, <1>4, <1>6, <1>7, <1>8 DEF Apart
<1>12. Distinct'
  <2>1. ASSUME NEW i \in 1 .. Len(rxq'), NEW j \in 1 .. Len(rxq'), rxq'[i] = rxq'[j]
        PROVE  i = j
    BY <1>1, <1>3, <1>5, <2>1 DEF Distinct
  <2>2. ASSUME NEW i \in 0 .. n - 1, NEW j \in 0 .. n - 1, Burst(i)' = Burst(j)'
        PROVE  i = j
    <3>1. i + 1 \in 1 .. Len(rxq) /\ j + 1 \in 1 .. Len(rxq) /\ rxq[i + 1] = rxq[j + 1]
      BY <1>3, <1>6, <2>2
    <3>2. i + 1 = j + 1
      BY <1>1, <3>1 DEF Distinct
    <3> QED BY <1>3, <3>2
  <2> QED BY <1>1, <1>2, <2>1, <2>2 DEF Distinct
<1>13. DescsFilled'
  <2>1. IsFiniteSet(fresh) /\ desc \cap fresh = {}
    BY <1>1, <1>3, <1>4, MbufSets DEF Apart
  <2>2. Cardinality(desc') = Cardinality(desc) + n
    BY <1>3, <1>4, <2>1, DisjointCount
  <2> QED BY <1>1, <1>3, <1>5, <2>2 DEF DescsFilled
<1>14. DpdkRingAgrees'
  <2>1. dm_head = dm_tail
    BY <1>1, RingHome DEF DpdkRingAgrees, DmTypeOK
  <2> QED BY <1>1, <2>1 DEF DpdkRingAgrees, dm_rx_burst
<1>15. TxBounded' /\ DownIdle'
  BY <1>1 DEF DmInv, TxBounded, DownIdle
<1> QED BY <1>9, <1>10, <1>11, <1>12, <1>13, <1>14, <1>15 DEF DmInv

\* post_recvs gives the mbufs of the burst back, and the indices meet.
LEMMA PostRecvsKeepsMbufs ==
    ASSUME DmInv, dm_post_recvs
    PROVE  DmInv'
<1>1. /\ DmTypeOK /\ Covered /\ Apart /\ Distinct /\ DescsFilled /\ DpdkRingAgrees
      /\ dm_up /\ nb_rx' = 0 /\ pool' = pool \cup held
      /\ UNCHANGED <<dm_up, desc, rxq, dm_head, tx_left, tx_mbufs, txq, lost>>
  BY DEF DmInv, dm_post_recvs
<1>2. held' = {} /\ ToSet(rxq)' = ToSet(rxq)
  BY <1>1 DEF held, entries_from, ToSet
<1>3. nb_rx \in 0 .. kRxRing /\ 0 \in 0 .. kRxRing
  BY <1>1, DpdkMbufsAssumption DEF DmTypeOK
<1>4. dm_tail' \in Entries /\ rpc_head' = dm_tail' /\ dm_head' = dm_tail'
  BY <1>1, <1>3, RingIndex DEF dm_post_recvs, DpdkRingAgrees, DmTypeOK
<1>5. DmTypeOK'
  <2>1. pool' \subseteq Mbufs
    BY <1>1 DEF Covered
  <2>2. rx_ring' \in [Entries -> Mbufs \cup {NoMbuf}]
    BY <1>1 DEF DmTypeOK, dm_post_recvs
  <2>3. nb_rx' \in 0 .. kRxBatchSize
    BY <1>1, DpdkMbufsAssumption
  <2> QED BY <1>1, <1>4, <2>1, <2>2, <2>3 DEF DmTypeOK
<1>6. Covered' /\ Apart'
  BY <1>1, <1>2 DEF Covered, Apart
<1>7. Distinct' /\ DescsFilled'
  BY <1>1 DEF Distinct, DescsFilled
<1>8. DpdkRingAgrees'
  <2>1. (dm_tail' + 0) % kRxRing = dm_tail'
    BY <1>4, RingHome
  <2> QED BY <1>1, <1>4, <2>1 DEF DpdkRingAgrees
<1>9. TxBounded' /\ DownIdle'
  BY <1>1 DEF DmInv, TxBounded, DownIdle
<1> QED BY <1>5, <1>6, <1>7, <1>8, <1>9 DEF DmInv

\* Every step of the owners of the QP, the NIC and the driver keeps the invariant.
LEMMA DmNextInv == DmInv /\ [DmNext]_dmvars => DmInv'
<1> SUFFICES ASSUME DmInv, [DmNext]_dmvars PROVE DmInv'
  OBVIOUS
<1>1. CASE dm_ctor \/ dm_dtor
  BY <1>1, DrainKeepsMbufs
<1>2. CASE dm_crash \/ dm_tx_assert
  BY <1>2, DeathKeepsMbufs DEF dm_crash, dm_tx_assert
<1>3. CASE dm_nic_recv
  BY <1>3, NicRecvKeepsMbufs
<1>4. CASE dm_nic_send
  BY <1>4, NicSendKeepsMbufs
<1>5. CASE \E n \in 1 .. kTxBatchSize : dm_tx_burst(n)
  BY <1>5, TxBurstKeepsMbufs
<1>6. CASE dm_tx_alloc \/ dm_tx_ring
  BY <1>6, TxAllocKeepsMbufs, TxRingKeepsMbufs
<1>7. CASE dm_rx_burst \/ dm_post_recvs
  BY <1>7, RxBurstKeepsMbufs, PostRecvsKeepsMbufs
<1>8. CASE UNCHANGED dmvars
  <2>1. ToSet(rxq)' = ToSet(rxq) /\ held' = held /\ \A i : Burst(i)' = Burst(i)
    BY <1>8 DEF dmvars, ToSet, held, Burst
  <2>2. Covered' /\ Apart' /\ DescsFilled' /\ DpdkRingAgrees'
    BY <1>8, <2>1 DEF dmvars, DmInv, Covered, Apart, DescsFilled, DpdkRingAgrees
  <2>3. Distinct' /\ DmTypeOK' /\ TxBounded' /\ DownIdle'
    BY <1>8, <2>1 DEF dmvars, DmInv, Distinct, DmTypeOK, TxBounded, DownIdle
  <2> QED BY <2>2, <2>3 DEF DmInv
<1> QED BY <1>1, <1>2, <1>3, <1>4, <1>5, <1>6, <1>7, <1>8 DEF DmNext

\* The seven places make up the pool.
LEMMA DmCount ==
    ASSUME DmInv
    PROVE  Cardinality(pool) + kNumRxDesc + nb_rx + Cardinality(tx_mbufs) + Cardinality(txq)
             + Cardinality(lost) = kNumMbufs
<1>1. DmTypeOK /\ Covered /\ Apart /\ Distinct /\ DescsFilled
  BY DEF DmInv
<1>2. /\ pool \subseteq Mbufs /\ desc \subseteq Mbufs /\ ToSet(rxq) \subseteq Mbufs
      /\ held \subseteq Mbufs /\ tx_mbufs \subseteq Mbufs /\ txq \subseteq Mbufs
      /\ lost \subseteq Mbufs
  BY <1>1, IndexedCounts DEF DmTypeOK, Covered
<1> DEFINE A == pool \cup desc
           B == A \cup ToSet(rxq)
           C == B \cup held
           E == C \cup tx_mbufs
           D == E \cup txq
<1>3. /\ IsFiniteSet(pool) /\ IsFiniteSet(desc) /\ IsFiniteSet(ToSet(rxq))
      /\ IsFiniteSet(held) /\ IsFiniteSet(tx_mbufs) /\ IsFiniteSet(txq) /\ IsFiniteSet(lost)
      /\ IsFiniteSet(A) /\ IsFiniteSet(B) /\ IsFiniteSet(C) /\ IsFiniteSet(E)
      /\ IsFiniteSet(D)
  BY <1>2, MbufSets, FS_Union
<1>4. /\ pool \cap desc = {} /\ A \cap ToSet(rxq) = {} /\ B \cap held = {}
      /\ C \cap tx_mbufs = {} /\ E \cap txq = {} /\ D \cap lost = {}
  BY <1>1 DEF Apart
<1>5. Cardinality(A) = Cardinality(pool) + Cardinality(desc)
  BY <1>3, <1>4, DisjointCount
<1>6. Cardinality(B) = Cardinality(A) + Cardinality(ToSet(rxq))
  <2> HIDE DEF A
  <2> QED BY <1>3, <1>4, DisjointCount
<1>7. Cardinality(C) = Cardinality(B) + Cardinality(held)
  <2> HIDE DEF B
  <2> QED BY <1>3, <1>4, DisjointCount
<1>8. Cardinality(E) = Cardinality(C) + Cardinality(tx_mbufs)
  <2> HIDE DEF C
  <2> QED BY <1>3, <1>4, DisjointCount
<1>13. Cardinality(D) = Cardinality(E) + Cardinality(txq)
  <2> HIDE DEF E
  <2> QED BY <1>3, <1>4, DisjointCount
<1>9. Cardinality(D \cup lost) = Cardinality(D) + Cardinality(lost)
  <2> HIDE DEF D
  <2> QED BY <1>3, <1>4, DisjointCount
<1>10. D \cup lost = Mbufs
  BY <1>1 DEF Covered
<1>11. /\ Cardinality(pool) \in Nat /\ Cardinality(desc) \in Nat /\ Cardinality(txq) \in Nat
       /\ Cardinality(lost) \in Nat /\ nb_rx \in Nat /\ Len(rxq) \in Nat /\ kNumRxDesc \in Nat
       /\ Cardinality(tx_mbufs) \in Nat
  BY <1>1, <1>2, MbufSets, DpdkMbufsAssumption DEF DmTypeOK
<1> HIDE DEF A, B, C, D, E
<1>12. Cardinality(pool) + Cardinality(desc) + Len(rxq) + nb_rx + Cardinality(tx_mbufs)
         + Cardinality(txq) + Cardinality(lost) = kNumMbufs
  BY <1>1, <1>5, <1>6, <1>7, <1>8, <1>9, <1>13, <1>10, IndexedCounts, MbufSets
<1> QED BY <1>1, <1>11, <1>12 DEF DescsFilled

LEMMA DmInvConserves == DmInv => MbufsConserved
<1> SUFFICES ASSUME DmInv PROVE MbufsConserved
  OBVIOUS
<1>1. DmTypeOK /\ Covered /\ Apart /\ Distinct /\ DpdkRingAgrees
  BY DEF DmInv
<1>2. OnePlaceEach
  <2> DEFINE places == <<pool, desc, ToSet(rxq), held, tx_mbufs, txq, lost>>
  <2>1. UNION {places[i] : i \in 1 .. 7} = Mbufs
    <3>1. UNION {places[i] : i \in 1 .. 7}
            = places[1] \cup places[2] \cup places[3] \cup places[4] \cup places[5]
                \cup places[6] \cup places[7]
      <4> HIDE DEF places
      <4> QED OBVIOUS
    <3> QED BY <1>1, <3>1 DEF Covered
  <2>2. ASSUME NEW i \in 1 .. 7, NEW j \in 1 .. 7, i # j
        PROVE  places[i] \cap places[j] = {}
    <3>1. i = 1 \/ i = 2 \/ i = 3 \/ i = 4 \/ i = 5 \/ i = 6 \/ i = 7
      OBVIOUS
    <3>2. j = 1 \/ j = 2 \/ j = 3 \/ j = 4 \/ j = 5 \/ j = 6 \/ j = 7
      OBVIOUS
    <3> QED BY <1>1, <2>2, <3>1, <3>2 DEF Apart
  <2> QED BY <1>1, <2>1, <2>2, IndexedCounts DEF OnePlaceEach
<1>3. TxMbufAvailable
  <2>1. /\ kNumMbufs \in Nat /\ kNumRxDesc \in Nat /\ kNumTxRingDesc \in Nat
        /\ kRxBatchSize \in Nat /\ nb_rx \in Nat /\ nb_rx <= kRxBatchSize
    BY <1>1, DpdkMbufsAssumption DEF DmTypeOK
  <2>2. Cardinality(pool) \in Nat /\ Cardinality(lost) \in Nat
    BY <1>1, MbufSets DEF DmTypeOK
  <2>3. pool = {} => Cardinality(pool) = 0
    BY FS_EmptySet
  <2>4. Cardinality(txq) <= kNumTxRingDesc /\ tx_left + Cardinality(tx_mbufs) <= kTxBatchSize
    BY DEF DmInv, TxBounded
  <2> QED BY <2>1, <2>2, <2>3, <2>4, DmCount, TxCounts DEF TxMbufAvailable
<1> QED BY <1>1, <1>2, <1>3 DEF MbufsConserved

\* Through constructors, destructors and crashes, for every size of the pool and
\* of the rings: each mbuf is in exactly one place, the three indices of the RX
\* ring agree, and tx_burst finds an mbuf for each packet of its batch until dead
\* processes have leaked the spare ones.
THEOREM MbufsHold == DmSpec => []MbufsConserved
  BY DmInitInv, DmNextInv, DmInvConserves, PTL DEF DmSpec
===============================================================================
