------------------------------ MODULE HugeAlloc ------------------------------
(***************************************************************************)
(* HugeAlloc: the hugepage allocator of an Rpc, with its per-class         *)
(* freelists, and the MsgBuffers that Rpc::alloc_msg_buffer lays out in    *)
(* the buffers it returns.  Addresses are bytes of one address space in    *)
(* which every SHM region has its own range.                               *)
(***************************************************************************)
EXTENDS Integers, Sequences, FiniteSets

CONSTANTS k_min_class_bit_shift,  \* the least class holds 2^this bytes
          k_num_classes,
          kAlign,                 \* sizeof(size_t)
          kPktHdr,                \* sizeof(pkthdr_t)
          kMaxDataPerPkt,
          kInitialSize,           \* initial_size of the constructor
          kRawSizes,              \* sizes asked of alloc_raw, in whole hugepages
          kBsrlOfZero,            \* what the bsrl of msb_index may leave for 0
          kDataSizes,             \* sizes asked of alloc_msg_buffer
          kMaxShm,                \* bound on the bytes of SHM
          kMaxMsgBufs             \* bound on the MsgBuffers in use

\* b << n.
Shl(b, n) == LET d[k \in Nat] == IF k = 0 THEN b ELSE 2 * d[k - 1]
             IN  d[n]

class_max_size(c) == Shl(1, k_min_class_bit_shift + c)
k_max_class_size == class_max_size(k_num_classes - 1)
Classes == 0 .. k_num_classes - 1

ASSUME HugeAssumption ==
    /\ k_min_class_bit_shift \in Nat /\ k_num_classes \in Nat \ {0}
    /\ kAlign \in Nat \ {0} /\ kPktHdr \in Nat \ {0} /\ kMaxDataPerPkt \in Nat \ {0}
    /\ kPktHdr % kAlign = 0 /\ class_max_size(0) % kAlign = 0
    /\ kInitialSize \in Nat /\ kInitialSize % k_max_class_size = 0
    /\ kRawSizes \subseteq Nat /\ kDataSizes \subseteq Nat \ {0} /\ kMaxShm \in Nat /\ kMaxMsgBufs \in Nat
    /\ kBsrlOfZero \subseteq Nat

VARIABLES freelist,        \* freelist_: the addresses in each class
          shm_list,        \* shm_list_
          prev_alloc_size, \* prev_allocation_size_
          user_alloc_tot,  \* stats_.user_alloc_tot_
          msg_bufs,        \* MsgBuffers in the application's hands
          huge_bad,        \* an assertion of split failed
          abort_size       \* the size whose class an assertion refused, or 0

hugevars == <<freelist, shm_list, prev_alloc_size, user_alloc_tot, msg_bufs, huge_bad,
              abort_size>>

HugeNew ==
    [freelist |-> [c \in Classes |-> <<>>], shm_list |-> <<>>,
     prev |-> IF kInitialSize < k_max_class_size THEN k_max_class_size ELSE kInitialSize]

HugeInit ==
    /\ freelist = HugeNew.freelist /\ shm_list = HugeNew.shm_list
    /\ prev_alloc_size = HugeNew.prev
    /\ user_alloc_tot = 0 /\ msg_bufs = {} /\ huge_bad = FALSE /\ abort_size = 0

\* stats_.shm_reserved_: the regions lie one behind the other.
shm_reserved == IF shm_list = <<>> THEN 0
                ELSE shm_list[Len(shm_list)].base + shm_list[Len(shm_list)].size

\* The index of the most significant bit, the 2^0 bit being 1: a set of outcomes,
\* because bsrl leaves its destination undefined for 0.
msb_index(x) ==
    IF x = 0 THEN kBsrlOfZero
    ELSE {CHOOSE n \in 1 .. x : Shl(1, n - 1) <= x /\ x < Shl(1, n)}
\* The classes that get_class may return: for a size up to the least class, any.
get_class(size) == msb_index((size - 1) \div Shl(1, k_min_class_bit_shift))
get_class_slow(size) ==
    LET class_lim(c) == Shl(class_max_size(0), c)
    IN  CHOOSE c \in Classes : /\ size <= class_lim(c)
                               /\ \A d \in 0 .. c - 1 : size > class_lim(d)

\* A new SHM region; the kernel may also be out of hugepages (ENOMEM).  RX rings
\* ask for a registered one, the timing wheel and pools for an unregistered one;
\* carved marks those that reserve_hugepages cuts into buffers.
Region(size, registered, carved) ==
    [base |-> shm_reserved, size |-> size, registered |-> registered, carved |-> carved]
alloc_raw(size, do_register) ==
    /\ shm_reserved + size <= kMaxShm
    /\ shm_list' = Append(shm_list, Region(size, do_register, FALSE))
    /\ UNCHANGED <<freelist, prev_alloc_size, user_alloc_tot, msg_bufs, huge_bad,
                   abort_size>>

\* reserve_hugepages: the freelists with a new region's buffers in the largest.
reserve_hugepages(fl, size) ==
    [fl EXCEPT ![k_num_classes - 1] =
        @ \o [i \in 1 .. size \div k_max_class_size |->
                 shm_reserved + (i - 1) * k_max_class_size]]

\* Variant that misplaces the second half.
split_apart(fl, c) ==
    LET buf == fl[c][Len(fl[c])]
    IN  [fl EXCEPT ![c] = SubSeq(@, 1, Len(@) - 1),
                   ![c - 1] = @ \o <<buf, buf + class_max_size(c)>>]

\* The buffer at the back of class c becomes two of the class below.
split(fl, c) ==
    LET buf == fl[c][Len(fl[c])]
    IN  [fl EXCEPT ![c] = SubSeq(@, 1, Len(@) - 1),
                   ![c - 1] = @ \o <<buf, buf + class_max_size(c) \div 2>>]

\* The loop of alloc that splits from class next down to class c.
SplitDown(fl, next, c) ==
    LET f[d \in c .. next] == IF d = next THEN fl ELSE split(f[d + 1], d + 1)
    IN  f
split_asserts(fl, next, c) ==
    \A d \in c + 1 .. next : /\ SplitDown(fl, next, c)[d][d] # <<>>
                             /\ SplitDown(fl, next, c)[d][d - 1] = <<>>

\* alloc_from_class at the end of alloc(size), and the MsgBuffer made of it.
alloc_from_class(fl, c, data, pkts) ==
    /\ freelist' = [fl EXCEPT ![c] = SubSeq(@, 1, Len(@) - 1)]
    /\ user_alloc_tot' = user_alloc_tot + class_max_size(c)
    /\ msg_bufs' = msg_bufs \cup {[buf |-> fl[c][Len(fl[c])], class |-> c,
                                   max_data |-> data, num_pkts |-> pkts]}

FirstNonEmpty(c) == {d \in c .. k_num_classes - 1 :
                        freelist[d] # <<>> /\ \A e \in c .. d - 1 : freelist[e] = <<>>}

\* alloc takes from the first class with buffers, splitting them on the way.
alloc_split(c, data, pkts) ==
    \E next \in FirstNonEmpty(c) :
        /\ alloc_from_class(SplitDown(freelist, next, c)[c], c, data, pkts)
        /\ huge_bad' = (huge_bad \/ ~split_asserts(freelist, next, c))
        /\ UNCHANGED <<shm_list, prev_alloc_size, abort_size>>

\* Without one it reserves twice as much as the last time.
alloc_reserve(c, data, pkts) ==
    LET size == 2 * prev_alloc_size
        fl == reserve_hugepages(freelist, size)
    IN  /\ FirstNonEmpty(c) = {}
        /\ shm_reserved + size <= kMaxShm
        /\ prev_alloc_size' = size
        /\ shm_list' = Append(shm_list, Region(size, TRUE, TRUE))
        /\ alloc_from_class(SplitDown(fl, k_num_classes - 1, c)[c], c, data, pkts)
        /\ huge_bad' = (huge_bad \/ ~split_asserts(fl, k_num_classes - 1, c))
        /\ UNCHANGED abort_size

\* When that fails too the caller gets a null buffer; the doubling is undone.
alloc_fails(c) ==
    /\ FirstNonEmpty(c) = {}
    /\ prev_alloc_size' = (2 * prev_alloc_size) \div 2
    /\ UNCHANGED <<freelist, shm_list, user_alloc_tot, msg_bufs, huge_bad, abort_size>>

\* An assertion about the class of a size aborts the process.
class_assert(size) ==
    /\ abort_size' = size
    /\ UNCHANGED <<freelist, shm_list, prev_alloc_size, user_alloc_tot, msg_bufs, huge_bad>>

data_size_to_num_pkts(data) ==
    IF data <= kMaxDataPerPkt THEN 1 ELSE (data + kMaxDataPerPkt - 1) \div kMaxDataPerPkt

alloc_msg_buffer(data) ==
    LET pkts == data_size_to_num_pkts(data)
        size == data + pkts * kPktHdr
    IN  /\ Cardinality(msg_bufs) < kMaxMsgBufs
        /\ size <= k_max_class_size
        /\ \E c \in get_class(size) :
              \/ /\ c \in Classes
                 /\ \/ alloc_split(c, data, pkts)
                    \/ alloc_reserve(c, data, pkts)
                    \/ alloc_fails(c)
              \/ c \notin Classes /\ class_assert(size)

\* free_buf: the class of the buffer's size must be the class it came from.
free_msg_buffer(m) ==
    \E c \in get_class(class_max_size(m.class)) :
        \/ /\ c = m.class
           /\ freelist' = [freelist EXCEPT ![c] = Append(@, m.buf)]
           /\ user_alloc_tot' = user_alloc_tot - class_max_size(m.class)
           /\ msg_bufs' = msg_bufs \ {m}
           /\ UNCHANGED <<shm_list, prev_alloc_size, huge_bad, abort_size>>
        \/ c # m.class /\ class_assert(class_max_size(m.class))

\* ~Rpc deletes the allocator, whose regions go with everything in them; the
\* next Rpc has a new one.
huge_dtor ==
    /\ freelist' = HugeNew.freelist /\ shm_list' = HugeNew.shm_list
    /\ prev_alloc_size' = HugeNew.prev
    /\ user_alloc_tot' = 0 /\ msg_bufs' = {}
    /\ UNCHANGED <<huge_bad, abort_size>>

HugeNext ==
    /\ abort_size = 0
    /\ \/ \E size \in kRawSizes, do_register \in BOOLEAN : alloc_raw(size, do_register)
       \/ \E data \in kDataSizes : alloc_msg_buffer(data)
       \/ \E m \in msg_bufs : free_msg_buffer(m)
       \/ huge_dtor

HugeSpec == HugeInit /\ [][HugeNext]_hugevars

MsgBuf == [buf : Nat, class : Classes, max_data : Nat, num_pkts : Nat]
HugeTypeOK ==
    /\ freelist \in [Classes -> Seq(Nat)]
    /\ shm_list \in Seq([base : Nat, size : Nat, registered : BOOLEAN, carved : BOOLEAN])
    /\ prev_alloc_size \in Nat /\ user_alloc_tot \in Nat
    /\ msg_bufs \subseteq MsgBuf /\ huge_bad \in BOOLEAN /\ abort_size \in Nat

\* Every buffer, free or in use, as the range of bytes it covers.
Bytes(addr, c) == addr .. addr + class_max_size(c) - 1
FreeBlocks(fl) == UNION {{<<fl[c][i], c, <<i>>>> : i \in 1 .. Len(fl[c])} : c \in Classes}
UsedBlocks(mb) == {<<m.buf, m.class, <<m.max_data, m.num_pkts>>>> : m \in mb}
Blocks == FreeBlocks(freelist) \cup UsedBlocks(msg_bufs)
\* The bytes of the regions cut into buffers, those of the others, and those of
\* MsgBuffers.
BytesIn(sl, carved) ==
    UNION {sl[i].base .. sl[i].base + sl[i].size - 1 :
              i \in {j \in 1 .. Len(sl) : sl[j].carved = carved}}
CarvedIn(sl) == BytesIn(sl, TRUE)
RawIn(sl) == BytesIn(sl, FALSE)
UsedBytes(mb) == UNION {Bytes(m.buf, m.class) : m \in mb}

\* The optimized get_class agrees with its "Reference function"
\* (huge_alloc.h:164) on every size above the least class; below, it returns
\* what bsrl leaves for 0.
ClassesAgree ==
    \A size \in class_max_size(0) + 1 .. k_max_class_size :
        get_class(size) = {get_class_slow(size)}

\* The assertions of split hold: a class that is split into is empty
\* (huge_alloc.h:181-183).  Those of alloc and free_buf about the class of a size
\* fail for no size above the least class.
HugeAsserts == ~huge_bad /\ abort_size <= class_max_size(0) /\ ClassesAgree

\* The buffers, free and in use, tile the regions reserved for them: no byte is
\* lost, none is in two buffers, none lies outside, in the RX ring, wheel or pool
\* that alloc_raw returned, or in a region that is not registered with the NIC; and
\* the bytes in use are those counted (huge_alloc.h:121-129, 180-212;
\* huge_alloc.cc:74-217).
BuffersTile ==
    /\ \A x, y \in Blocks : x # y => Bytes(x[1], x[2]) \cap Bytes(y[1], y[2]) = {}
    /\ UNION {Bytes(x[1], x[2]) : x \in Blocks} = CarvedIn(shm_list)
    /\ CarvedIn(shm_list) \cap RawIn(shm_list) = {}
    /\ \A i \in 1 .. Len(shm_list) : shm_list[i].carved => shm_list[i].registered
    /\ user_alloc_tot = Cardinality(UsedBytes(msg_bufs))
    /\ HugeAsserts

\* The assertions of alloc and free_buf about the class of a size never fail, as
\* the comment on msb_index promises ("x = 0 returns 0", math_utils.h:33-34): not
\* so if bsrl leaves anything but 0 for 0, which is the argument for every size up
\* to the least class.
ClassesAsserted == abort_size = 0

\* Variant that rounds past a multiple.
RoundUp_past(x) == (x \div kAlign + 1) * kAlign

RoundUp(x) == ((x + kAlign - 1) \div kAlign) * kAlign
\* get_pkthdr_n: packet header n of a MsgBuffer, as the bytes it covers.
get_pkthdr_n(m, n) ==
    LET at == IF n = 0 THEN m.buf
              ELSE m.buf + kPktHdr + RoundUp(m.max_data) + (n - 1) * kPktHdr
    IN  at .. at + kPktHdr - 1
DataBytes(m) == m.buf + kPktHdr .. m.buf + kPktHdr + m.max_data - 1

\* A MsgBuffer's packet headers and data stay in its buffer and apart, although
\* the size asked for omits the rounding that get_pkthdr_n adds in front of the
\* trailing headers (rpc.h:146-147, msg_buffer.h:41-46).
MsgBufferFits ==
    \A m \in msg_bufs :
        /\ DataBytes(m) \subseteq Bytes(m.buf, m.class)
        /\ \A n \in 0 .. m.num_pkts - 1 :
              /\ get_pkthdr_n(m, n) \subseteq Bytes(m.buf, m.class)
              /\ get_pkthdr_n(m, n) \cap DataBytes(m) = {}
              /\ \A k \in 0 .. n - 1 : get_pkthdr_n(m, k) \cap get_pkthdr_n(m, n) = {}
=============================================================================
