---------------------------- MODULE RdmaAllocators ----------------------------
(***************************************************************************)
(* RDMARegionAllocator, which cuts the registered memory of a machine into *)
(* one region per thread, and RDMABufferAllocator, which hands out a       *)
(* region's buffers by moving an offset and starts over at its end.        *)
(***************************************************************************)
EXTENDS Integers

CONSTANTS thread_num,
          PER_THREAD_ALLOC_SIZE,
          kMaxAlloc               \* the largest buffer asked for

ASSUME AllocatorAssumption ==
    /\ thread_num \in Nat \ {0} /\ kMaxAlloc \in Nat \ {0}
    /\ PER_THREAD_ALLOC_SIZE \in Nat /\ kMaxAlloc <= PER_THREAD_ALLOC_SIZE

VARIABLES cur_offset,   \* cur_offset of each thread's RDMABufferAllocator
          handed        \* each thread's latest buffers, each with the bytes
                        \* handed out since, its own included

allocvars == <<cur_offset, handed>>
AllocThreads == 0 .. thread_num - 1

GetThreadLocalRegion(t) == [start |-> t * PER_THREAD_ALLOC_SIZE,
                            end |-> (t + 1) * PER_THREAD_ALLOC_SIZE]

AllocInit ==
    /\ cur_offset = [t \in AllocThreads |-> 0]
    /\ handed = [t \in AllocThreads |-> {}]

\* A buffer is kept in the history for as long as a property speaks of it.
Recent(h) == {b \in h : b.bytes <= PER_THREAD_ALLOC_SIZE - (kMaxAlloc - 1)}

\* Variant that tests the offset without the size.
AllocOffset_unsized(t, size) ==
    LET r == GetThreadLocalRegion(t)
    IN  IF r.start + cur_offset[t] > r.end THEN 0 ELSE cur_offset[t]

\* RDMABufferAllocator::Alloc.
AllocOffset(t, size) ==
    LET r == GetThreadLocalRegion(t)
    IN  IF r.start + cur_offset[t] + size > r.end THEN 0 ELSE cur_offset[t]
Alloc(t, size) ==
    LET off == AllocOffset(t, size)
        buf == [addr |-> GetThreadLocalRegion(t).start + off, size |-> size, bytes |-> size]
        older == {[b EXCEPT !.bytes = @ + size] : b \in handed[t]}
    IN  /\ cur_offset' = [cur_offset EXCEPT ![t] = off + size]
        /\ handed' = [handed EXCEPT ![t] = Recent(older \cup {buf})]

AllocNext == \E t \in AllocThreads, size \in 1 .. kMaxAlloc : Alloc(t, size)

AllocSpec == AllocInit /\ [][AllocNext]_allocvars

AllocTypeOK ==
    /\ cur_offset \in [AllocThreads -> 0 .. PER_THREAD_ALLOC_SIZE]
    /\ handed \in [AllocThreads -> SUBSET [addr : Nat, size : 1 .. kMaxAlloc, bytes : Nat]]

BufBytes(b) == b.addr .. b.addr + b.size - 1

\* Buffers of different threads never meet, and none leaves the registered
\* memory (region_allocator.h:38-41).
ThreadsApart ==
    \A t \in AllocThreads : \A b \in handed[t] :
        /\ BufBytes(b) \subseteq 0 .. thread_num * PER_THREAD_ALLOC_SIZE - 1
        /\ \A u \in AllocThreads \ {t} : \A d \in handed[u] : BufBytes(b) \cap BufBytes(d) = {}

\* A buffer is intact until, with it, as many bytes have been handed out as the
\* region holds less the gap that the largest buffer may leave at its end: only
\* then "the region can be re-used (i.e., overwritten) at the front offset"
\* (buffer_allocator.h:16-27).  Until then it meets no other buffer, of its own
\* thread or of another.
ReuseDistance ==
    /\ \A t \in AllocThreads : \A b, d \in handed[t] :
          b # d => BufBytes(b) \cap BufBytes(d) = {}
    /\ ThreadsApart
=============================================================================
