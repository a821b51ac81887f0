-------------------------- MODULE CoroutineScheduler --------------------------
(***************************************************************************)
(* CoroutineScheduler: the coroutines of one transaction thread, the ring  *)
(* of those that can run, and the polling of the queue pairs on which they *)
(* wait.  Coroutine 0 polls; the others post RDMA operations and yield.    *)
(* The queue pairs' hardware and the loop of coroutine 0 are external.     *)
(***************************************************************************)
EXTENDS Integers, Sequences, FiniteSets

CONSTANTS coro_num,     \* number of coroutines, the polling one included
          QPs,          \* queue pairs
          kMaxPending,  \* bound on the operations a coroutine has pending
          kMaxPollOps,  \* the same for the polling coroutine
          kMaxErrors,   \* bound on the queue pairs that break
          kMaxCrossed   \* bound on blocking calls on a queue pair in use

ASSUME CoroAssumption ==
    /\ coro_num \in Nat /\ coro_num >= 2 /\ kMaxPending \in Nat \ {0}
    /\ kMaxPollOps \in Nat /\ kMaxErrors \in Nat /\ kMaxCrossed \in Nat

Coros == 0 .. coro_num - 1
MaxPending(c) == IF c = 0 THEN kMaxPollOps ELSE kMaxPending

VARIABLES prev_coro, next_coro,  \* the links of each coroutine
          coro_tail,             \* coro_tail; coro_head is coroutine 0
          is_wait_poll,
          pending_counts,
          pending_qps,           \* the list of queue pairs to poll
          poll_it,               \* position of PollCompletion in it, 0 outside
          coro_running,          \* the coroutine that runs
          polled,                \* coroutine 0 has polled and is to run another
          sync_qp,               \* the queue pair a blocking call polls, if any
          synced,                \* a blocking call was made since the last switch
          sq, cq,                \* per queue pair: operations posted, completed
          qp_broken,             \* queue pairs in the error state
          coro_aborted,
          crossed,  \* blocking calls made on a queue pair with operations in it
          stolen    \* per coroutine: its completions that blocking calls took,
                    \* less the blocking calls it made

corovars == <<prev_coro, next_coro, coro_tail, is_wait_poll, pending_counts, pending_qps,
              poll_it, coro_running, polled, sync_qp, synced, sq, cq, qp_broken,
              coro_aborted, crossed, stolen>>
ring == <<prev_coro, next_coro, coro_tail, is_wait_poll>>
nic == <<sq, cq, qp_broken>>
blocking == <<crossed, stolen>>
thread == <<coro_running, polled, sync_qp, synced>>

coro_head == 0

\* The constructor and LoopLinkCoroutine.
CoroInit ==
    /\ prev_coro = [c \in Coros |-> IF c = 0 THEN coro_num - 1 ELSE c - 1]
    /\ next_coro = [c \in Coros |-> IF c = coro_num - 1 THEN coro_head ELSE c + 1]
    /\ coro_tail = coro_num - 1
    /\ is_wait_poll = [c \in Coros |-> FALSE]
    /\ pending_counts = [c \in Coros |-> 0] /\ pending_qps = <<>> /\ poll_it = 0
    /\ coro_running = 0 /\ polled = FALSE /\ sync_qp = {} /\ synced = FALSE
    /\ sq = [q \in QPs |-> <<>>] /\ cq = [q \in QPs |-> <<>>] /\ qp_broken = {}
    /\ coro_aborted = FALSE /\ crossed = 0 /\ stolen = [c \in Coros |-> 0]

InCoroutine(c) == coro_running = c /\ sync_qp = {} /\ poll_it = 0 /\ ~coro_aborted

\* post_send, post_send_to_mr, post_cas and post_batch: the signaled request
\* carries the coroutine's number.
Post(c, q) == sq' = [sq EXCEPT ![q] = Append(@, c)]

\* Variant that forgets to list the queue pair.
RDMAOp_unlisted(c, q) ==
    /\ InCoroutine(c) /\ pending_counts[c] < MaxPending(c)
    /\ Post(c, q)
    /\ pending_counts' = [pending_counts EXCEPT ![c] = @ + 1]
    /\ UNCHANGED <<ring, pending_qps, poll_it, thread, cq, qp_broken, coro_aborted, blocking>>

\* RDMAWrite, RDMARead, RDMACAS and RDMABatch, with AddPendingQP; a post that
\* fails changes nothing.
RDMAOp(c, q) ==
    /\ InCoroutine(c) /\ pending_counts[c] < MaxPending(c)
    /\ Post(c, q)
    /\ pending_qps' = Append(pending_qps, q)
    /\ pending_counts' = [pending_counts EXCEPT ![c] = @ + 1]
    /\ UNCHANGED <<ring, poll_it, thread, cq, qp_broken, coro_aborted, blocking>>

\* RDMAReadSync and RDMABatchSync block the whole thread in
\* poll_till_completion, which takes whichever completion of the queue pair
\* comes first, also one that a coroutine waits for.  One call per turn is
\* enough to meet every state of the queues.
RDMASync(c, q) ==
    /\ InCoroutine(c)
    /\ ~synced /\ synced' = TRUE
    /\ \/ sq[q] = <<>> /\ cq[q] = <<>> /\ UNCHANGED crossed
       \/ /\ sq[q] # <<>> \/ cq[q] # <<>>
          /\ crossed < kMaxCrossed /\ crossed' = crossed + 1
    /\ Post(c, q) /\ sync_qp' = {q}
    /\ stolen' = [stolen EXCEPT ![c] = @ - 1]
    /\ UNCHANGED <<ring, pending_counts, pending_qps, poll_it, coro_running, polled, cq,
                   qp_broken, coro_aborted>>
poll_till_completion ==
    /\ \E q \in sync_qp :
          /\ cq[q] # <<>> /\ cq' = [cq EXCEPT ![q] = Tail(@)]
          /\ stolen' = [stolen EXCEPT ![Head(cq[q]).wr_id] = @ + 1]
    /\ sync_qp' = {}
    /\ UNCHANGED <<ring, pending_counts, pending_qps, poll_it, coro_running, polled, synced,
                   sq, qp_broken, coro_aborted, crossed>>

\* Yield leaves the ring when something is pending, and runs the next one.
Yield(c) ==
    /\ c # coro_head /\ InCoroutine(c)
    /\ pending_counts[c] # 0
    /\ LET nxt == next_coro[c]
           prv == prev_coro[c]
       IN  /\ next_coro' = [next_coro EXCEPT ![prv] = nxt]
           /\ prev_coro' = [prev_coro EXCEPT ![nxt] = prv]
           /\ coro_tail' = IF coro_tail = c THEN prv ELSE coro_tail
           /\ is_wait_poll' = [is_wait_poll EXCEPT ![c] = TRUE, ![nxt] = FALSE]
           /\ coro_running' = nxt /\ synced' = FALSE
    /\ UNCHANGED <<pending_counts, pending_qps, poll_it, polled, sync_qp, nic, coro_aborted,
                   blocking>>

After(i, list) == IF i <= Len(list) THEN i ELSE 0    \* 0: it = pending_qps.end()

\* Coroutine 0 alternates PollCompletion with running the ring's next one, if
\* there is another.
PollStart ==
    /\ InCoroutine(0) /\ ~polled
    /\ poll_it' = After(1, pending_qps) /\ polled' = TRUE
    /\ UNCHANGED <<ring, pending_counts, pending_qps, coro_running, sync_qp, synced, nic,
                   coro_aborted, blocking>>
RunCoroutine ==
    /\ InCoroutine(0) /\ polled
    /\ LET nxt == next_coro[coro_head]
       IN  /\ is_wait_poll' = [is_wait_poll EXCEPT ![nxt] = FALSE]
           /\ coro_running' = nxt
    /\ polled' = FALSE /\ synced' = FALSE
    /\ UNCHANGED <<prev_coro, next_coro, coro_tail, pending_counts, pending_qps, poll_it,
                   sync_qp, nic, coro_aborted, blocking>>

\* Variant that leaves the tail where it was.
AppendCoroutine_untailed(c) ==
    IF is_wait_poll[c]
    THEN /\ next_coro' = [next_coro EXCEPT ![coro_tail] = c, ![c] = coro_head]
         /\ prev_coro' = [prev_coro EXCEPT ![c] = coro_tail]
         /\ UNCHANGED <<coro_tail, is_wait_poll>>
    ELSE UNCHANGED ring

\* AppendCoroutine puts c behind the tail; the head's prev_coro stays.
AppendCoroutine(c) ==
    IF is_wait_poll[c]
    THEN /\ next_coro' = [next_coro EXCEPT ![coro_tail] = c, ![c] = coro_head]
         /\ prev_coro' = [prev_coro EXCEPT ![c] = coro_tail]
         /\ coro_tail' = c
         /\ UNCHANGED is_wait_poll
    ELSE UNCHANGED ring

\* Variant that erases a queue pair that has no completion yet.
PollEmpty_erased ==
    /\ cq[pending_qps[poll_it]] = <<>>
    /\ pending_qps' = SubSeq(pending_qps, 1, poll_it - 1)
                      \o SubSeq(pending_qps, poll_it + 1, Len(pending_qps))
    /\ poll_it' = After(poll_it, pending_qps')
    /\ UNCHANGED <<ring, pending_counts, cq, coro_aborted>>

\* One iteration of the loop of PollCompletion.
PollEmpty ==
    /\ cq[pending_qps[poll_it]] = <<>>
    /\ poll_it' = After(poll_it + 1, pending_qps)
    /\ UNCHANGED <<ring, pending_counts, pending_qps, cq, coro_aborted>>
PollTake == cq' = [cq EXCEPT ![pending_qps[poll_it]] = Tail(@)]
PollRetryExc ==
    /\ PollTake /\ poll_it' = After(poll_it + 1, pending_qps)
    /\ UNCHANGED <<ring, pending_counts, pending_qps, coro_aborted>>
PollAbort ==
    /\ PollTake /\ coro_aborted' = TRUE
    /\ UNCHANGED <<ring, pending_counts, pending_qps, poll_it>>
PollZero ==
    /\ PollTake
    /\ UNCHANGED <<ring, pending_counts, pending_qps, poll_it, coro_aborted>>
\* assert(pending_counts[coro_id] > 0) aborts, unless NDEBUG left it out.
PollAssert(c) == pending_counts[c] <= 0 /\ PollAbort
PollDone(c) ==
    /\ PollTake
    /\ pending_counts' = [pending_counts EXCEPT ![c] = @ - 1]
    /\ IF pending_counts'[c] = 0 THEN AppendCoroutine(c) ELSE UNCHANGED ring
    /\ pending_qps' = SubSeq(pending_qps, 1, poll_it - 1)
                      \o SubSeq(pending_qps, poll_it + 1, Len(pending_qps))
    /\ poll_it' = After(poll_it, pending_qps')
    /\ UNCHANGED coro_aborted

PollCompletion ==
    /\ poll_it # 0 /\ ~coro_aborted
    /\ \/ PollEmpty
       \/ /\ cq[pending_qps[poll_it]] # <<>>
          /\ LET wc == Head(cq[pending_qps[poll_it]])
             IN  \/ wc.status = "retry_exc" /\ PollRetryExc
                 \/ wc.status = "flushed" /\ PollAbort
                 \/ wc.status = "ok" /\ wc.wr_id = 0 /\ PollZero
                 \/ wc.status = "ok" /\ wc.wr_id # 0 /\ (PollAssert(wc.wr_id) \/ PollDone(wc.wr_id))
    /\ UNCHANGED <<thread, sq, qp_broken, blocking>>

\* The NIC completes a queue pair's operations in order; once one fails, the
\* queue pair is broken and the rest are flushed.
nic_complete(q) ==
    /\ sq[q] # <<>>
    /\ \E st \in {"ok", "retry_exc", "flushed"} :
          /\ st = "ok" => q \notin qp_broken
          /\ st = "flushed" <=> q \in qp_broken
          /\ st = "retry_exc" => Cardinality(qp_broken) < kMaxErrors
          /\ qp_broken' = IF st = "retry_exc" THEN qp_broken \cup {q} ELSE qp_broken
          /\ cq' = [cq EXCEPT ![q] = Append(@, [wr_id |-> Head(sq[q]), status |-> st])]
    /\ sq' = [sq EXCEPT ![q] = Tail(@)]
    /\ UNCHANGED <<ring, pending_counts, pending_qps, poll_it, thread, coro_aborted, blocking>>

CoroThread ==
    \/ \E c \in Coros, q \in QPs : RDMAOp(c, q) \/ RDMASync(c, q)
    \/ \E c \in Coros : Yield(c)
    \/ poll_till_completion \/ PollStart \/ PollCompletion \/ RunCoroutine

CoroNext == CoroThread \/ \E q \in QPs : nic_complete(q)

\* The NIC completes what was posted, and the thread runs.  Between two switches
\* a coroutine makes a bounded number of calls, so it comes to yield.
CoroFairness ==
    /\ \A q \in QPs : WF_corovars(nic_complete(q))
    /\ WF_corovars(CoroThread)

CoroSpec == CoroInit /\ [][CoroNext]_corovars /\ CoroFairness

CoroTypeOK ==
    /\ prev_coro \in [Coros -> Coros] /\ next_coro \in [Coros -> Coros]
    /\ coro_tail \in Coros /\ coro_running \in Coros
    /\ is_wait_poll \in [Coros -> BOOLEAN]
    /\ (\A c \in Coros : pending_counts[c] \in -kMaxCrossed .. MaxPending(c))
    /\ pending_qps \in Seq(QPs)
    /\ poll_it \in 0 .. Len(pending_qps) /\ sync_qp \subseteq QPs
    /\ polled \in BOOLEAN /\ synced \in BOOLEAN
    /\ sq \in [QPs -> Seq(Coros)]
    /\ cq \in [QPs -> Seq([wr_id : Coros, status : {"ok", "retry_exc", "flushed"}])]
    /\ qp_broken \subseteq QPs /\ coro_aborted \in BOOLEAN
    /\ crossed \in 0 .. kMaxCrossed /\ stolen \in [Coros -> Int]

\* The coroutines that can run; and those that have gone below zero after a
\* blocking call took a completion of theirs: they left the ring only if they
\* yielded since.
Ready == {c \in Coros : ~is_wait_poll[c] \/ pending_counts[c] = 0}
Overdrawn == {c \in Coros : pending_counts[c] < 0}

\* w lists a cycle from the head to the tail, with its links in both directions;
\* only the head's own prev_coro goes stale.
RingOrder(w) ==
    /\ w[1] = coro_head /\ w[Len(w)] = coro_tail /\ next_coro[coro_tail] = coro_head
    /\ \A i, j \in 1 .. Len(w) : w[i] = w[j] => i = j
    /\ \A i \in 2 .. Len(w) : next_coro[w[i - 1]] = w[i] /\ prev_coro[w[i]] = w[i - 1]
    /\ LET members == {w[i] : i \in 1 .. Len(w)}
       IN  Ready \subseteq members /\ members \subseteq Ready \cup Overdrawn

\* The ring is one cycle through the head that ends in the tail and holds each
\* coroutine exactly while it can run (one whose count is below zero may be
\* either way); the links back are right for every member that may leave
\* (corotine_scheduler.h:215-265).
RingWellFormed == \E n \in 1 .. coro_num : \E w \in [1 .. n -> Coros] : RingOrder(w)

\* The places in the queues of all queue pairs where coroutine c has an
\* operation, and those of queue pair q in the list to poll.
Places(Q, c) == UNION {{<<q, i>> : i \in {j \in 1 .. Len(Q[q]) : Q[q][j] = c}} : q \in QPs}
cq_ids == [q \in QPs |-> [i \in 1 .. Len(cq[q]) |-> cq[q][i].wr_id]]
Outstanding(c) == Cardinality(Places(sq, c)) + Cardinality(Places(cq_ids, c))
Listed(q) == Cardinality({i \in 1 .. Len(pending_qps) : pending_qps[i] = q})

\* A coroutine's count is what it still waits for: its operations in the queues,
\* plus those whose completion a blocking call took away, less the completions
\* of its own blocking calls that are still to come; plus any that ended in
\* RETRY_EXC, whose completion is dropped without being counted.  As long as
\* every blocking call had its queue pair to itself, the counts are exact.  And
\* PollCompletion polls a queue pair as often as it has completions to come, so
\* none is forgotten (corotine_scheduler.cc:9-38, corotine_scheduler.h:111-130,
\* 178-196).
PendingAgree ==
    ~coro_aborted =>
    /\ \A c \in Coros \ {0} :
          LET due == Outstanding(c) + stolen[c]
          IN  IF qp_broken = {} THEN pending_counts[c] = due ELSE pending_counts[c] >= due
    /\ sync_qp = {} => \A q \in QPs : Listed(q) >= Len(sq[q]) + Len(cq[q])
    /\ sync_qp = {} /\ crossed = 0 => \A c \in Coros : stolen[c] = 0

\* "assert(pending_counts[coro_id] > 0)" (corotine_scheduler.cc:32): the
\* coroutine whose completion PollCompletion takes is waiting for one.  It fails
\* after a blocking call took another coroutine's completion.
PollAsserts ==
    poll_it # 0 /\ ~coro_aborted /\ cq[pending_qps[poll_it]] # <<>> =>
        LET wc == Head(cq[pending_qps[poll_it]])
        IN  wc.status = "ok" /\ wc.wr_id # 0 => pending_counts[wc.wr_id] > 0

\* As long as no queue pair breaks and every blocking call has its queue pair to
\* itself, a coroutine that waits is run again
\* (corotine_scheduler.cc:8-38, corotine_scheduler.h:229-265).
CoroResumes ==
    \A c \in Coros \ {0} :
        is_wait_poll[c] ~> (coro_running = c \/ qp_broken # {} \/ crossed > 0)
=============================================================================
