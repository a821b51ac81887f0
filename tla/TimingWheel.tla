----------------------------- MODULE TimingWheel -----------------------------
(***************************************************************************)
(* TimingWheel: the rate limiter's ring of slots, each a chain of buckets, *)
(* with the sessions that feed it (Session::cc_getupdate_tx_tsc), Timely's *)
(* rate updates, and the event loop that drains the ready queue.           *)
(*                                                                         *)
(* Time stamps are relative to the present: 0 is now, a positive value     *)
(* lies in the future.  The clock runs at FreqNum / FreqDen cycles per     *)
(* unit of time; widths and horizon are converted to cycles by the         *)
(* truncation of us_to_cycles.                                             *)
(***************************************************************************)
EXTENDS Integers, Sequences, FiniteSets

CONSTANTS Sessions,
          kSessionCredits,
          kMTU,              \* largest packet
          kMinRate,          \* Timely's least rate, packet units per unit time
          kLinkBandwidth,    \* Timely's greatest rate
          kWheelSlotWidth,   \* kWheelSlotWidthUs
          FreqNum, FreqDen,  \* freq_ghz_
          kWheelBucketCap,   \* entries per bucket
          kPoolStart,        \* buckets of the pool's first extension
          kMaxLag            \* bound on how far the event loop falls behind

kWheelHorizon == (kSessionCredits * kMTU) \div kMinRate
CeilDiv(a, b) == (a + b - 1) \div b
kWheelNumWslots == 1 + CeilDiv(kWheelHorizon, kWheelSlotWidth)
us_to_cycles(us) == (us * FreqNum) \div FreqDen
wslot_width_tsc == us_to_cycles(kWheelSlotWidth)
horizon_tsc == us_to_cycles(kWheelHorizon)
kMaxDelta == (kMTU * FreqNum) \div (FreqDen * kMinRate)

ASSUME WheelAssumption ==
    /\ kSessionCredits \in Nat \ {0} /\ kMTU \in Nat \ {0}
    /\ kMinRate \in Nat \ {0} /\ kLinkBandwidth \in Nat /\ kMinRate <= kLinkBandwidth
    /\ kWheelSlotWidth \in Nat \ {0} /\ FreqNum \in Nat \ {0} /\ FreqDen \in Nat \ {0}
    /\ kWheelBucketCap \in Nat \ {0} /\ kPoolStart \in Nat \ {0} /\ kMaxLag \in Nat
    /\ wslot_width_tsc > 0
    /\ (kSessionCredits * kMTU) % kMinRate = 0

VARIABLES wheel,          \* wheel_: the chain of each slot, a sequence of buckets
          tx_tsc,         \* tx_tsc_ of each slot
          cur_wslot,      \* cur_wslot_
          ready_queue,    \* ready_queue_
          bkt_pool,       \* buckets in bkt_pool_
          num_to_alloc,   \* num_to_alloc_ of the pool
          bkt_total,      \* buckets the pool ever got from the allocator
          prev_desired,   \* prev_desired_tx_tsc_ of each session
          timely_rate,    \* rate_ of each session
          pkt_next,       \* number of each session's next packet
          wheel_bad,      \* an assertion of insert failed
          wheel_up        \* the Rpc constructor has caught up the wheel

wheelvars == <<wheel, tx_tsc, cur_wslot, ready_queue, bkt_pool, num_to_alloc, bkt_total,
               prev_desired, timely_rate, pkt_next, wheel_bad, wheel_up>>

Wslots == 0 .. kWheelNumWslots - 1
PktNums == 0 .. 2 * kSessionCredits    \* enough to order the packets in flight
Oldest == -(kMaxLag + wslot_width_tsc + kMaxDelta)
Earlier(t) == IF t > Oldest THEN t - 1 ELSE t

EmptyChain == << <<>> >>

WheelInit ==
    /\ wheel = [i \in Wslots |-> EmptyChain]
    /\ tx_tsc = [i \in Wslots |-> (i + 1) * wslot_width_tsc]
    /\ cur_wslot = 0 /\ ready_queue = <<>>
    /\ bkt_pool = 0 /\ num_to_alloc = kPoolStart /\ bkt_total = 0
    /\ prev_desired = [s \in Sessions |-> Oldest]
    /\ timely_rate = [s \in Sessions |-> kLinkBandwidth]
    /\ pkt_next = [s \in Sessions |-> 0]
    /\ wheel_bad = FALSE /\ wheel_up = FALSE

Flatten(chain) == LET cat[n \in 0 .. Len(chain)] ==
                        IF n = 0 THEN <<>> ELSE cat[n - 1] \o chain[n]
                  IN  cat[Len(chain)]
NthWslot(n) == (cur_wslot + n) % kWheelNumWslots

\* The places of the entries of a wheel, and of the buckets chained to the
\* first ones of the slots in S.
WheelPlaces(wh) ==
    UNION {UNION {{<<i, b, k>> : k \in DOMAIN wh[i][b]} : b \in DOMAIN wh[i]} : i \in Wslots}
EntryAt(wh, p) == wh[p[1]][p[2]][p[3]]
Chained(wh, S) == UNION {{<<i, b>> : b \in 2 .. Len(wh[i])} : i \in S}

\* The loop of reap(now): it takes ReapCount slots in turn; reap_wslot moves a
\* slot's entries to the ready queue and returns its chained buckets.
ReapCount == IF tx_tsc[cur_wslot] > 0 THEN 0
             ELSE 1 + (-tx_tsc[cur_wslot]) \div wslot_width_tsc
Reaped == {NthWslot(n) : n \in 0 .. ReapCount - 1}
ReapedTimes(i) == Cardinality({n \in 0 .. ReapCount - 1 : NthWslot(n) = i})

\* The state after reap(now), as a record for the functions that call it.
reap ==
    [wheel |-> [i \in Wslots |-> IF i \in Reaped THEN EmptyChain ELSE wheel[i]],
     tx_tsc |-> [i \in Wslots |->
                    tx_tsc[i] + ReapedTimes(i) * wslot_width_tsc * kWheelNumWslots],
     cur |-> NthWslot(ReapCount),
     ready |-> ready_queue \o Flatten([n \in 1 .. Cardinality(Reaped) |->
                                          Flatten(wheel[NthWslot(n - 1)])]),
     pool |-> bkt_pool + Cardinality(Chained(wheel, Reaped))]

\* process_wheel_st: reap, then transmit everything in the ready queue.
process_wheel_st ==
    /\ wheel_up
    /\ wheel' = reap.wheel /\ tx_tsc' = reap.tx_tsc /\ cur_wslot' = reap.cur
    /\ ready_queue' = <<>> /\ bkt_pool' = reap.pool
    /\ UNCHANGED <<num_to_alloc, bkt_total, prev_desired, timely_rate, pkt_next,
                   wheel_bad, wheel_up>>

\* The last step of the Rpc constructor; the wheel is still empty.
catchup ==
    /\ ~wheel_up /\ wheel_up' = TRUE
    /\ wheel' = reap.wheel /\ tx_tsc' = reap.tx_tsc /\ cur_wslot' = reap.cur
    /\ ready_queue' = reap.ready /\ bkt_pool' = reap.pool
    /\ UNCHANGED <<num_to_alloc, bkt_total, prev_desired, timely_rate, pkt_next, wheel_bad>>

MaxOf(a, b) == IF a >= b THEN a ELSE b
MinOf(a, b) == IF a <= b THEN a ELSE b

\* Session::cc_getupdate_tx_tsc with ref_tsc = now.
cc_getupdate_tx_tsc(s, pktsz) ==
    MaxOf(prev_desired[s] + (pktsz * FreqNum) \div (FreqDen * timely_rate[s]), 0)

\* Entries of a session that are in the wheel or in the ready queue: each holds
\* a credit, and credits come back only for packets that were transmitted.
WheelOf(s) == {p \in WheelPlaces(wheel) : EntryAt(wheel, p).session = s}
ReadyOf(s) == {k \in DOMAIN ready_queue : ready_queue[k].session = s}
InWheel(s) == Cardinality(WheelOf(s)) + Cardinality(ReadyOf(s))

\* Variant that rounds down.
wslot_delta_floor(r, desired) ==
    IF desired <= r.tx_tsc[r.cur] THEN 0
    ELSE (desired - r.tx_tsc[r.cur]) \div wslot_width_tsc

wslot_delta(r, desired) ==
    IF desired <= r.tx_tsc[r.cur] THEN 0
    ELSE 1 + (desired - r.tx_tsc[r.cur]) \div wslot_width_tsc
dst_wslot(r, desired) ==
    LET d == r.cur + wslot_delta(r, desired)
    IN  IF d >= kWheelNumWslots THEN d - kWheelNumWslots ELSE d

\* insert_into_wslot: the entry goes to the last bucket of the chain; when that
\* fills up, alloc_bkt chains another, extending an empty pool.
insert_into_wslot(r, ws, ent) ==
    LET chain == r.wheel[ws]
        last == Append(chain[Len(chain)], ent)
        full == Len(last) = kWheelBucketCap
        extend == full /\ r.pool = 0
    IN  /\ wheel' = [r.wheel EXCEPT ![ws] =
                        [chain EXCEPT ![Len(chain)] = last]
                        \o (IF full THEN EmptyChain ELSE <<>>)]
        /\ bkt_pool' = r.pool + (IF extend THEN num_to_alloc ELSE 0)
                              - (IF full THEN 1 ELSE 0)
        /\ num_to_alloc' = IF extend THEN 2 * num_to_alloc ELSE num_to_alloc
        /\ bkt_total' = IF extend THEN bkt_total + num_to_alloc ELSE bkt_total

\* enqueue_wheel_req_st and enqueue_wheel_rfr_st with TimingWheel::insert.
enqueue_wheel(s, pktsz) ==
    /\ wheel_up /\ InWheel(s) < kSessionCredits
    /\ LET desired == cc_getupdate_tx_tsc(s, pktsz)
           r == reap
       IN  /\ wheel_bad' = (\/ wheel_bad
                            \/ desired > horizon_tsc
                            \/ r.tx_tsc[r.cur] <= 0
                            \/ wslot_delta(r, desired) >= kWheelNumWslots)
           /\ prev_desired' = [prev_desired EXCEPT ![s] = desired]
           /\ pkt_next' = [pkt_next EXCEPT ![s] = (@ + 1) % Cardinality(PktNums)]
           /\ insert_into_wslot(r, dst_wslot(r, desired),
                  [session |-> s, num |-> pkt_next[s], desired |-> desired])
           /\ tx_tsc' = r.tx_tsc /\ cur_wslot' = r.cur /\ ready_queue' = r.ready
    /\ UNCHANGED <<timely_rate, wheel_up>>

\* Timely::update_rate: whatever the gradient computes, the rate at most halves
\* and stays between the least rate and the link's bandwidth.
update_rate(s, new_rate) ==
    /\ timely_rate' = [timely_rate EXCEPT ![s] =
            MaxOf(MinOf(MaxOf(new_rate, CeilDiv(@, 2)), kLinkBandwidth), kMinRate)]
    /\ UNCHANGED <<wheel, tx_tsc, cur_wslot, ready_queue, bkt_pool, num_to_alloc, bkt_total,
                   prev_desired, pkt_next, wheel_bad, wheel_up>>

\* The time-stamp counter.
Aged(q) == [i \in DOMAIN q |-> [q[i] EXCEPT !.desired = Earlier(@)]]
wheel_tick ==
    /\ tx_tsc[cur_wslot] > -kMaxLag
    /\ tx_tsc' = [i \in Wslots |-> tx_tsc[i] - 1]
    /\ wheel' = [i \in Wslots |-> [b \in DOMAIN wheel[i] |-> Aged(wheel[i][b])]]
    /\ ready_queue' = Aged(ready_queue)
    /\ prev_desired' = [s \in Sessions |-> Earlier(prev_desired[s])]
    /\ UNCHANGED <<cur_wslot, bkt_pool, num_to_alloc, bkt_total, timely_rate, pkt_next,
                   wheel_bad, wheel_up>>

WheelNext ==
    \/ process_wheel_st
    \/ catchup
    \/ \E s \in Sessions, z \in 1 .. kMTU : enqueue_wheel(s, z)
    \/ \E s \in Sessions, n \in 0 .. kLinkBandwidth : update_rate(s, n)
    \/ wheel_tick

WheelSpec == WheelInit /\ [][WheelNext]_wheelvars

WheelEntry == [session : Sessions, num : PktNums, desired : Oldest .. horizon_tsc]

WheelTypeOK ==
    /\ wheel \in [Wslots -> Seq(Seq(WheelEntry))] /\ ready_queue \in Seq(WheelEntry)
    /\ tx_tsc \in [Wslots -> Int] /\ cur_wslot \in Wslots
    /\ bkt_pool \in Nat /\ num_to_alloc \in Nat /\ bkt_total \in Nat
    /\ prev_desired \in [Sessions -> Int] /\ pkt_next \in [Sessions -> PktNums]
    /\ timely_rate \in [Sessions -> kMinRate .. kLinkBandwidth]
    /\ wheel_bad \in BOOLEAN /\ wheel_up \in BOOLEAN

\* The assertions of insert (timing_wheel.h:139-151) hold: sessions pace their
\* packets so that credits alone keep every desired time within the horizon,
\* and within the horizon the slot computed is one of the wheel's.
WheelAsserts == ~wheel_bad

\* A packet leaves the wheel neither before its time nor more than one slot
\* late: a slot's entries want a time in that slot's own interval, through
\* every turn of the wheel (timing_wheel.h:115-123, 145-155).
WheelPrecise ==
    /\ \A p \in WheelPlaces(wheel) :
          /\ tx_tsc[p[1]] - wslot_width_tsc <= EntryAt(wheel, p).desired
          /\ EntryAt(wheel, p).desired <= tx_tsc[p[1]]
    /\ \A k \in DOMAIN ready_queue : ready_queue[k].desired <= 0

\* The packets that a session enqueued after that of an entry, and that one.
Age(e) == (pkt_next[e.session] - e.num) % Cardinality(PktNums)
Entries(s) == {ready_queue[k] : k \in ReadyOf(s)} \cup {EntryAt(wheel, p) : p \in WheelOf(s)}
\* The entry at p leaves the wheel before that at q.
Turn(i) == (i + kWheelNumWslots - cur_wslot) % kWheelNumWslots
Sooner(p, q) ==
    \/ Turn(p[1]) < Turn(q[1])
    \/ p[1] = q[1] /\ p[2] < q[2]
    \/ p[1] = q[1] /\ p[2] = q[2] /\ p[3] < q[3]

\* Packets of a session leave in the order in which they were enqueued, with
\* none missing in between: "Doing so can reorder this entry before prior
\* entries in the current wheel slot" (timing_wheel.h:129-131).
WheelFifo ==
    \A s \in Sessions :
        /\ \A k, l \in ReadyOf(s) : k < l => Age(ready_queue[k]) > Age(ready_queue[l])
        /\ \A k \in ReadyOf(s), p \in WheelOf(s) :
              Age(ready_queue[k]) > Age(EntryAt(wheel, p))
        /\ \A p, q \in WheelOf(s) :
              Sooner(p, q) => Age(EntryAt(wheel, p)) > Age(EntryAt(wheel, q))
        /\ \A e \in Entries(s) :
              Age(e) # 0 /\ 1 .. Age(e) \subseteq {Age(f) : f \in Entries(s)}

\* Every bucket is in the pool or in one chain, and the last bucket of a chain
\* has room, which the next insertion relies on (timing_wheel.h:163-177).
BucketsConserved ==
    /\ bkt_total = bkt_pool + Cardinality(Chained(wheel, Wslots))
    /\ bkt_pool >= 0
    /\ \A i \in Wslots : Len(wheel[i][Len(wheel[i])]) < kWheelBucketCap

\* The wheel paces: its assertions hold, packets leave on time and in order, and
\* its buckets are accounted for.
WheelPaces == WheelAsserts /\ WheelPrecise /\ WheelFifo /\ BucketsConserved
=============================================================================
