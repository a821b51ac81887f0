----------------------------- MODULE DpdkOwnership ----------------------------
(***************************************************************************)
(* DPDK queue pairs shared by the eRPC processes of a machine.  The owner  *)
(* of every QP of the port is kept in a memzone that the management daemon *)
(* creates; transports reserve a QP in their constructor, return it in     *)
(* their destructor, and the daemon reclaims the QPs of processes that     *)
(* died.  A new process may be given the PID of a dead one.                *)
(*                                                                         *)
(* The memzone is guarded by a std::mutex that lives in it and that nobody *)
(* recovers: a process that dies inside get_qp or free_qp, or the daemon   *)
(* inside its scan, leaves it locked for ever ("orphaned").  Every write   *)
(* of a critical section is a step of its own, so death may fall between   *)
(* any two.  The processes are the secondary DPDK processes of one port.   *)
(***************************************************************************)
EXTENDS Integers, FiniteSets

CONSTANTS Pids,               \* process ids
          Tids,               \* threads of a process, each with one transport
          kMaxQueuesPerPort

ASSUME DpdkAssumption ==
    /\ IsFiniteSet(Pids) /\ 0 \notin Pids
    /\ kMaxQueuesPerPort \in Nat \ {0}

Qps == 0 .. kMaxQueuesPerPort - 1
kInvalidQpId == kMaxQueuesPerPort
Threads == Pids \X Tids
pid_of(t) == t[1]

VARIABLES proc,               \* is there a live process with this PID
          owner,              \* owner_[phy_port][qp].pid_, 0 if free
          num_qps_available,
          mz_mutex,           \* mutex_ of the memzone
          dpdk_lock,          \* g_dpdk_lock of each process
          dp_pc,              \* where each thread is in its transport's life
          qp_id,              \* QP of the transport of each thread
          daemon, scan        \* where the daemon is, and i of its loop

dpvars == <<proc, owner, num_qps_available, mz_mutex, dpdk_lock, dp_pc, qp_id,
            daemon, scan>>

\* ownership_memzone_t::init; the daemon runs before any other process.
DpInit ==
    /\ proc = [p \in Pids |-> "dead"]
    /\ owner = [q \in Qps |-> 0] /\ num_qps_available = kMaxQueuesPerPort
    /\ mz_mutex = "free"
    /\ dpdk_lock = [p \in Pids |-> "free"]
    /\ dp_pc = [t \in Threads |-> "none"]
    /\ qp_id = [t \in Threads |-> kInvalidQpId]
    /\ daemon = "idle" /\ scan = 0

\* Threads inside a critical section of the memzone.
InGet == {"get", "taken", "got"}
InFree == {"free", "counted", "freed"}
inside(t) == dp_pc[t] \in InGet \cup InFree

-----------------------------------------------------------------------------
(* Processes start and die. *)

\* A process starts; its PID may have belonged to an earlier one.
dp_start(p) ==
    /\ proc[p] = "dead"
    /\ proc' = [proc EXCEPT ![p] = "live"]
    /\ UNCHANGED <<owner, num_qps_available, mz_mutex, dpdk_lock, dp_pc, qp_id,
                   daemon, scan>>

\* The process dies wherever its threads are; the memzone stays as it is, with
\* its mutex if one of them holds it.
dp_crash(p) ==
    /\ proc[p] = "live"
    /\ proc' = [proc EXCEPT ![p] = "dead"]
    /\ mz_mutex' = IF \E t \in Threads : pid_of(t) = p /\ inside(t)
                     THEN "orphaned" ELSE mz_mutex
    /\ dpdk_lock' = [dpdk_lock EXCEPT ![p] = "free"]
    /\ dp_pc' = [t \in Threads |-> IF pid_of(t) = p THEN "none" ELSE dp_pc[t]]
    /\ qp_id' = [t \in Threads |->
                    IF pid_of(t) = p THEN kInvalidQpId ELSE qp_id[t]]
    /\ UNCHANGED <<owner, num_qps_available, daemon, scan>>

\* So may the daemon.
dp_daemon_crash ==
    /\ daemon # "dead" /\ daemon' = "dead"
    /\ mz_mutex' = IF daemon = "idle" THEN mz_mutex ELSE "orphaned"
    /\ UNCHANGED <<proc, owner, num_qps_available, dpdk_lock, dp_pc, qp_id, scan>>

-----------------------------------------------------------------------------
(* The constructor: g_dpdk_lock, get_qp, drain_rx_queue, unlock.           *)

\* Thread t goes from one place to another.
goes(t, from, to) ==
    dp_pc[t] = from /\ dp_pc' = [dp_pc EXCEPT ![t] = to]

dp_ctor_call(t) ==
    /\ proc[pid_of(t)] = "live" /\ goes(t, "none", "waiting")
    /\ UNCHANGED <<proc, owner, num_qps_available, mz_mutex, dpdk_lock, qp_id,
                   daemon, scan>>

dp_ctor_lock(t) ==
    /\ dpdk_lock[pid_of(t)] = "free" /\ goes(t, "waiting", "locked")
    /\ dpdk_lock' = [dpdk_lock EXCEPT ![pid_of(t)] = "held"]
    /\ UNCHANGED <<proc, owner, num_qps_available, mz_mutex, qp_id, daemon, scan>>

get_qp_lock(t) ==
    /\ mz_mutex = "free" /\ mz_mutex' = "held" /\ goes(t, "locked", "get")
    /\ UNCHANGED <<proc, owner, num_qps_available, dpdk_lock, qp_id, daemon, scan>>

\* The first free QP.  The check for another process with the same PID never
\* fails: every process passes the same proc_random_id.
FreeQps == {q \in Qps : owner[q] = 0}

get_qp_take(t) ==
    /\ goes(t, "get", "taken")
    /\ \E q \in FreeQps :
        /\ \A r \in FreeQps : q <= r
        /\ owner' = [owner EXCEPT ![q] = pid_of(t)]
        /\ qp_id' = [qp_id EXCEPT ![t] = q]
    /\ UNCHANGED <<proc, num_qps_available, mz_mutex, dpdk_lock, daemon, scan>>

get_qp_count(t) ==
    /\ goes(t, "taken", "got")
    /\ num_qps_available' = num_qps_available - 1
    /\ UNCHANGED <<proc, owner, mz_mutex, dpdk_lock, qp_id, daemon, scan>>

\* Without a free QP get_qp returns, and the constructor throws with g_dpdk_lock
\* locked.
get_qp_none(t) ==
    /\ FreeQps = {} /\ goes(t, "get", "none") /\ mz_mutex' = "free"
    /\ dpdk_lock' = [dpdk_lock EXCEPT ![pid_of(t)] = "leaked"]
    /\ UNCHANGED <<proc, owner, num_qps_available, qp_id, daemon, scan>>

get_qp_unlock(t) ==
    /\ mz_mutex' = "free" /\ goes(t, "got", "has_qp")
    /\ UNCHANGED <<proc, owner, num_qps_available, dpdk_lock, qp_id, daemon, scan>>

\* The mempool is looked up, the RX queue drained (DpdkMbufs), the lock freed.
dp_ctor_unlock(t) ==
    /\ goes(t, "has_qp", "resolve")
    /\ dpdk_lock' = [dpdk_lock EXCEPT ![pid_of(t)] = "free"]
    /\ UNCHANGED <<proc, owner, num_qps_available, mz_mutex, qp_id, daemon, scan>>

\* resolve_phy_port and init_mem_reg_funcs.
dp_ctor_finish(t) ==
    /\ goes(t, "resolve", "up")
    /\ UNCHANGED <<proc, owner, num_qps_available, mz_mutex, dpdk_lock, qp_id,
                   daemon, scan>>

\* The constructor throws once it has a QP: before the unlock if there is no
\* mempool, after it if the port does not suit.  The destructor does not run,
\* so the QP stays with the process.
dp_ctor_throw(t) ==
    /\ dp_pc[t] \in {"has_qp", "resolve"} /\ goes(t, dp_pc[t], "none")
    /\ dpdk_lock' = IF dp_pc[t] = "has_qp"
                      THEN [dpdk_lock EXCEPT ![pid_of(t)] = "leaked"]
                      ELSE dpdk_lock
    /\ qp_id' = [qp_id EXCEPT ![t] = kInvalidQpId]
    /\ UNCHANGED <<proc, owner, num_qps_available, mz_mutex, daemon, scan>>

-----------------------------------------------------------------------------
(* The destructor returns the QP; free_qp refuses a QP that is free or     *)
(* another's, and the destructor asserts that it does not.                 *)

free_qp_lock(t) ==
    /\ mz_mutex = "free" /\ mz_mutex' = "held" /\ goes(t, "up", "free")
    /\ UNCHANGED <<proc, owner, num_qps_available, dpdk_lock, qp_id, daemon, scan>>

free_qp_count(t) ==
    /\ goes(t, "free", "counted") /\ owner[qp_id[t]] = pid_of(t)
    /\ num_qps_available' = num_qps_available + 1
    /\ UNCHANGED <<proc, owner, mz_mutex, dpdk_lock, qp_id, daemon, scan>>

free_qp_clear(t) ==
    /\ goes(t, "counted", "freed")
    /\ owner' = [owner EXCEPT ![qp_id[t]] = 0]
    /\ qp_id' = [qp_id EXCEPT ![t] = kInvalidQpId]
    /\ UNCHANGED <<proc, num_qps_available, mz_mutex, dpdk_lock, daemon, scan>>

free_qp_unlock(t) ==
    /\ mz_mutex' = "free" /\ goes(t, "freed", "none")
    /\ UNCHANGED <<proc, owner, num_qps_available, dpdk_lock, qp_id, daemon, scan>>

-----------------------------------------------------------------------------
(* daemon_reclaim_qps_from_crashed, one QP of its loop after the other.    *)

\* Variant that takes every owner for dead.
dead_owned_any(q) == owner[q] # 0

\* Variant whose loop overlooks the first QP.
dead_owned_from1(q) == q # 0 /\ owner[q] # 0 /\ proc[owner[q]] = "dead"

\* A QP whose owner is dead.  The PID 0 of a free QP stands for the daemon's own
\* process group, which is alive.
dead_owned(q) == owner[q] # 0 /\ proc[owner[q]] = "dead"

daemon_lock ==
    /\ daemon = "idle" /\ mz_mutex = "free"
    /\ daemon' = "scan" /\ scan' = 0 /\ mz_mutex' = "held"
    /\ UNCHANGED <<proc, owner, num_qps_available, dpdk_lock, dp_pc, qp_id>>

daemon_skip ==
    /\ daemon = "scan" /\ scan \in Qps /\ ~dead_owned(scan)
    /\ scan' = scan + 1
    /\ UNCHANGED <<proc, owner, num_qps_available, mz_mutex, dpdk_lock, dp_pc,
                   qp_id, daemon>>

daemon_count ==
    /\ daemon = "scan" /\ scan \in Qps /\ dead_owned(scan)
    /\ daemon' = "counted"
    /\ num_qps_available' = num_qps_available + 1
    /\ UNCHANGED <<proc, owner, mz_mutex, dpdk_lock, dp_pc, qp_id, scan>>

daemon_clear ==
    /\ daemon = "counted" /\ daemon' = "scan" /\ scan' = scan + 1
    /\ owner' = [owner EXCEPT ![scan] = 0]
    /\ UNCHANGED <<proc, num_qps_available, mz_mutex, dpdk_lock, dp_pc, qp_id>>

daemon_unlock ==
    /\ daemon = "scan" /\ scan = kMaxQueuesPerPort
    /\ daemon' = "idle" /\ scan' = 0 /\ mz_mutex' = "free"
    /\ UNCHANGED <<proc, owner, num_qps_available, dpdk_lock, dp_pc, qp_id>>

dp_get_qp(t) ==
    \/ get_qp_take(t) \/ get_qp_count(t) \/ get_qp_none(t) \/ get_qp_unlock(t)

dp_free_qp(t) == free_qp_count(t) \/ free_qp_clear(t) \/ free_qp_unlock(t)

dp_ctor(t) ==
    \/ dp_ctor_call(t) \/ dp_ctor_lock(t) \/ get_qp_lock(t)
    \/ dp_ctor_unlock(t) \/ dp_ctor_finish(t) \/ dp_ctor_throw(t)

daemon_scan == daemon_skip \/ daemon_count \/ daemon_clear \/ daemon_unlock

DpNext ==
    \/ \E p \in Pids : dp_start(p) \/ dp_crash(p)
    \/ \E t \in Threads :
        dp_ctor(t) \/ dp_get_qp(t) \/ free_qp_lock(t) \/ dp_free_qp(t)
    \/ daemon_lock \/ daemon_scan \/ dp_daemon_crash

DpSpec == DpInit /\ [][DpNext]_dpvars

-----------------------------------------------------------------------------
DpTypeOK ==
    /\ proc \in [Pids -> {"dead", "live"}]
    /\ owner \in [Qps -> Pids \cup {0}]
    /\ num_qps_available \in Int
    /\ mz_mutex \in {"free", "held", "orphaned"}
    /\ dpdk_lock \in [Pids -> {"free", "held", "leaked"}]
    /\ dp_pc \in [Threads -> {"none", "waiting", "locked", "has_qp", "resolve",
                              "up"} \cup InGet \cup InFree]
    /\ qp_id \in [Threads -> Qps \cup {kInvalidQpId}]
    /\ daemon \in {"idle", "scan", "counted", "dead"}
    /\ scan \in 0 .. kMaxQueuesPerPort

\* A QP is used by at most one transport on the machine, and the memzone says
\* so: the daemon never takes a QP from a process that lives, and a destructor
\* never finds its QP free or another's ("This is safe", dpdk_transport.h,
\* daemon_reclaim_qps_from_crashed).
QpExclusive ==
    \A t \in Threads : qp_id[t] # kInvalidQpId =>
        /\ owner[qp_id[t]] = pid_of(t)
        /\ \A u \in Threads : qp_id[u] = qp_id[t] => u = t

\* num_qps_available_ counts the free QPs whenever the mutex is free, through
\* crashes, reclaims and reuse of PIDs.  Inside a critical section, and for ever
\* after a death in one, it may say one more than there are, never fewer.
QpsCounted ==
    LET n == Cardinality(FreeQps)
    IN  /\ mz_mutex = "free" => num_qps_available = n
        /\ num_qps_available \in {n, n + 1}

\* The memzone tells the truth about who owns which QP and how many are left.
QpOwnership == QpExclusive /\ QpsCounted

\* A dead process owns no QP after a while, unless a new process gets its PID
\* first ("it can leak QPs because of PID reuse"), the daemon is dead, or
\* somebody died in a critical section and left the mutex locked.
QpReclaimed ==
    \A p \in Pids :
        proc[p] = "dead" ~> \/ (\A q \in Qps : owner[q] # p) \/ proc[p] = "live"
                            \/ mz_mutex = "orphaned" \/ daemon = "dead"

\* What the comment on daemon_reclaim_qps_from_crashed promises: "Free-up QPs
\* reserved by processes that exited before freeing a QP.  This is safe, but it
\* can leak QPs because of PID reuse": while the daemon lives, only the reuse of
\* its PID keeps a dead process's QPs from coming back.  The code breaks it
\* where QpReclaimed makes its third exception.
QpLeakedByReuseOnly ==
    \A p \in Pids :
        proc[p] = "dead" ~>
            (\A q \in Qps : owner[q] # p) \/ proc[p] = "live" \/ daemon = "dead"
=============================================================================
