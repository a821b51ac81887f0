----------------------------- MODULE ProcessProofs -----------------------------
(***************************************************************************)
(* Proofs about the components of one process: the Nexus, for any number   *)
(* of background and foreground threads, handlers and Nexus objects after  *)
(* one another; the RDMA buffer allocators, for any number of threads and  *)
(* sizes; and the coroutine scheduler of one thread, for any number of     *)
(* coroutines and queue pairs.                                             *)
(***************************************************************************)
EXTENDS Nexus, RdmaAllocators, CoroutineScheduler,
        FiniteSetTheorems, SequenceTheorems, TLAPS

-----------------------------------------------------------------------------
(* Hooks *)

\* The part of the type invariant that the hooks need.
HookTypes ==
    /\ hook_arr \in [RpcIds -> Fg \cup {NoThread}]
    /\ rpc_pc \in [Fg -> {"none", "checked", "live", "closing", "gone"}]
    /\ sm_hook \in Fg \cup {NoThread}

\* HooksValid made inductive: a hook stands under its own Rpc's id, so that
\* unregister_hook removes the right one; and the SM thread has a hook in hand
\* only while it holds the lock, which keeps unregister_hook away; there is no
\* SM thread before the constructor launches it.
HookInv ==
    /\ HookTypes
    /\ \A r \in RpcIds : hook_arr[r] # NoThread =>
          rpc_id(hook_arr[r]) = r /\ rpc_pc[hook_arr[r]] \in {"live", "closing"}
    /\ nx_pc \in {"launch", "wait"} => sm_pc = "off"
    /\ sm_hook # NoThread =>
          /\ hooks_lock /\ sm_pc = "push"
          /\ rpc_pc[sm_hook] \in {"live", "closing"}

\* Foreground threads have their own numbers, and NoThread is none of them.
LEMMA FgNumbers ==
  /\ NoThread \notin Fg
  /\ \A f \in Fg : rpc_id(f) \in RpcIds
  <1>1. NoThread \notin Fg
    BY NexusAssumption DEF NoThread, Fg
  <1>2. \A f \in Fg : rpc_id(f) \in RpcIds
    BY DEF RpcIds
  <1> QED
    BY <1>1, <1>2

\* The initial state has no hooks.
LEMMA HookInit == NexusInit => HookInv
  BY FgNumbers DEF NexusInit, NexusStart, HookInv, HookTypes

\* Every step preserves HookInv.
LEMMA HookStep == HookInv /\ [NexusNext]_nxvars => HookInv'
  <1> SUFFICES ASSUME HookInv, [NexusNext]_nxvars
               PROVE  HookInv'
    OBVIOUS
  <1> USE FgNumbers DEF HookInv, HookTypes
  <1>1. CASE /\ UNCHANGED <<hookvars, sm>>
             /\ nx_pc' \in {"launch", "wait"} => nx_pc \in {"launch", "wait"}
    BY <1>1 DEF hookvars, sm
  <1>2. ASSUME NEW f \in Fg, rpc_ctor(f)
        PROVE  HookInv'
    BY <1>2 DEF rpc_ctor, sm, main
  <1>3. ASSUME NEW f \in Fg, register_hook(f)
        PROVE  HookInv'
    BY <1>3 DEF register_hook, sm, main
  <1>4. ASSUME NEW f \in Fg, rpc_dtor(f)
        PROVE  HookInv'
    BY <1>4 DEF rpc_dtor, sm, main
  <1>5. ASSUME NEW f \in Fg, unregister_hook(f)
        PROVE  HookInv'
    BY <1>5 DEF unregister_hook, sm, main
  <1>6. ASSUME NEW r \in RpcIds, sm_lookup(r)
        PROVE  HookInv'
    BY <1>6 DEF sm_lookup, main
  <1>7. CASE sm_push
    BY <1>7 DEF sm_push, main
  <1>8. CASE sm_exit
    BY <1>8 DEF sm_exit, hookvars, main
  <1>9. CASE nexus_launch_sm
    BY <1>9 DEF nexus_launch_sm, hookvars
  <1>10. CASE nexus_reset
    BY <1>10 DEF nexus_reset, NexusStart
  <1>11. ASSUME NexusNext
         PROVE  HookInv'
    <2> USE DEF hookvars, sm, main
    <2>1. CASE nexus_launch \/ nexus_wait \/ nexus_join \/ nexus_dtor
      BY <2>1, <1>1 DEF nexus_launch, nexus_wait, nexus_join, nexus_dtor
    <2>2. ASSUME NEW h \in Handlers, register_req_func(h)
          PROVE  HookInv'
      BY SMTT(60), <2>2, <1>1 DEF register_req_func
    <2>3. ASSUME NEW b \in Bg, BgThread(b) \/ bg_enqueue_request(b)
          PROVE  HookInv'
      BY <2>3, <1>1 DEF BgThread, bg_start, bg_pop, bg_drained, bg_exit, bg_enqueue_response,
                        bg_run_stale, bg_run_cont, bg_enqueue_request
    <2>4. ASSUME NEW f \in Fg, EventLoop(f)
          PROVE  HookInv'
      BY <2>4, <1>1 DEF EventLoop, process_bg_queues_enqueue_request_st,
                        process_bg_queues_enqueue_response_st, submit_bg_resp_st
    <2>5. ASSUME NEW f \in Fg, NEW b \in Bg, submit_bg_req_st(f, b)
          PROVE  HookInv'
      BY <2>5, <1>1 DEF submit_bg_req_st
    <2> QED
      BY <1>11, <1>2, <1>3, <1>4, <1>5, <1>6, <1>7, <1>8, <1>9, <1>10,
         <2>1, <2>2, <2>3, <2>4, <2>5
      DEF NexusNext, MainThread, SmThread
  <1>12. CASE UNCHANGED nxvars
    BY <1>12, <1>1 DEF nxvars, hookvars, sm
  <1> QED
    BY <1>11, <1>12

\* Every non-null hook is valid, in the array of the Nexus and in the hands of
\* its SM thread (nexus.h:182), also if foreground threads use the same Rpc id.
THEOREM HooksStayValid == NexusSpec => []HooksValid
  <1>1. HookInv => HooksValid
    BY DEF HookInv, HooksValid
  <1> QED
    BY HookInit, HookStep, <1>1, PTL DEF NexusSpec

-----------------------------------------------------------------------------
(* Thread ids *)

\* The part of the type invariant that the thread ids need.
IdTypes ==
    /\ nx_pc \in {"launch", "wait", "up", "join"} /\ nx_i \in 0 .. num_bg_threads
    /\ cur_etid \in Nat
    /\ etid \in [Bg \cup Fg -> Nat \cup {NoThread}]
    /\ bg_pc \in [Bg -> {"off", "start", "loop", "drain", "run", "exited"}]

\* The constructor launches the background threads one by one: the ones before
\* nx_i have their ids, the ones after it do not run, and it moves on only when
\* thread nx_i has moved cur_etid_.
Launching ==
    /\ nx_pc = "launch" =>
          /\ cur_etid = nx_i
          /\ \A b \in Bg : /\ bg_pc[b] # "start"
                           /\ b >= nx_i => bg_pc[b] = "off"
    /\ nx_pc = "wait" =>
          /\ nx_i < num_bg_threads
          /\ \A b \in Bg : /\ b # nx_i => bg_pc[b] # "start"
                           /\ b > nx_i => bg_pc[b] = "off"
          /\ cur_etid = IF bg_pc[nx_i] = "start" THEN nx_i ELSE nx_i + 1
    /\ nx_pc \in {"up", "join"} => \A b \in Bg : bg_pc[b] # "start"

\* ThreadIds made inductive.
IdInv ==
    /\ IdTypes /\ Launching /\ ThreadIds
    /\ \A t \in Bg \cup Fg : etid[t] # NoThread => etid[t] < cur_etid

\* In the initial state, and after TlsRegistry::reset, no thread has an id.
LEMMA IdInit == NexusInit => IdInv
  BY NexusAssumption
  DEF NexusInit, NexusStart, IdInv, IdTypes, Launching, ThreadIds, Bg, Fg, NoThread

\* A thread that takes an id gets one that nobody has.
LEMMA FreshId ==
  ASSUME IdInv, NEW t \in Bg \cup Fg, tls_init(t), t \in Bg => cur_etid = t
  PROVE  /\ ThreadIds' /\ cur_etid' = cur_etid + 1
         /\ etid' \in [Bg \cup Fg -> Nat \cup {NoThread}]
         /\ \A u \in Bg \cup Fg : etid'[u] # NoThread => etid'[u] < cur_etid'
  <1> USE DEF IdInv, IdTypes, tls_init, NoThread
  <1>1. \A u \in Bg \cup Fg : etid'[u] = IF u = t THEN cur_etid ELSE etid[u]
    OBVIOUS
  <1>2. /\ cur_etid' = cur_etid + 1
        /\ etid' \in [Bg \cup Fg -> Nat \cup {NoThread}]
    OBVIOUS
  <1>3. \A u \in Bg \cup Fg : etid'[u] # NoThread => etid'[u] < cur_etid'
    BY <1>1
  <1>4. ThreadIds'
    BY <1>1 DEF ThreadIds
  <1> QED
    BY <1>2, <1>3, <1>4

\* Every step preserves IdInv.
LEMMA IdStep == IdInv /\ [NexusNext]_nxvars => IdInv'
  <1> SUFFICES ASSUME IdInv, [NexusNext]_nxvars
               PROVE  IdInv'
    OBVIOUS
  <1> USE NexusAssumption
  <1>1. CASE UNCHANGED <<main, tls, bg_pc>>
    BY <1>1 DEF main, tls, IdInv, IdTypes, Launching, ThreadIds
  <1>2. CASE nexus_launch
    <2>1. nx_i \in Bg
      BY <1>2 DEF nexus_launch, IdInv, IdTypes, Bg
    <2>2. ThreadIds' /\ \A t \in Bg \cup Fg : etid'[t] # NoThread => etid'[t] < cur_etid'
      BY <1>2 DEF nexus_launch, tls, IdInv, ThreadIds
    <2> QED
      BY <1>2, <2>1, <2>2 DEF nexus_launch, tls, IdInv, IdTypes, Launching, Bg
  <1>3. CASE nexus_wait
    <2>1. ThreadIds' /\ \A t \in Bg \cup Fg : etid'[t] # NoThread => etid'[t] < cur_etid'
      BY <1>3 DEF nexus_wait, tls, IdInv, ThreadIds
    <2> QED
      BY <1>3, <2>1 DEF nexus_wait, tls, bg, IdInv, IdTypes, Launching, Bg
  <1>4. CASE nexus_launch_sm \/ nexus_dtor \/ nexus_join
    <2>1. ThreadIds' /\ \A t \in Bg \cup Fg : etid'[t] # NoThread => etid'[t] < cur_etid'
      BY <1>4 DEF nexus_launch_sm, nexus_dtor, nexus_join, tls, IdInv, ThreadIds
    <2> QED
      BY <1>4, <2>1
      DEF nexus_launch_sm, nexus_dtor, nexus_join, tls, bg, IdInv, IdTypes, Launching
  <1>5. CASE nexus_reset
    BY <1>5 DEF nexus_reset, NexusStart, IdInv, IdTypes, Launching, ThreadIds, Bg, Fg, NoThread
  <1>6. ASSUME NEW b \in Bg, bg_start(b)
        PROVE  IdInv'
    <2>1. nx_pc = "wait" /\ b = nx_i /\ cur_etid = b
      BY <1>6 DEF bg_start, IdInv, IdTypes, Launching
    <2>2. /\ ThreadIds' /\ cur_etid' = cur_etid + 1
          /\ etid' \in [Bg \cup Fg -> Nat \cup {NoThread}]
          /\ \A u \in Bg \cup Fg : etid'[u] # NoThread => etid'[u] < cur_etid'
      BY <1>6, <2>1, FreshId DEF bg_start
    <2>3. nx_pc' = "wait" /\ nx_i' = b /\ bg_pc' = [bg_pc EXCEPT ![b] = "loop"]
      BY <1>6, <2>1 DEF bg_start, main
    <2>4. IdTypes'
      BY <2>1, <2>2, <2>3 DEF IdInv, IdTypes
    <2>5. Launching'
      BY <2>1, <2>2, <2>3 DEF IdInv, IdTypes, Launching, Bg
    <2> QED
      BY <2>2, <2>4, <2>5 DEF IdInv
  <1>7. ASSUME NEW b \in Bg, \/ bg_pop(b) \/ bg_drained(b) \/ bg_exit(b)
                             \/ bg_enqueue_response(b) \/ bg_run_stale(b) \/ bg_run_cont(b)
        PROVE  IdInv'
    <2>1. /\ bg_pc[b] \notin {"off", "start"}
          /\ \E p \in {"loop", "drain", "run", "exited"} : bg_pc' = [bg_pc EXCEPT ![b] = p]
          /\ UNCHANGED <<main, tls>>
      BY <1>7 DEF bg_pop, bg_drained, bg_exit, bg_enqueue_response, bg_run_stale, bg_run_cont,
                  ItemDone, main, tls
    <2>2. ThreadIds' /\ \A t \in Bg \cup Fg : etid'[t] # NoThread => etid'[t] < cur_etid'
      BY <2>1 DEF tls, IdInv, ThreadIds
    <2> QED
      BY <2>1, <2>2 DEF main, tls, IdInv, IdTypes, Launching, Bg
  <1>8. ASSUME NEW f \in Fg, rpc_ctor(f)
        PROVE  IdInv'
    <2>1. nx_pc = "up" /\ UNCHANGED <<nx_pc, nx_i, bg_pc>>
      BY <1>8 DEF rpc_ctor, main, bg
    <2>2. CASE UNCHANGED tls
      BY <2>1, <2>2 DEF tls, IdInv, IdTypes, Launching, ThreadIds
    <2>3. CASE tls_init(f)
      <3>1. f \notin Bg
        BY DEF Bg, Fg
      <3>2. /\ ThreadIds' /\ cur_etid' = cur_etid + 1
            /\ etid' \in [Bg \cup Fg -> Nat \cup {NoThread}]
            /\ \A u \in Bg \cup Fg : etid'[u] # NoThread => etid'[u] < cur_etid'
        BY <2>3, <3>1, FreshId
      <3> QED
        BY <2>1, <3>2 DEF IdInv, IdTypes, Launching
    <2> QED
      BY <1>8, <2>2, <2>3 DEF rpc_ctor
  <1>9. ASSUME NexusNext
        PROVE  IdInv'
    <2> USE DEF main, tls, bg
    <2>1. ASSUME NEW h \in Handlers, register_req_func(h)
          PROVE  IdInv'
      BY <2>1, <1>1 DEF register_req_func
    <2>2. ASSUME NEW b \in Bg, bg_enqueue_request(b)
          PROVE  IdInv'
      BY <2>2, <1>1 DEF bg_enqueue_request
    <2>3. ASSUME NEW f \in Fg, register_hook(f) \/ rpc_dtor(f) \/ unregister_hook(f)
          PROVE  IdInv'
      BY <2>3, <1>1 DEF register_hook, rpc_dtor, unregister_hook
    <2>4. ASSUME NEW f \in Fg, EventLoop(f)
          PROVE  IdInv'
      BY <2>4, <1>1 DEF EventLoop, process_bg_queues_enqueue_request_st,
                        process_bg_queues_enqueue_response_st, submit_bg_resp_st
    <2>5. ASSUME NEW f \in Fg, NEW b \in Bg, submit_bg_req_st(f, b)
          PROVE  IdInv'
      BY <2>5, <1>1 DEF submit_bg_req_st
    <2>6. ASSUME NEW r \in RpcIds, sm_lookup(r)
          PROVE  IdInv'
      BY <2>6, <1>1 DEF sm_lookup
    <2>7. CASE sm_push \/ sm_exit
      BY <2>7, <1>1 DEF sm_push, sm_exit
    <2> QED
      BY <1>9, <1>2, <1>3, <1>4, <1>5, <1>6, <1>7, <1>8,
         <2>1, <2>2, <2>3, <2>4, <2>5, <2>6, <2>7
      DEF NexusNext, MainThread, SmThread, BgThread
  <1>10. CASE UNCHANGED nxvars
    BY <1>10, <1>1 DEF nxvars, main, tls
  <1> QED
    BY <1>9, <1>10

\* Background thread i has id i and no two threads share an id
\* (nexus.cc:46-51, nexus_bg_thread.cc:15), in every Nexus of the process.
THEOREM IdsUnique == NexusSpec => []ThreadIds
  <1>1. IdInv => ThreadIds
    BY DEF IdInv
  <1> QED
    BY IdInit, IdStep, <1>1, PTL DEF NexusSpec

-----------------------------------------------------------------------------
(* Counting *)

\* The places of x in a sequence.
Hits(s, x) == {i \in 1 .. Len(s) : s[i] = x}

\* t is s with v behind it, and s without its element at k.
Grown(t, s, v) ==
    /\ Len(s) \in Nat /\ Len(t) = Len(s) + 1 /\ t[Len(t)] = v
    /\ \A i \in 1 .. Len(s) : t[i] = s[i]
Skip(k, i) == IF i < k THEN i ELSE i + 1
Shrunk(t, s, k) ==
    /\ Len(t) \in Nat /\ Len(s) = Len(t) + 1 /\ k \in 1 .. Len(s)
    /\ \A i \in 1 .. Len(t) : t[i] = s[Skip(k, i)]

LEMMA HitsFinite ==
  ASSUME NEW s, Len(s) \in Nat, NEW x
  PROVE  IsFiniteSet(Hits(s, x)) /\ Cardinality(Hits(s, x)) \in Nat
  <1>1. IsFiniteSet(1 .. Len(s))
    BY FS_Interval
  <1>2. Hits(s, x) \in SUBSET (1 .. Len(s))
    BY DEF Hits
  <1>3. IsFiniteSet(Hits(s, x))
    BY <1>1, <1>2, FS_Subset
  <1> QED
    BY <1>3, FS_CardinalityType

LEMMA HitsGrown ==
  ASSUME NEW s, NEW t, NEW v, Grown(t, s, v), NEW x
  PROVE  /\ v = x => Cardinality(Hits(t, x)) = Cardinality(Hits(s, x)) + 1
         /\ v # x => Cardinality(Hits(t, x)) = Cardinality(Hits(s, x))
  <1>1. PICK n \in Nat : n = Len(s) /\ Len(t) = n + 1
    BY DEF Grown
  <1>2. t[n + 1] = v /\ \A i \in 1 .. n : t[i] = s[i]
    BY <1>1 DEF Grown
  <1>3. IsFiniteSet(Hits(s, x))
    BY <1>1, HitsFinite
  <1>4. CASE v = x
    <2>1. Hits(t, x) = Hits(s, x) \cup {n + 1}
      BY <1>1, <1>2, <1>4 DEF Hits
    <2>2. n + 1 \notin Hits(s, x)
      BY <1>1 DEF Hits
    <2>3. Cardinality(Hits(s, x) \cup {n + 1}) = Cardinality(Hits(s, x)) + 1
      BY <1>3, <2>2, FS_AddElement
    <2> QED
      BY <1>4, <2>1, <2>3
  <1>5. CASE v # x
    <2>1. Hits(t, x) = Hits(s, x)
      BY <1>1, <1>2, <1>5 DEF Hits
    <2> QED
      BY <1>5, <2>1
  <1> QED
    BY <1>4, <1>5

LEMMA HitsShrunk ==
  ASSUME NEW s, NEW t, NEW k, Shrunk(t, s, k), NEW x
  PROVE  /\ s[k] = x => Cardinality(Hits(s, x)) = Cardinality(Hits(t, x)) + 1
         /\ s[k] # x => Cardinality(Hits(s, x)) = Cardinality(Hits(t, x))
  <1>1. PICK n \in Nat : n = Len(t) /\ Len(s) = n + 1
    BY DEF Shrunk
  <1>2. k \in 1 .. n + 1 /\ \A i \in 1 .. n : t[i] = s[Skip(k, i)]
    BY <1>1 DEF Shrunk
  <1> DEFINE f == [i \in Hits(t, x) |-> Skip(k, i)]
             T == Hits(s, x) \ {k}
  <1>3. \A i \in Hits(t, x) : i \in 1 .. n /\ t[i] = x
    BY <1>1 DEF Hits
  <1>4. \A i \in 1 .. n : Skip(k, i) \in 1 .. n + 1 /\ Skip(k, i) # k
    BY <1>2 DEF Skip
  <1>5. \A i, j \in 1 .. n : Skip(k, i) = Skip(k, j) => i = j
    BY <1>2 DEF Skip
  <1>6. f \in [Hits(t, x) -> T]
    <2>1. ASSUME NEW i \in Hits(t, x)
          PROVE  Skip(k, i) \in T
      <3>1. i \in 1 .. n /\ t[i] = x
        BY <1>3
      <3>2. Skip(k, i) \in 1 .. n + 1 /\ Skip(k, i) # k /\ s[Skip(k, i)] = x
        BY <1>2, <1>4, <3>1
      <3> QED
        BY <1>1, <3>2 DEF Hits
    <2> QED
      BY <2>1
  <1>7. \A m \in T : \E i \in Hits(t, x) : f[i] = m
    <2> SUFFICES ASSUME NEW m \in T
                 PROVE  \E i \in Hits(t, x) : f[i] = m
      OBVIOUS
    <2>1. m \in 1 .. n + 1 /\ m # k /\ s[m] = x
      BY <1>1 DEF Hits
    <2>2. PICK i \in 1 .. n : Skip(k, i) = m
      <3>1. CASE m < k
        <4>1. m \in 1 .. n /\ Skip(k, m) = m
          BY <1>2, <2>1, <3>1 DEF Skip
        <4> QED
          BY <4>1
      <3>2. CASE m > k
        <4>1. m - 1 \in 1 .. n /\ Skip(k, m - 1) = m
          BY <1>2, <2>1, <3>2 DEF Skip
        <4> QED
          BY <4>1
      <3> QED
        BY <1>2, <2>1, <3>1, <3>2
    <2>3. i \in Hits(t, x)
      BY <1>1, <1>2, <2>1, <2>2 DEF Hits
    <2> QED
      BY <2>2, <2>3
  <1>8. f \in Surjection(Hits(t, x), T) /\ f \in Injection(Hits(t, x), T)
    <2>1. \A a, b \in Hits(t, x) : f[a] = f[b] => a = b
      BY <1>3, <1>5
    <2> HIDE DEF f, T
    <2>2. DOMAIN f = Hits(t, x)
      BY <1>6
    <2> QED
      BY <1>6, <1>7, <2>1, <2>2 DEF Surjection, Injection, IsInjective
  <1> HIDE DEF f
  <1>9. IsFiniteSet(Hits(t, x)) /\ IsFiniteSet(Hits(s, x))
    BY <1>1, HitsFinite
  <1>10. Cardinality(T) = Cardinality(Hits(t, x))
    <2> HIDE DEF T
    <2> QED
      BY <1>8, <1>9, FS_Surjection
  <1>11. Cardinality(T) = IF k \in Hits(s, x) THEN Cardinality(Hits(s, x)) - 1
                          ELSE Cardinality(Hits(s, x))
    BY <1>9, FS_RemoveElement
  <1>12. k \in Hits(s, x) <=> s[k] = x
    BY <1>1, <1>2 DEF Hits
  <1>13. Cardinality(Hits(s, x)) \in Nat
    BY <1>9, FS_CardinalityType
  <1> QED
    BY <1>10, <1>11, <1>12, <1>13

\* The places of x in a family of queues.
On(q, H) == {<<q, i>> : i \in H}
PlacesOn(K, Q, x) == UNION {On(q, Hits(Q[q], x)) : q \in K}

LEMMA OnCount ==
  ASSUME NEW q, NEW H, IsFiniteSet(H)
  PROVE  IsFiniteSet(On(q, H)) /\ Cardinality(On(q, H)) = Cardinality(H)
  <1> DEFINE f == [i \in H |-> <<q, i>>]
  <1>1. f \in Surjection(H, On(q, H)) /\ f \in Injection(H, On(q, H))
    BY DEF Surjection, Injection, IsInjective, On
  <1> HIDE DEF f
  <1> QED
    BY <1>1, FS_Surjection

\* How many there are after one queue was replaced.
SameBut(q, K, R, Q) == \A p \in K \ {q} : R[p] = Q[p]
LEMMA PlacesReplaced ==
  ASSUME NEW K, NEW Q, NEW R, NEW q \in K, NEW x, SameBut(q, K, R, Q),
         Len(Q[q]) \in Nat, Len(R[q]) \in Nat, IsFiniteSet(PlacesOn(K, Q, x))
  PROVE  /\ IsFiniteSet(PlacesOn(K, R, x)) /\ Cardinality(PlacesOn(K, R, x)) \in Nat
         /\ Cardinality(PlacesOn(K, Q, x)) \in Nat
         /\ \A d \in Nat : Cardinality(Hits(R[q], x)) = Cardinality(Hits(Q[q], x)) + d =>
               Cardinality(PlacesOn(K, R, x)) = Cardinality(PlacesOn(K, Q, x)) + d
         /\ \A d \in Nat : Cardinality(Hits(Q[q], x)) = Cardinality(Hits(R[q], x)) + d =>
               Cardinality(PlacesOn(K, Q, x)) = Cardinality(PlacesOn(K, R, x)) + d
  <1> DEFINE rest == UNION {On(p, Hits(Q[p], x)) : p \in K \ {q}}
  <1>1. PlacesOn(K, Q, x) = rest \cup On(q, Hits(Q[q], x))
    BY DEF PlacesOn
  <1>2. PlacesOn(K, R, x) = rest \cup On(q, Hits(R[q], x))
    BY DEF PlacesOn, SameBut
  <1>3. \A H : rest \cap On(q, H) = {}
    BY DEF On
  <1> HIDE DEF rest
  <1>4. IsFiniteSet(rest)
    BY <1>1, FS_Subset
  <1>5. ASSUME NEW H, IsFiniteSet(H)
        PROVE  /\ IsFiniteSet(rest \cup On(q, H))
               /\ Cardinality(rest \cup On(q, H)) = Cardinality(rest) + Cardinality(H)
    <2>1. IsFiniteSet(On(q, H)) /\ Cardinality(On(q, H)) = Cardinality(H)
      BY <1>5, OnCount
    <2>2. /\ IsFiniteSet(rest \cup On(q, H))
          /\ Cardinality(rest \cup On(q, H))
               = Cardinality(rest) + Cardinality(H) - Cardinality(rest \cap On(q, H))
      BY <1>4, <2>1, FS_Union
    <2>3. Cardinality(rest \cap On(q, H)) = 0
      BY <1>3, FS_EmptySet
    <2>4. Cardinality(rest) \in Nat /\ Cardinality(H) \in Nat
      BY <1>4, <1>5, FS_CardinalityType
    <2> QED
      BY <2>2, <2>3, <2>4
  <1>6. PICK m \in Nat, a \in Nat, b \in Nat :
           /\ m = Cardinality(rest) /\ a = Cardinality(Hits(Q[q], x))
           /\ b = Cardinality(Hits(R[q], x))
    BY <1>4, HitsFinite, FS_CardinalityType
  <1>7. /\ IsFiniteSet(PlacesOn(K, R, x)) /\ Cardinality(PlacesOn(K, R, x)) = m + b
        /\ Cardinality(PlacesOn(K, Q, x)) = m + a
    BY <1>1, <1>2, <1>5, <1>6, HitsFinite
  <1>8. /\ m + b \in Nat /\ m + a \in Nat /\ \A d \in Nat : b = a + d => m + b = (m + a) + d
        /\ \A d \in Nat : a = b + d => m + a = (m + b) + d
    OBVIOUS
  <1> QED
    BY <1>6, <1>7, <1>8

\* One queue that grows by v or loses its element at k.
LEMMA QueueGrown ==
  ASSUME NEW K, NEW Q, NEW R, NEW q \in K, NEW v, NEW x, SameBut(q, K, R, Q),
         Grown(R[q], Q[q], v), IsFiniteSet(PlacesOn(K, Q, x))
  PROVE  /\ IsFiniteSet(PlacesOn(K, R, x)) /\ Cardinality(PlacesOn(K, R, x)) \in Nat
         /\ Cardinality(PlacesOn(K, Q, x)) \in Nat
         /\ v = x => Cardinality(PlacesOn(K, R, x)) = Cardinality(PlacesOn(K, Q, x)) + 1
         /\ v # x => Cardinality(PlacesOn(K, R, x)) = Cardinality(PlacesOn(K, Q, x))
  <1>1. Len(Q[q]) \in Nat /\ Len(R[q]) \in Nat
    BY DEF Grown
  <1>2. /\ v = x => Cardinality(Hits(R[q], x)) = Cardinality(Hits(Q[q], x)) + 1
        /\ v # x => Cardinality(Hits(R[q], x)) = Cardinality(Hits(Q[q], x))
    BY HitsGrown
  <1>3. Cardinality(Hits(Q[q], x)) \in Nat
    BY <1>1, HitsFinite
  <1>4. PICK a, b, r, s : /\ a = Cardinality(Hits(Q[q], x)) /\ b = Cardinality(Hits(R[q], x))
                          /\ r = Cardinality(PlacesOn(K, Q, x))
                          /\ s = Cardinality(PlacesOn(K, R, x))
    OBVIOUS
  <1>5. /\ IsFiniteSet(PlacesOn(K, R, x)) /\ r \in Nat /\ s \in Nat
        /\ \A n \in Nat : b = a + n => s = r + n
    <2>1. /\ IsFiniteSet(PlacesOn(K, R, x)) /\ Cardinality(PlacesOn(K, R, x)) \in Nat
          /\ Cardinality(PlacesOn(K, Q, x)) \in Nat
          /\ \A n \in Nat : Cardinality(Hits(R[q], x)) = Cardinality(Hits(Q[q], x)) + n =>
                Cardinality(PlacesOn(K, R, x)) = Cardinality(PlacesOn(K, Q, x)) + n
      BY <1>1, PlacesReplaced
    <2> QED
      BY <1>4, <2>1
  <1>6. /\ a \in Nat
        /\ v = x => b = a + 1
        /\ v # x => b = a + 0
    BY <1>2, <1>3, <1>4
  <1>7. (v = x => s = r + 1) /\ (v # x => s = r)
    BY ONLY <1>5, <1>6
  <1> QED
    BY <1>4, <1>5, <1>7

LEMMA QueueShrunk ==
  ASSUME NEW K, NEW Q, NEW R, NEW q \in K, NEW k, NEW x, SameBut(q, K, R, Q),
         Shrunk(R[q], Q[q], k), IsFiniteSet(PlacesOn(K, Q, x))
  PROVE  /\ IsFiniteSet(PlacesOn(K, R, x)) /\ Cardinality(PlacesOn(K, R, x)) \in Nat
         /\ Cardinality(PlacesOn(K, Q, x)) \in Nat
         /\ Q[q][k] = x => Cardinality(PlacesOn(K, Q, x)) = Cardinality(PlacesOn(K, R, x)) + 1
         /\ Q[q][k] # x => Cardinality(PlacesOn(K, Q, x)) = Cardinality(PlacesOn(K, R, x))
  <1>1. Len(Q[q]) \in Nat /\ Len(R[q]) \in Nat
    BY DEF Shrunk
  <1>2. /\ Q[q][k] = x => Cardinality(Hits(Q[q], x)) = Cardinality(Hits(R[q], x)) + 1
        /\ Q[q][k] # x => Cardinality(Hits(Q[q], x)) = Cardinality(Hits(R[q], x))
    BY HitsShrunk
  <1>3. Cardinality(Hits(R[q], x)) \in Nat
    BY <1>1, HitsFinite
  <1>4. PICK a, b, r, s, v : /\ a = Cardinality(Hits(Q[q], x)) /\ b = Cardinality(Hits(R[q], x))
                             /\ r = Cardinality(PlacesOn(K, Q, x)) /\ v = Q[q][k]
                             /\ s = Cardinality(PlacesOn(K, R, x))
    OBVIOUS
  <1>5. /\ IsFiniteSet(PlacesOn(K, R, x)) /\ r \in Nat /\ s \in Nat
        /\ \A n \in Nat : a = b + n => r = s + n
    <2>1. /\ IsFiniteSet(PlacesOn(K, R, x)) /\ Cardinality(PlacesOn(K, R, x)) \in Nat
          /\ Cardinality(PlacesOn(K, Q, x)) \in Nat
          /\ \A n \in Nat : Cardinality(Hits(Q[q], x)) = Cardinality(Hits(R[q], x)) + n =>
                Cardinality(PlacesOn(K, Q, x)) = Cardinality(PlacesOn(K, R, x)) + n
      BY <1>1, PlacesReplaced
    <2> QED
      BY <1>4, <2>1
  <1>6. /\ b \in Nat
        /\ v = x => a = b + 1
        /\ v # x => a = b + 0
    BY <1>2, <1>3, <1>4
  <1>7. (v = x => r = s + 1) /\ (v # x => r = s)
    BY ONLY <1>5, <1>6
  <1> QED
    BY <1>4, <1>5, <1>7

-----------------------------------------------------------------------------
(* Work *)

\* An item of a background thread's queue, and a request that a background
\* thread left with an Rpc.
WorkItem == [kind : {"req", "cont"}, rpc : Fg, origin : Bg \cup {NoThread}]
BgRequest ==
    {r \in [cont_etid : Bg \cup {NoThread}, origin : Bg] : r.cont_etid \in {NoThread, r.origin}}

\* The queues of the background threads, and the Rpcs of the items in them.
BgQueues(Q) == Q \in [Bg -> Seq(WorkItem)]
Ids(Q) == [b \in Bg |-> [i \in 1 .. Len(Q[b]) |-> Q[b][i].rpc]]

LEMMA IdsOf ==
  ASSUME NEW Q, BgQueues(Q), NEW b \in Bg
  PROVE  /\ Len(Q[b]) \in Nat /\ Len(Ids(Q)[b]) = Len(Q[b])
         /\ \A i \in 1 .. Len(Q[b]) : Ids(Q)[b][i] = Q[b][i].rpc
  <1>1. PICK n \in Nat : n = Len(Q[b])
    BY DEF BgQueues
  <1>2. Ids(Q)[b] = [i \in 1 .. n |-> Q[b][i].rpc]
    BY <1>1 DEF Ids
  <1>3. Len(Ids(Q)[b]) = n
    BY <1>2
  <1> QED
    BY <1>1, <1>2, <1>3

LEMMA ItemsPlaces ==
  ASSUME NEW Q, BgQueues(Q), NEW f
  PROVE  ItemsOf(Q, f) = PlacesOn(Bg, Ids(Q), f)
  <1>1. \A b \in Bg : {j \in 1 .. Len(Q[b]) : Q[b][j].rpc = f} = Hits(Ids(Q)[b], f)
    BY IdsOf DEF Hits
  <1> QED
    BY <1>1 DEF ItemsOf, PlacesOn, On

\* The items of an Rpc after one queue grew by w, or lost its first item.
LEMMA ItemsGrown ==
  ASSUME NEW Q, NEW R, BgQueues(Q), BgQueues(R), NEW b \in Bg, NEW w, SameBut(b, Bg, R, Q),
         Grown(R[b], Q[b], w), NEW f, IsFiniteSet(ItemsOf(Q, f))
  PROVE  /\ IsFiniteSet(ItemsOf(R, f)) /\ Cardinality(ItemsOf(R, f)) \in Nat
         /\ w.rpc = f => Cardinality(ItemsOf(R, f)) = Cardinality(ItemsOf(Q, f)) + 1
         /\ w.rpc # f => Cardinality(ItemsOf(R, f)) = Cardinality(ItemsOf(Q, f))
  <1>1. ItemsOf(Q, f) = PlacesOn(Bg, Ids(Q), f) /\ ItemsOf(R, f) = PlacesOn(Bg, Ids(R), f)
    BY ItemsPlaces
  <1>2. SameBut(b, Bg, Ids(R), Ids(Q))
    BY DEF SameBut, Ids
  <1>3. Grown(Ids(R)[b], Ids(Q)[b], w.rpc)
    <2>1. PICK n \in Nat : n = Len(Q[b]) /\ Len(R[b]) = n + 1
      BY DEF Grown
    <2>2. Len(Ids(Q)[b]) = n /\ Len(Ids(R)[b]) = n + 1
      BY <2>1, IdsOf
    <2>3. Ids(R)[b][n + 1] = w.rpc
      BY <2>1, IdsOf DEF Grown
    <2>4. \A i \in 1 .. n : Ids(R)[b][i] = Ids(Q)[b][i]
      <3>1. \A i \in 1 .. n : R[b][i] = Q[b][i] /\ i \in 1 .. n + 1
        BY <2>1 DEF Grown
      <3> QED
        BY <2>1, <3>1, IdsOf
    <2> QED
      BY <2>1, <2>2, <2>3, <2>4 DEF Grown
  <1>4. IsFiniteSet(PlacesOn(Bg, Ids(Q), f))
    BY <1>1
  <1>5. /\ IsFiniteSet(PlacesOn(Bg, Ids(R), f)) /\ Cardinality(PlacesOn(Bg, Ids(R), f)) \in Nat
        /\ w.rpc = f => Cardinality(PlacesOn(Bg, Ids(R), f))
                          = Cardinality(PlacesOn(Bg, Ids(Q), f)) + 1
        /\ w.rpc # f => Cardinality(PlacesOn(Bg, Ids(R), f)) = Cardinality(PlacesOn(Bg, Ids(Q), f))
    BY <1>2, <1>3, <1>4, QueueGrown
  <1> QED
    BY <1>1, <1>5

LEMMA ItemsShrunk ==
  ASSUME NEW Q, NEW R, BgQueues(Q), BgQueues(R), NEW b \in Bg, SameBut(b, Bg, R, Q),
         Shrunk(R[b], Q[b], 1), NEW f, IsFiniteSet(ItemsOf(Q, f))
  PROVE  /\ IsFiniteSet(ItemsOf(R, f)) /\ Cardinality(ItemsOf(R, f)) \in Nat
         /\ Q[b][1].rpc = f => Cardinality(ItemsOf(Q, f)) = Cardinality(ItemsOf(R, f)) + 1
         /\ Q[b][1].rpc # f => Cardinality(ItemsOf(Q, f)) = Cardinality(ItemsOf(R, f))
  <1>0. PICK k : k = 1
    OBVIOUS
  <1>1. ItemsOf(Q, f) = PlacesOn(Bg, Ids(Q), f) /\ ItemsOf(R, f) = PlacesOn(Bg, Ids(R), f)
    BY ItemsPlaces
  <1>2. SameBut(b, Bg, Ids(R), Ids(Q))
    BY DEF SameBut, Ids
  <1>3. PICK n \in Nat : n = Len(R[b]) /\ Len(Q[b]) = n + 1
    BY DEF Shrunk
  <1>4. Len(Ids(R)[b]) = n /\ Len(Ids(Q)[b]) = n + 1 /\ Ids(Q)[b][1] = Q[b][1].rpc
    BY <1>3, IdsOf
  <1>5. Shrunk(Ids(R)[b], Ids(Q)[b], k)
    <2>1. \A i \in 1 .. n : R[b][i] = Q[b][Skip(1, i)] /\ Skip(1, i) \in 1 .. n + 1
      BY <1>3 DEF Shrunk, Skip
    <2>2. \A i \in 1 .. n : Ids(R)[b][i] = Ids(Q)[b][Skip(1, i)]
      BY <1>3, <2>1, IdsOf
    <2> QED
      BY <1>0, <1>3, <1>4, <2>2 DEF Shrunk
  <1>6. IsFiniteSet(PlacesOn(Bg, Ids(Q), f))
    BY <1>1
  <1>7. /\ IsFiniteSet(PlacesOn(Bg, Ids(R), f)) /\ Cardinality(PlacesOn(Bg, Ids(R), f)) \in Nat
        /\ Ids(Q)[b][k] = f => Cardinality(PlacesOn(Bg, Ids(Q), f))
                                 = Cardinality(PlacesOn(Bg, Ids(R), f)) + 1
        /\ Ids(Q)[b][k] # f => Cardinality(PlacesOn(Bg, Ids(Q), f))
                                 = Cardinality(PlacesOn(Bg, Ids(R), f))
    BY <1>2, <1>5, <1>6, QueueShrunk
  <1> QED
    BY <1>0, <1>1, <1>4, <1>7

LEMMA NoItems ==
  ASSUME NEW Q, \A b \in Bg : Q[b] = <<>>, NEW f
  PROVE  IsFiniteSet(ItemsOf(Q, f)) /\ Cardinality(ItemsOf(Q, f)) = 0
  <1>1. \A b \in Bg : Len(Q[b]) = 0
    OBVIOUS
  <1>2. ItemsOf(Q, f) = {}
    BY <1>1 DEF ItemsOf
  <1> QED
    BY <1>2, FS_EmptySet

WorkTypes ==
    /\ rpc_pc \in [Fg -> {"none", "checked", "live", "closing", "gone"}]
    /\ bg_req_queue \in [Bg -> Seq(WorkItem)] /\ bg_cur \in [Bg -> Seq(WorkItem)]
    /\ bg_pc \in [Bg -> {"off", "start", "loop", "drain", "run", "exited"}]
    /\ \A b \in Bg : Len(bg_cur[b]) = IF bg_pc[b] = "run" THEN 1 ELSE 0
    /\ rpc_req_q \in [Fg -> Seq(BgRequest)] /\ in_flight \in [Fg -> Seq(BgRequest)]
    /\ rpc_resp_q \in [Fg -> Seq(Bg)]
    /\ work_open \in [Fg -> Int] /\ work_lost \in [Fg -> Nat] /\ nx_i \in Nat

\* A continuation is with the thread that issued its request.
GoodItem(b, w) == w.kind = "cont" => w.origin = b
WorkGood ==
    /\ \A b \in Bg : \A i \in 1 .. Len(bg_req_queue[b]) : GoodItem(b, bg_req_queue[b][i])
    /\ \A b \in Bg : \A i \in 1 .. Len(bg_cur[b]) : GoodItem(b, bg_cur[b][i])

\* The items of an Rpc with the background threads.
InReq(f) == Cardinality(ItemsOf(bg_req_queue, f))
InCur(f) == Cardinality(ItemsOf(bg_cur, f))
WorkFinite ==
    \A f \in Fg : IsFiniteSet(ItemsOf(bg_req_queue, f)) /\ IsFiniteSet(ItemsOf(bg_cur, f))

\* Only an Rpc that lives has work in its own queues, and only one that lives or
\* was destroyed with work unfinished has some with the background threads; when
\* the Nexus goes every Rpc is gone, and so are the threads it has joined.
WorkLive ==
    /\ \A f \in Fg : \/ rpc_req_q[f] # <<>> \/ rpc_resp_q[f] # <<>> \/ in_flight[f] # <<>>
                     => rpc_pc[f] = "live"
    /\ \A f \in Fg : rpc_pc[f] = "live" \/ f \in died_busy \/ (InReq(f) = 0 /\ InCur(f) = 0)
    /\ nx_pc = "join" => /\ \A f \in Fg : rpc_pc[f] = "gone"
                         /\ \A b \in Bg : b < nx_i => bg_pc[b] = "exited"

\* WorkConserved made inductive.
WorkInv == WorkTypes /\ WorkGood /\ WorkFinite /\ WorkLive /\ WorkConserved

LEMMA WorkCounts ==
  ASSUME WorkInv, NEW g \in Fg
  PROVE  /\ InReq(g) \in Nat /\ InCur(g) \in Nat /\ Len(rpc_req_q[g]) \in Nat
         /\ Len(rpc_resp_q[g]) \in Nat /\ Len(in_flight[g]) \in Nat /\ work_lost[g] \in Nat
         /\ work_open[g] \in Int /\ cont_moved = FALSE
         /\ work_open[g] = InReq(g) + InCur(g) + Len(rpc_req_q[g]) + Len(rpc_resp_q[g])
                           + Len(in_flight[g]) + work_lost[g]
         /\ work_lost[g] > 0 => g \in died_busy
  <1>1. WorkFinite /\ WorkConserved /\ WorkTypes
    BY DEF WorkInv
  <1>2. InReq(g) \in Nat /\ InCur(g) \in Nat
    BY <1>1, FS_CardinalityType DEF WorkFinite, InReq, InCur
  <1>3. /\ Len(rpc_req_q[g]) \in Nat /\ Len(rpc_resp_q[g]) \in Nat /\ Len(in_flight[g]) \in Nat
        /\ work_lost[g] \in Nat /\ work_open[g] \in Int
    BY <1>1 DEF WorkTypes
  <1>4. /\ ~cont_moved /\ (work_lost[g] > 0 => g \in died_busy)
        /\ work_open[g] = InReq(g) + InCur(g) + Len(rpc_req_q[g]) + Len(rpc_resp_q[g])
                          + Len(in_flight[g]) + work_lost[g]
    BY <1>1 DEF WorkConserved, InReq, InCur
  <1> QED
    BY <1>2, <1>3, <1>4

\* What the counts of an Rpc have to satisfy after a step.
Balanced(g) ==
    /\ work_open[g] = InReq(g) + InCur(g) + Len(rpc_req_q[g]) + Len(rpc_resp_q[g])
                      + Len(in_flight[g]) + work_lost[g]
    /\ work_lost[g] > 0 => g \in died_busy
LEMMA WorkAdds ==
  ASSUME WorkTypes', WorkGood', WorkLive', WorkFinite', \A g \in Fg : Balanced(g)', ~cont_moved'
  PROVE  WorkInv'
  BY DEF WorkInv, WorkConserved, Balanced, InReq, InCur

\* The queues after one of them grew, or lost its first item.
LEMMA ReqGrown ==
  ASSUME WorkInv, NEW b \in Bg, NEW s \in Seq(WorkItem), NEW w, Grown(s, bg_req_queue[b], w),
         bg_req_queue' = [bg_req_queue EXCEPT ![b] = s], NEW g \in Fg
  PROVE  /\ IsFiniteSet(ItemsOf(bg_req_queue', g)) /\ InReq(g)' \in Nat
         /\ w.rpc = g => InReq(g)' = InReq(g) + 1
         /\ w.rpc # g => InReq(g)' = InReq(g)
  <1> DEFINE Q == bg_req_queue
             R == bg_req_queue'
  <1>1. BgQueues(Q) /\ IsFiniteSet(ItemsOf(Q, g))
    BY DEF WorkInv, WorkTypes, WorkFinite, BgQueues
  <1>2. BgQueues(R) /\ R[b] = s /\ SameBut(b, Bg, R, Q)
    BY <1>1 DEF BgQueues, SameBut
  <1>3. Grown(R[b], Q[b], w)
    BY <1>2
  <1> HIDE DEF Q, R
  <1>4. /\ IsFiniteSet(ItemsOf(R, g)) /\ Cardinality(ItemsOf(R, g)) \in Nat
        /\ w.rpc = g => Cardinality(ItemsOf(R, g)) = Cardinality(ItemsOf(Q, g)) + 1
        /\ w.rpc # g => Cardinality(ItemsOf(R, g)) = Cardinality(ItemsOf(Q, g))
    BY ONLY <1>1, <1>2, <1>3, b \in Bg, ItemsGrown
  <1> QED
    BY <1>4 DEF Q, R, InReq

LEMMA ReqShrunk ==
  ASSUME WorkInv, NEW b \in Bg, NEW s \in Seq(WorkItem), Shrunk(s, bg_req_queue[b], 1),
         bg_req_queue' = [bg_req_queue EXCEPT ![b] = s], NEW g \in Fg
  PROVE  /\ IsFiniteSet(ItemsOf(bg_req_queue', g)) /\ InReq(g)' \in Nat
         /\ bg_req_queue[b][1].rpc = g => InReq(g) = InReq(g)' + 1
         /\ bg_req_queue[b][1].rpc # g => InReq(g) = InReq(g)'
  <1> DEFINE Q == bg_req_queue
             R == bg_req_queue'
  <1>1. BgQueues(Q) /\ IsFiniteSet(ItemsOf(Q, g))
    BY DEF WorkInv, WorkTypes, WorkFinite, BgQueues
  <1>2. BgQueues(R) /\ R[b] = s /\ SameBut(b, Bg, R, Q)
    BY <1>1 DEF BgQueues, SameBut
  <1>3. Shrunk(R[b], Q[b], 1)
    BY <1>2
  <1> HIDE DEF Q, R
  <1>4. /\ IsFiniteSet(ItemsOf(R, g)) /\ Cardinality(ItemsOf(R, g)) \in Nat
        /\ Q[b][1].rpc = g => Cardinality(ItemsOf(Q, g)) = Cardinality(ItemsOf(R, g)) + 1
        /\ Q[b][1].rpc # g => Cardinality(ItemsOf(Q, g)) = Cardinality(ItemsOf(R, g))
    BY ONLY <1>1, <1>2, <1>3, b \in Bg, ItemsShrunk
  <1> QED
    BY <1>4 DEF Q, R, InReq

LEMMA CurGrown ==
  ASSUME WorkInv, NEW b \in Bg, NEW s \in Seq(WorkItem), NEW w, Grown(s, bg_cur[b], w),
         bg_cur' = [bg_cur EXCEPT ![b] = s], NEW g \in Fg
  PROVE  /\ IsFiniteSet(ItemsOf(bg_cur', g)) /\ InCur(g)' \in Nat
         /\ w.rpc = g => InCur(g)' = InCur(g) + 1
         /\ w.rpc # g => InCur(g)' = InCur(g)
  <1> DEFINE Q == bg_cur
             R == bg_cur'
  <1>1. BgQueues(Q) /\ IsFiniteSet(ItemsOf(Q, g))
    BY DEF WorkInv, WorkTypes, WorkFinite, BgQueues
  <1>2. BgQueues(R) /\ R[b] = s /\ SameBut(b, Bg, R, Q)
    BY <1>1 DEF BgQueues, SameBut
  <1>3. Grown(R[b], Q[b], w)
    BY <1>2
  <1> HIDE DEF Q, R
  <1>4. /\ IsFiniteSet(ItemsOf(R, g)) /\ Cardinality(ItemsOf(R, g)) \in Nat
        /\ w.rpc = g => Cardinality(ItemsOf(R, g)) = Cardinality(ItemsOf(Q, g)) + 1
        /\ w.rpc # g => Cardinality(ItemsOf(R, g)) = Cardinality(ItemsOf(Q, g))
    BY ONLY <1>1, <1>2, <1>3, b \in Bg, ItemsGrown
  <1> QED
    BY <1>4 DEF Q, R, InCur

LEMMA CurShrunk ==
  ASSUME WorkInv, NEW b \in Bg, NEW s \in Seq(WorkItem), Shrunk(s, bg_cur[b], 1),
         bg_cur' = [bg_cur EXCEPT ![b] = s], NEW g \in Fg
  PROVE  /\ IsFiniteSet(ItemsOf(bg_cur', g)) /\ InCur(g)' \in Nat
         /\ bg_cur[b][1].rpc = g => InCur(g) = InCur(g)' + 1
         /\ bg_cur[b][1].rpc # g => InCur(g) = InCur(g)'
  <1> DEFINE Q == bg_cur
             R == bg_cur'
  <1>1. BgQueues(Q) /\ IsFiniteSet(ItemsOf(Q, g))
    BY DEF WorkInv, WorkTypes, WorkFinite, BgQueues
  <1>2. BgQueues(R) /\ R[b] = s /\ SameBut(b, Bg, R, Q)
    BY <1>1 DEF BgQueues, SameBut
  <1>3. Shrunk(R[b], Q[b], 1)
    BY <1>2
  <1> HIDE DEF Q, R
  <1>4. /\ IsFiniteSet(ItemsOf(R, g)) /\ Cardinality(ItemsOf(R, g)) \in Nat
        /\ Q[b][1].rpc = g => Cardinality(ItemsOf(Q, g)) = Cardinality(ItemsOf(R, g)) + 1
        /\ Q[b][1].rpc # g => Cardinality(ItemsOf(Q, g)) = Cardinality(ItemsOf(R, g))
    BY ONLY <1>1, <1>2, <1>3, b \in Bg, ItemsShrunk
  <1> QED
    BY <1>4 DEF Q, R, InCur

\* How the counts of Rpc g change in a step.
Moved(g, o, a, c, p, q, n, l) ==
    /\ work_open'[g] = work_open[g] + o
    /\ InReq(g)' = InReq(g) + a /\ InCur(g)' = InCur(g) + c
    /\ Len(rpc_req_q'[g]) = Len(rpc_req_q[g]) + p
    /\ Len(rpc_resp_q'[g]) = Len(rpc_resp_q[g]) + q
    /\ Len(in_flight'[g]) = Len(in_flight[g]) + n
    /\ work_lost'[g] = work_lost[g] + l

\* The change of the sum is the sum of the changes.
Evens(o, a, c, p, q, n, l) ==
    /\ o \in Int /\ a \in Int /\ c \in Int /\ p \in Int /\ q \in Int /\ n \in Int /\ l \in Int
    /\ o = a + c + p + q + n + l
LEMMA MovedBalance ==
  ASSUME WorkInv, NEW g \in Fg, NEW o, NEW a, NEW c, NEW p, NEW q, NEW n, NEW l,
         Moved(g, o, a, c, p, q, n, l), Evens(o, a, c, p, q, n, l),
         work_lost'[g] > 0 => g \in died_busy'
  PROVE  Balanced(g)'
  <1>1. PICK na \in Nat, nc \in Nat, np \in Nat, nq \in Nat, nf \in Nat, nl \in Nat :
           /\ na = InReq(g) /\ nc = InCur(g) /\ np = Len(rpc_req_q[g])
           /\ nq = Len(rpc_resp_q[g]) /\ nf = Len(in_flight[g]) /\ nl = work_lost[g]
           /\ work_open[g] = na + nc + np + nq + nf + nl
    BY WorkCounts
  <1>2. /\ work_open'[g] = (na + nc + np + nq + nf + nl) + o
        /\ InReq(g)' = na + a /\ InCur(g)' = nc + c
        /\ Len(rpc_req_q'[g]) = np + p /\ Len(rpc_resp_q'[g]) = nq + q
        /\ Len(in_flight'[g]) = nf + n /\ work_lost'[g] = nl + l
    BY <1>1 DEF Moved
  <1>3. (na + nc + np + nq + nf + nl) + o
           = (na + a) + (nc + c) + (np + p) + (nq + q) + (nf + n) + (nl + l)
    BY ONLY na \in Nat, nc \in Nat, np \in Nat, nq \in Nat, nf \in Nat, nl \in Nat,
            Evens(o, a, c, p, q, n, l) DEF Evens
  <1> QED
    BY <1>2, <1>3 DEF Balanced

\* A step that ends no Rpc and gives work only to Rpcs that live.
LEMMA LiveKept ==
  ASSUME WorkInv, UNCHANGED <<rpc_pc, nx_pc, nx_i, died_busy>>,
         \A b \in Bg : bg_pc[b] = "exited" => bg_pc'[b] = "exited",
         \A g \in Fg : \/ rpc_pc[g] = "live"
                       \/ /\ rpc_req_q'[g] = rpc_req_q[g] /\ rpc_resp_q'[g] = rpc_resp_q[g]
                          /\ in_flight'[g] = in_flight[g],
         \A g \in Fg : \/ rpc_pc[g] = "live"
                       \/ InReq(g) = 0 /\ InCur(g) = 0 => InReq(g)' = 0 /\ InCur(g)' = 0
  PROVE  WorkLive'
  <1>1. WorkLive
    BY DEF WorkInv
  <1>2. \A f \in Fg : \/ rpc_req_q'[f] # <<>> \/ rpc_resp_q'[f] # <<>> \/ in_flight'[f] # <<>>
                      => rpc_pc'[f] = "live"
    BY <1>1 DEF WorkLive
  <1>3. \A f \in Fg : rpc_pc'[f] = "live" \/ f \in died_busy'
                      \/ (InReq(f)' = 0 /\ InCur(f)' = 0)
    BY <1>1 DEF WorkLive
  <1>4. nx_pc' = "join" => /\ \A f \in Fg : rpc_pc'[f] = "gone"
                           /\ \A b \in Bg : b < nx_i' => bg_pc'[b] = "exited"
    BY <1>1 DEF WorkLive
  <1> QED
    BY <1>2, <1>3, <1>4 DEF WorkLive

\* In the initial state there is no work.
LEMMA WorkInit == NexusInit => WorkInv
  <1> SUFFICES ASSUME NexusInit
               PROVE  WorkInv
    OBVIOUS
  <1>1. /\ \A b \in Bg : bg_req_queue[b] = <<>> /\ bg_cur[b] = <<>>
        /\ \A f \in Fg : rpc_req_q[f] = <<>> /\ rpc_resp_q[f] = <<>> /\ in_flight[f] = <<>>
    BY DEF NexusInit, NexusStart
  <1>2. \A f \in Fg : /\ IsFiniteSet(ItemsOf(bg_req_queue, f)) /\ IsFiniteSet(ItemsOf(bg_cur, f))
                      /\ InReq(f) = 0 /\ InCur(f) = 0
    BY <1>1, NoItems DEF InReq, InCur
  <1>3. WorkTypes /\ WorkGood
    BY <1>1 DEF WorkTypes, WorkGood, NexusInit, NexusStart
  <1>4. WorkLive
    BY <1>1, <1>2 DEF WorkLive, NexusInit
  <1>5. \A f \in Fg : work_open[f] = 0 /\ work_lost[f] = 0 /\ Len(rpc_req_q[f]) = 0
                      /\ Len(rpc_resp_q[f]) = 0 /\ Len(in_flight[f]) = 0
    BY <1>1 DEF NexusInit, NexusStart
  <1>6. WorkConserved
    BY <1>2, <1>5 DEF WorkConserved, NexusInit, InReq, InCur
  <1> QED
    BY <1>2, <1>3, <1>4, <1>6 DEF WorkInv, WorkFinite

\* A step that leaves the queues alone and ends no Rpc.
LEMMA WorkUntouched ==
  ASSUME WorkInv, UNCHANGED <<bg_req_queue, bg_cur, work>>,
         rpc_pc' \in [Fg -> {"none", "checked", "live", "closing", "gone"}], nx_i' \in Nat,
         bg_pc' \in [Bg -> {"off", "start", "loop", "drain", "run", "exited"}],
         \A b \in Bg : bg_pc'[b] = "run" <=> bg_pc[b] = "run",
         \A f \in Fg : rpc_pc[f] = "live" => rpc_pc'[f] = "live",
         nx_pc' = "join" => /\ \A f \in Fg : rpc_pc'[f] = "gone"
                            /\ \A b \in Bg : b < nx_i' => bg_pc'[b] = "exited"
  PROVE  WorkInv'
  <1>0. UNCHANGED <<rpc_req_q, rpc_resp_q, in_flight, work_open, work_lost, died_busy, cont_moved>>
    BY DEF work, rpcqs, lost
  <1>1. WorkTypes'
    BY <1>0 DEF WorkInv, WorkTypes
  <1>2. WorkGood'
    BY DEF WorkInv, WorkGood
  <1>3. WorkFinite' /\ WorkConserved'
    BY <1>0 DEF WorkInv, WorkFinite, WorkConserved
  <1>4. \A f \in Fg : InReq(f)' = InReq(f) /\ InCur(f)' = InCur(f)
    BY DEF InReq, InCur
  <1>5. WorkLive'
    BY <1>0, <1>4 DEF WorkInv, WorkLive
  <1> QED
    BY <1>1, <1>2, <1>3, <1>5 DEF WorkInv

LEMMA WorkSubmitReq ==
  ASSUME WorkInv, NEW f \in Fg, NEW b \in Bg, submit_bg_req_st(f, b)
  PROVE  WorkInv'
  <1> DEFINE w == [kind |-> "req", rpc |-> f, origin |-> NoThread]
             s == Append(bg_req_queue[b], w)
  <1>1. /\ rpc_pc[f] = "live" /\ bg_req_queue' = [bg_req_queue EXCEPT ![b] = s]
        /\ work_open' = [work_open EXCEPT ![f] = @ + 1]
        /\ UNCHANGED <<nx_pc, nx_i, bg_pc, bg_cur, rpc_pc, rpc_req_q, rpc_resp_q, in_flight,
                       work_lost, died_busy, cont_moved>>
    BY DEF submit_bg_req_st, main, hookvars, rpcqs, lost
  <1>2. bg_req_queue \in [Bg -> Seq(WorkItem)] /\ w \in WorkItem
    BY DEF WorkInv, WorkTypes, WorkItem
  <1>3. /\ s \in Seq(WorkItem) /\ Grown(s, bg_req_queue[b], w)
        /\ \A i \in 1 .. Len(s) : s[i] = w \/ \E j \in 1 .. Len(bg_req_queue[b]) :
                                                  s[i] = bg_req_queue[b][j]
    BY <1>2 DEF Grown
  <1>4. w.rpc = f /\ w.kind = "req"
    OBVIOUS
  <1> HIDE DEF s, w
  <1>5. \A g \in Fg : /\ IsFiniteSet(ItemsOf(bg_req_queue', g)) /\ InReq(g)' \in Nat
                      /\ f = g => InReq(g)' = InReq(g) + 1
                      /\ f # g => InReq(g)' = InReq(g)
    BY <1>1, <1>3, <1>4, ReqGrown
  <1>6. WorkTypes'
    BY <1>1, <1>2, <1>3 DEF WorkInv, WorkTypes
  <1>7. WorkGood'
    <2>1. ASSUME NEW c \in Bg, NEW i \in 1 .. Len(bg_req_queue'[c])
          PROVE  GoodItem(c, bg_req_queue'[c][i])
      <3>1. CASE c = b
        BY <1>1, <1>2, <1>3, <1>4, <2>1, <3>1 DEF WorkInv, WorkGood, GoodItem
      <3>2. CASE c # b
        BY <1>1, <1>2, <2>1, <3>2 DEF WorkInv, WorkGood
      <3> QED
        BY <3>1, <3>2
    <2> QED
      BY <1>1, <2>1 DEF WorkInv, WorkGood
  <1>8. \A g \in Fg : InCur(g)' = InCur(g)
    BY <1>1 DEF InCur
  <1>9. WorkLive'
    BY <1>1, <1>5, <1>8, LiveKept
  <1>10. WorkFinite'
    BY <1>1, <1>5 DEF WorkInv, WorkFinite
  <1>11. ASSUME NEW g \in Fg
         PROVE  Balanced(g)'
    <2>1. /\ work_lost'[g] = work_lost[g] /\ work_lost[g] \in Nat /\ work_open[g] \in Int
          /\ Len(rpc_req_q[g]) \in Nat /\ Len(rpc_resp_q[g]) \in Nat /\ Len(in_flight[g]) \in Nat
          /\ InReq(g) \in Nat /\ InCur(g) \in Nat
          /\ work_lost'[g] > 0 => g \in died_busy'
      BY <1>1, WorkCounts
    <2>2. CASE g = f
      <3>1. Moved(g, 1, 1, 0, 0, 0, 0, 0)
        BY <1>1, <1>5, <1>8, <2>1, <2>2 DEF Moved, WorkInv, WorkTypes
      <3>9. Evens(1, 1, 0, 0, 0, 0, 0)
        BY DEF Evens
      <3> QED
        BY <2>1, <3>1, <3>9, MovedBalance
    <2>3. CASE g # f
      <3>1. Moved(g, 0, 0, 0, 0, 0, 0, 0)
        BY <1>1, <1>5, <1>8, <2>1, <2>3 DEF Moved, WorkInv, WorkTypes
      <3>9. Evens(0, 0, 0, 0, 0, 0, 0)
        BY DEF Evens
      <3> QED
        BY <2>1, <3>1, <3>9, MovedBalance
    <2> QED
      BY <2>2, <2>3
  <1>12. ~cont_moved'
    BY <1>1 DEF WorkInv, WorkConserved
  <1> QED
    BY <1>6, <1>7, <1>9, <1>10, <1>11, <1>12, WorkAdds

LEMMA WorkPop ==
  ASSUME WorkInv, NEW b \in Bg, bg_pop(b)
  PROVE  WorkInv'
  <1> DEFINE q == bg_req_queue[b]
             s == Tail(q)
             u == <<Head(q)>>
  <1>1. /\ bg_pc[b] \in {"drain", "loop"} /\ q # <<>>
        /\ bg_req_queue' = [bg_req_queue EXCEPT ![b] = s]
        /\ bg_cur' = [bg_cur EXCEPT ![b] = u] /\ bg_pc' = [bg_pc EXCEPT ![b] = "run"]
        /\ UNCHANGED <<nx_pc, nx_i, rpc_pc, rpc_req_q, rpc_resp_q, in_flight, work_open,
                       work_lost, died_busy, cont_moved>>
    BY DEF bg_pop, main, hookvars, work, rpcqs, lost
  <1>2. /\ bg_req_queue \in [Bg -> Seq(WorkItem)] /\ bg_cur \in [Bg -> Seq(WorkItem)]
        /\ q \in Seq(WorkItem) /\ Len(bg_cur[b]) = 0
    BY <1>1 DEF WorkInv, WorkTypes
  <1>3. /\ s \in Seq(WorkItem) /\ Shrunk(s, q, 1) /\ Len(q) \in Nat /\ Len(s) \in Nat
        /\ \A i \in 1 .. Len(s) : s[i] = q[i + 1] /\ i + 1 \in 1 .. Len(q)
        /\ u \in Seq(WorkItem) /\ Len(u) = 1 /\ u[1] = q[1] /\ 1 \in 1 .. Len(q)
    BY <1>1, <1>2 DEF Shrunk, Skip
  <1>4. \A i \in 1 .. Len(q) : GoodItem(b, q[i])
    BY DEF WorkInv, WorkGood
  <1>5. Grown(u, bg_cur[b], q[1])
    BY <1>2, <1>3 DEF Grown
  <1> HIDE DEF s, u
  <1>6. \A g \in Fg : /\ IsFiniteSet(ItemsOf(bg_req_queue', g)) /\ InReq(g)' \in Nat
                      /\ q[1].rpc = g => InReq(g) = InReq(g)' + 1
                      /\ q[1].rpc # g => InReq(g) = InReq(g)'
    BY <1>1, <1>3, ReqShrunk
  <1>7. \A g \in Fg : /\ IsFiniteSet(ItemsOf(bg_cur', g)) /\ InCur(g)' \in Nat
                      /\ q[1].rpc = g => InCur(g)' = InCur(g) + 1
                      /\ q[1].rpc # g => InCur(g)' = InCur(g)
    BY <1>1, <1>3, <1>5, CurGrown
  <1>8. WorkTypes'
    <2>1. /\ bg_pc' \in [Bg -> {"off", "start", "loop", "drain", "run", "exited"}]
          /\ \A c \in Bg : Len(bg_cur'[c]) = IF bg_pc'[c] = "run" THEN 1 ELSE 0
      BY <1>1, <1>2, <1>3 DEF WorkInv, WorkTypes
    <2>2. bg_req_queue' \in [Bg -> Seq(WorkItem)] /\ bg_cur' \in [Bg -> Seq(WorkItem)]
      BY <1>1, <1>2, <1>3
    <2> QED
      BY <1>1, <2>1, <2>2 DEF WorkInv, WorkTypes
  <1>9. WorkGood'
    <2>1. ASSUME NEW c \in Bg, NEW i \in 1 .. Len(bg_req_queue'[c])
          PROVE  GoodItem(c, bg_req_queue'[c][i])
      <3>1. CASE c = b
        BY <1>1, <1>2, <1>3, <1>4, <2>1, <3>1
      <3>2. CASE c # b
        BY <1>1, <1>2, <2>1, <3>2 DEF WorkInv, WorkGood
      <3> QED
        BY <3>1, <3>2
    <2>2. ASSUME NEW c \in Bg, NEW i \in 1 .. Len(bg_cur'[c])
          PROVE  GoodItem(c, bg_cur'[c][i])
      <3>1. CASE c = b
        <4>1. bg_cur'[c] = u
          BY <1>1, <1>2, <3>1
        <4>2. Len(bg_cur'[c]) = 1
          BY <1>3, <4>1
        <4>3. i = 1
          BY <4>2, <2>2
        <4> QED
          BY <4>1, <4>3, <1>3, <1>4, <3>1
      <3>2. CASE c # b
        BY <1>1, <1>2, <2>2, <3>2 DEF WorkInv, WorkGood
      <3> QED
        BY <3>1, <3>2
    <2> QED
      BY <2>1, <2>2 DEF WorkGood
  <1>10. WorkLive'
    <2>1. \A c \in Bg : bg_pc[c] = "exited" => bg_pc'[c] = "exited"
      BY <1>1 DEF WorkInv, WorkTypes
    <2>2. ASSUME NEW g \in Fg, InReq(g) = 0, InCur(g) = 0
          PROVE  InReq(g)' = 0 /\ InCur(g)' = 0
      BY <1>6, <1>7, <2>2
    <2> QED
      BY <1>1, <2>1, <2>2, LiveKept
  <1>11. WorkFinite'
    BY <1>6, <1>7 DEF WorkFinite
  <1>12. ASSUME NEW g \in Fg
         PROVE  Balanced(g)'
    <2>1. /\ work_lost'[g] = work_lost[g] /\ work_lost[g] \in Nat /\ work_open[g] \in Int
          /\ Len(rpc_req_q[g]) \in Nat /\ Len(rpc_resp_q[g]) \in Nat /\ Len(in_flight[g]) \in Nat
          /\ InReq(g) \in Nat /\ InCur(g) \in Nat
          /\ work_lost'[g] > 0 => g \in died_busy'
      BY <1>1, WorkCounts
    <2>2. CASE g = q[1].rpc
      <3>0. InReq(g)' = InReq(g) + (-1)
        BY <1>6, <2>1, <2>2
      <3>1. Moved(g, 0, -1, 1, 0, 0, 0, 0)
        BY <1>1, <1>7, <2>1, <2>2, <3>0 DEF Moved
      <3>9. Evens(0, -1, 1, 0, 0, 0, 0)
        BY DEF Evens
      <3> QED
        BY <2>1, <3>1, <3>9, MovedBalance
    <2>3. CASE g # q[1].rpc
      <3>1. Moved(g, 0, 0, 0, 0, 0, 0, 0)
        BY <1>1, <1>6, <1>7, <2>1, <2>3 DEF Moved
      <3>9. Evens(0, 0, 0, 0, 0, 0, 0)
        BY DEF Evens
      <3> QED
        BY <2>1, <3>1, <3>9, MovedBalance
    <2> QED
      BY <2>2, <2>3
  <1>13. ~cont_moved'
    BY <1>1 DEF WorkInv, WorkConserved
  <1> QED
    BY <1>8, <1>9, <1>10, <1>11, <1>12, <1>13, WorkAdds

\* What a background thread that runs a request has in hand.
LEMMA ItemInHand ==
  ASSUME WorkInv, NEW b \in Bg, bg_pc[b] = "run"
  PROVE  /\ Len(bg_cur[b]) = 1 /\ bg_cur[b][1] \in WorkItem /\ GoodItem(b, bg_cur[b][1])
         /\ bg_cur[b][1].rpc \in Fg
  <1>1. bg_cur[b] \in Seq(WorkItem) /\ Len(bg_cur[b]) = 1
    BY DEF WorkInv, WorkTypes
  <1>2. bg_cur[b][1] \in WorkItem /\ GoodItem(b, bg_cur[b][1])
    BY <1>1 DEF WorkInv, WorkGood
  <1> QED
    BY <1>1, <1>2 DEF WorkItem

LEMMA WorkEnqueueRequest ==
  ASSUME WorkInv, ThreadIds, NEW b \in Bg, bg_enqueue_request(b)
  PROVE  WorkInv'
  <1>1. PICK f \in Fg : f = bg_cur[b][1].rpc /\ rpc_pc[f] = "live"
    BY ItemInHand DEF bg_enqueue_request
  <1> DEFINE r == [cont_etid |-> etid[b], origin |-> b]
             s == Append(rpc_req_q[f], r)
  <1>2. /\ rpc_req_q' = [rpc_req_q EXCEPT ![f] = s]
        /\ work_open' = [work_open EXCEPT ![f] = @ + 1]
        /\ UNCHANGED <<nx_pc, nx_i, rpc_pc, bg_pc, bg_cur, bg_req_queue, rpc_resp_q, in_flight,
                       work_lost, died_busy, cont_moved>>
    BY <1>1 DEF bg_enqueue_request, main, bg, hookvars, lost
  <1>3. rpc_req_q \in [Fg -> Seq(BgRequest)] /\ r \in BgRequest
    BY DEF WorkInv, WorkTypes, BgRequest, ThreadIds
  <1>4. s \in Seq(BgRequest) /\ Len(s) = Len(rpc_req_q[f]) + 1
    BY <1>3
  <1> HIDE DEF s, r
  <1>5. WorkTypes'
    BY <1>2, <1>3, <1>4 DEF WorkInv, WorkTypes
  <1>6. WorkGood' /\ WorkFinite' /\ ~cont_moved'
    BY <1>2 DEF WorkInv, WorkGood, WorkFinite, WorkConserved
  <1>7. \A g \in Fg : InReq(g)' = InReq(g) /\ InCur(g)' = InCur(g)
    BY <1>2 DEF InReq, InCur
  <1>8. WorkLive'
    <2>1. \A g \in Fg : rpc_pc[g] = "live" \/ rpc_req_q'[g] = rpc_req_q[g]
      BY <1>1, <1>2, <1>3
    <2> QED
      BY <1>2, <1>7, <2>1, LiveKept
  <1>9. ASSUME NEW g \in Fg
        PROVE  Balanced(g)'
    <2>1. /\ work_lost'[g] = work_lost[g] /\ work_lost[g] \in Nat /\ work_open[g] \in Int
          /\ Len(rpc_req_q[g]) \in Nat /\ Len(rpc_resp_q[g]) \in Nat /\ Len(in_flight[g]) \in Nat
          /\ InReq(g) \in Nat /\ InCur(g) \in Nat
          /\ work_lost'[g] > 0 => g \in died_busy'
      BY <1>2, WorkCounts
    <2>2. CASE g = f
      <3>1. Moved(g, 1, 0, 0, 1, 0, 0, 0)
        BY <1>2, <1>3, <1>4, <1>7, <2>1, <2>2 DEF Moved, WorkInv, WorkTypes
      <3>9. Evens(1, 0, 0, 1, 0, 0, 0)
        BY DEF Evens
      <3> QED
        BY <2>1, <3>1, <3>9, MovedBalance
    <2>3. CASE g # f
      <3>1. Moved(g, 0, 0, 0, 0, 0, 0, 0)
        BY <1>2, <1>3, <1>7, <2>1, <2>3 DEF Moved, WorkInv, WorkTypes
      <3>9. Evens(0, 0, 0, 0, 0, 0, 0)
        BY DEF Evens
      <3> QED
        BY <2>1, <3>1, <3>9, MovedBalance
    <2> QED
      BY <2>2, <2>3
  <1> QED
    BY <1>5, <1>6, <1>8, <1>9, WorkAdds

\* A background thread is done with its item.
LEMMA HandEmptied ==
  ASSUME WorkInv, NEW b \in Bg, bg_pc[b] = "run", ItemDone(b), UNCHANGED bg_req_queue
  PROVE  /\ bg_cur' \in [Bg -> Seq(WorkItem)] /\ WorkGood' /\ WorkFinite'
         /\ \A g \in Fg : /\ InReq(g)' = InReq(g) /\ InCur(g)' \in Nat
                          /\ bg_cur[b][1].rpc = g => InCur(g) = InCur(g)' + 1
                          /\ bg_cur[b][1].rpc # g => InCur(g) = InCur(g)'
         /\ bg_pc' \in [Bg -> {"off", "start", "loop", "drain", "run", "exited"}]
         /\ \A c \in Bg : Len(bg_cur'[c]) = IF bg_pc'[c] = "run" THEN 1 ELSE 0
         /\ \A c \in Bg : bg_pc[c] = "exited" => bg_pc'[c] = "exited"
  <1>1. PICK s : s = <<>>
    OBVIOUS
  <1>2. s \in Seq(WorkItem) /\ Len(s) = 0
    BY <1>1
  <1>3. /\ Len(bg_cur[b]) = 1 /\ bg_cur \in [Bg -> Seq(WorkItem)]
        /\ bg_pc \in [Bg -> {"off", "start", "loop", "drain", "run", "exited"}]
        /\ \A c \in Bg : Len(bg_cur[c]) = IF bg_pc[c] = "run" THEN 1 ELSE 0
    BY ItemInHand DEF WorkInv, WorkTypes
  <1>4. bg_cur' = [bg_cur EXCEPT ![b] = s] /\ bg_pc' = [bg_pc EXCEPT ![b] = "drain"]
    BY <1>1 DEF ItemDone
  <1>5. Shrunk(s, bg_cur[b], 1)
    BY <1>2, <1>3 DEF Shrunk, Skip
  <1>6. \A g \in Fg : /\ IsFiniteSet(ItemsOf(bg_cur', g)) /\ InCur(g)' \in Nat
                      /\ bg_cur[b][1].rpc = g => InCur(g) = InCur(g)' + 1
                      /\ bg_cur[b][1].rpc # g => InCur(g) = InCur(g)'
    BY <1>2, <1>4, <1>5, CurShrunk
  <1>7. bg_cur'[b] = s /\ \A c \in Bg \ {b} : bg_cur'[c] = bg_cur[c] /\ bg_pc'[c] = bg_pc[c]
    BY <1>3, <1>4
  <1>8. /\ bg_pc' \in [Bg -> {"off", "start", "loop", "drain", "run", "exited"}]
        /\ \A c \in Bg : Len(bg_cur'[c]) = IF bg_pc'[c] = "run" THEN 1 ELSE 0
        /\ \A c \in Bg : bg_pc[c] = "exited" => bg_pc'[c] = "exited"
    BY <1>2, <1>3, <1>4, <1>7
  <1>9. WorkGood'
    <2>1. ASSUME NEW c \in Bg, NEW i \in 1 .. Len(bg_cur'[c])
          PROVE  GoodItem(c, bg_cur'[c][i])
      <3>1. CASE c = b
        BY <1>2, <1>7, <2>1, <3>1
      <3>2. CASE c # b
        BY <1>7, <2>1, <3>2 DEF WorkInv, WorkGood
      <3> QED
        BY <3>1, <3>2
    <2> QED
      BY <2>1 DEF WorkInv, WorkGood
  <1>10. \A g \in Fg : InReq(g)' = InReq(g)
    BY DEF InReq
  <1>11. WorkFinite'
    BY <1>6 DEF WorkInv, WorkFinite
  <1> QED
    BY <1>2, <1>3, <1>4, <1>6, <1>8, <1>9, <1>10, <1>11

LEMMA WorkEnqueueResponse ==
  ASSUME WorkInv, NEW b \in Bg, bg_enqueue_response(b)
  PROVE  WorkInv'
  <1>1. PICK f \in Fg : f = bg_cur[b][1].rpc /\ rpc_pc[f] = "live"
    BY ItemInHand DEF bg_enqueue_response
  <1> DEFINE s == Append(rpc_resp_q[f], b)
  <1>2. /\ bg_pc[b] = "run" /\ rpc_resp_q' = [rpc_resp_q EXCEPT ![f] = s] /\ ItemDone(b)
        /\ UNCHANGED <<nx_pc, nx_i, rpc_pc, bg_req_queue, rpc_req_q, in_flight, work_open,
                       work_lost, died_busy, cont_moved>>
    BY <1>1 DEF bg_enqueue_response, main, hookvars, lost
  <1>3. rpc_resp_q \in [Fg -> Seq(Bg)]
    BY DEF WorkInv, WorkTypes
  <1>4. s \in Seq(Bg) /\ Len(s) = Len(rpc_resp_q[f]) + 1
    BY <1>3
  <1> HIDE DEF s
  <1>5. /\ bg_cur' \in [Bg -> Seq(WorkItem)] /\ WorkGood' /\ WorkFinite'
        /\ \A g \in Fg : /\ InReq(g)' = InReq(g) /\ InCur(g)' \in Nat
                         /\ f = g => InCur(g) = InCur(g)' + 1
                         /\ f # g => InCur(g) = InCur(g)'
        /\ bg_pc' \in [Bg -> {"off", "start", "loop", "drain", "run", "exited"}]
        /\ \A c \in Bg : Len(bg_cur'[c]) = IF bg_pc'[c] = "run" THEN 1 ELSE 0
        /\ \A c \in Bg : bg_pc[c] = "exited" => bg_pc'[c] = "exited"
    BY <1>1, <1>2, HandEmptied
  <1>6. WorkTypes'
    BY <1>2, <1>3, <1>4, <1>5 DEF WorkInv, WorkTypes
  <1>7. WorkLive'
    <2>1. \A g \in Fg : rpc_pc[g] = "live" \/ rpc_resp_q'[g] = rpc_resp_q[g]
      BY <1>1, <1>2, <1>3
    <2>2. ASSUME NEW g \in Fg, InReq(g) = 0, InCur(g) = 0
          PROVE  InReq(g)' = 0 /\ InCur(g)' = 0
      BY <1>5, <2>2
    <2> QED
      BY <1>2, <1>5, <2>1, <2>2, LiveKept
  <1>8. ASSUME NEW g \in Fg
        PROVE  Balanced(g)'
    <2>1. /\ work_lost'[g] = work_lost[g] /\ work_lost[g] \in Nat /\ work_open[g] \in Int
          /\ Len(rpc_req_q[g]) \in Nat /\ Len(rpc_resp_q[g]) \in Nat /\ Len(in_flight[g]) \in Nat
          /\ InReq(g) \in Nat /\ InCur(g) \in Nat
          /\ work_lost'[g] > 0 => g \in died_busy'
      BY <1>2, WorkCounts
    <2>2. CASE g = f
      <3>0. InCur(g)' = InCur(g) + (-1) /\ Len(rpc_resp_q'[g]) = Len(rpc_resp_q[g]) + 1
        BY <1>2, <1>3, <1>4, <1>5, <2>1, <2>2
      <3>1. Moved(g, 0, 0, -1, 0, 1, 0, 0)
        BY <1>2, <1>5, <2>1, <3>0 DEF Moved
      <3>9. Evens(0, 0, -1, 0, 1, 0, 0)
        BY DEF Evens
      <3> QED
        BY <2>1, <3>1, <3>9, MovedBalance
    <2>3. CASE g # f
      <3>1. Moved(g, 0, 0, 0, 0, 0, 0, 0)
        BY <1>2, <1>3, <1>5, <2>1, <2>3 DEF Moved
      <3>9. Evens(0, 0, 0, 0, 0, 0, 0)
        BY DEF Evens
      <3> QED
        BY <2>1, <3>1, <3>9, MovedBalance
    <2> QED
      BY <2>2, <2>3
  <1>9. ~cont_moved'
    BY <1>2 DEF WorkInv, WorkConserved
  <1> QED
    BY <1>5, <1>6, <1>7, <1>8, <1>9, WorkAdds

\* Only the Rpcs that were destroyed with work unfinished have work in the hands
\* of a thread that finds them gone.
LEMMA WorkRunStale ==
  ASSUME WorkInv, NEW b \in Bg, bg_run_stale(b)
  PROVE  WorkInv'
  <1>1. PICK f \in Fg : f = bg_cur[b][1].rpc /\ rpc_pc[f] # "live"
    BY ItemInHand DEF bg_run_stale
  <1>2. /\ bg_pc[b] = "run" /\ ItemDone(b)
        /\ work_lost' = [work_lost EXCEPT ![f] = @ + 1]
        /\ UNCHANGED <<nx_pc, nx_i, rpc_pc, bg_req_queue, rpc_req_q, rpc_resp_q, in_flight,
                       work_open, died_busy, cont_moved>>
    BY <1>1 DEF bg_run_stale, main, hookvars, rpcqs
  <1>3. /\ bg_cur' \in [Bg -> Seq(WorkItem)] /\ WorkGood' /\ WorkFinite'
        /\ \A g \in Fg : /\ InReq(g)' = InReq(g) /\ InCur(g)' \in Nat
                         /\ f = g => InCur(g) = InCur(g)' + 1
                         /\ f # g => InCur(g) = InCur(g)'
        /\ bg_pc' \in [Bg -> {"off", "start", "loop", "drain", "run", "exited"}]
        /\ \A c \in Bg : Len(bg_cur'[c]) = IF bg_pc'[c] = "run" THEN 1 ELSE 0
        /\ \A c \in Bg : bg_pc[c] = "exited" => bg_pc'[c] = "exited"
    BY <1>1, <1>2, HandEmptied
  <1>4. work_lost \in [Fg -> Nat]
    BY DEF WorkInv, WorkTypes
  <1>5. WorkTypes'
    BY <1>2, <1>3, <1>4 DEF WorkInv, WorkTypes
  <1>6. WorkLive'
    <2>1. ASSUME NEW g \in Fg, InReq(g) = 0, InCur(g) = 0
          PROVE  InReq(g)' = 0 /\ InCur(g)' = 0
      BY <1>3, <2>1
    <2> QED
      BY <1>2, <1>3, <2>1, LiveKept
  <1>7. f \in died_busy
    <2>1. InCur(f) # 0
      BY <1>3
    <2> QED
      BY <1>1, <2>1 DEF WorkInv, WorkLive
  <1>8. ASSUME NEW g \in Fg
        PROVE  Balanced(g)'
    <2>1. /\ work_lost[g] \in Nat /\ work_open[g] \in Int
          /\ Len(rpc_req_q[g]) \in Nat /\ Len(rpc_resp_q[g]) \in Nat /\ Len(in_flight[g]) \in Nat
          /\ InReq(g) \in Nat /\ InCur(g) \in Nat
          /\ work_lost[g] > 0 => g \in died_busy'
      BY <1>2, WorkCounts
    <2>2. CASE g = f
      <3>0. InCur(g)' = InCur(g) + (-1) /\ work_lost'[g] = work_lost[g] + 1
        BY <1>2, <1>3, <1>4, <2>1, <2>2
      <3>1. Moved(g, 0, 0, -1, 0, 0, 0, 1)
        BY <1>2, <1>3, <2>1, <3>0 DEF Moved
      <3>9. Evens(0, 0, -1, 0, 0, 0, 1)
        BY DEF Evens
      <3> QED
        BY <1>2, <1>7, <2>1, <2>2, <3>1, <3>9, MovedBalance
    <2>3. CASE g # f
      <3>1. Moved(g, 0, 0, 0, 0, 0, 0, 0) /\ work_lost'[g] = work_lost[g]
        BY <1>2, <1>3, <1>4, <2>1, <2>3 DEF Moved
      <3>9. Evens(0, 0, 0, 0, 0, 0, 0)
        BY DEF Evens
      <3> QED
        BY <2>1, <3>1, <3>9, MovedBalance
    <2> QED
      BY <2>2, <2>3
  <1>9. ~cont_moved'
    BY <1>2 DEF WorkInv, WorkConserved
  <1> QED
    BY <1>3, <1>5, <1>6, <1>8, <1>9, WorkAdds

LEMMA WorkRunCont ==
  ASSUME WorkInv, NEW b \in Bg, bg_run_cont(b)
  PROVE  WorkInv'
  <1>1. PICK f \in Fg : f = bg_cur[b][1].rpc
    BY ItemInHand DEF bg_run_cont
  <1>2. /\ bg_pc[b] = "run" /\ ItemDone(b)
        /\ work_open' = [work_open EXCEPT ![f] = @ - 1]
        /\ UNCHANGED <<nx_pc, nx_i, rpc_pc, bg_req_queue, rpc_req_q, rpc_resp_q, in_flight,
                       work_lost, died_busy>>
    BY <1>1 DEF bg_run_cont, main, hookvars, rpcqs, lost
  <1>3. ~cont_moved'
    BY ItemInHand DEF bg_run_cont, GoodItem, WorkInv, WorkConserved
  <1>4. /\ bg_cur' \in [Bg -> Seq(WorkItem)] /\ WorkGood' /\ WorkFinite'
        /\ \A g \in Fg : /\ InReq(g)' = InReq(g) /\ InCur(g)' \in Nat
                         /\ f = g => InCur(g) = InCur(g)' + 1
                         /\ f # g => InCur(g) = InCur(g)'
        /\ bg_pc' \in [Bg -> {"off", "start", "loop", "drain", "run", "exited"}]
        /\ \A c \in Bg : Len(bg_cur'[c]) = IF bg_pc'[c] = "run" THEN 1 ELSE 0
        /\ \A c \in Bg : bg_pc[c] = "exited" => bg_pc'[c] = "exited"
    BY <1>1, <1>2, HandEmptied
  <1>5. WorkTypes'
    BY <1>2, <1>4 DEF WorkInv, WorkTypes
  <1>6. WorkLive'
    <2>1. ASSUME NEW g \in Fg, InReq(g) = 0, InCur(g) = 0
          PROVE  InReq(g)' = 0 /\ InCur(g)' = 0
      BY <1>4, <2>1
    <2> QED
      BY <1>2, <1>4, <2>1, LiveKept
  <1>7. ASSUME NEW g \in Fg
        PROVE  Balanced(g)'
    <2>1. /\ work_lost'[g] = work_lost[g] /\ work_lost[g] \in Nat /\ work_open[g] \in Int
          /\ Len(rpc_req_q[g]) \in Nat /\ Len(rpc_resp_q[g]) \in Nat /\ Len(in_flight[g]) \in Nat
          /\ InReq(g) \in Nat /\ InCur(g) \in Nat
          /\ work_lost'[g] > 0 => g \in died_busy'
      BY <1>2, WorkCounts
    <2>2. CASE g = f
      <3>0. InCur(g)' = InCur(g) + (-1) /\ work_open'[g] = work_open[g] + (-1)
        BY <1>2, <1>4, <2>1, <2>2 DEF WorkInv, WorkTypes
      <3>1. Moved(g, -1, 0, -1, 0, 0, 0, 0)
        BY <1>2, <1>4, <2>1, <3>0 DEF Moved
      <3>9. Evens(-1, 0, -1, 0, 0, 0, 0)
        BY DEF Evens
      <3> QED
        BY <2>1, <3>1, <3>9, MovedBalance
    <2>3. CASE g # f
      <3>1. Moved(g, 0, 0, 0, 0, 0, 0, 0)
        BY <1>2, <1>4, <2>1, <2>3 DEF Moved, WorkInv, WorkTypes
      <3>9. Evens(0, 0, 0, 0, 0, 0, 0)
        BY DEF Evens
      <3> QED
        BY <2>1, <3>1, <3>9, MovedBalance
    <2> QED
      BY <2>2, <2>3
  <1> QED
    BY <1>3, <1>4, <1>5, <1>6, <1>7, WorkAdds

LEMMA WorkTakeRequests ==
  ASSUME WorkInv, NEW f \in Fg, process_bg_queues_enqueue_request_st(f)
  PROVE  WorkInv'
  <1> DEFINE s == in_flight[f] \o rpc_req_q[f]
  <1>1. PICK e : e = <<>>
    OBVIOUS
  <1>2. /\ rpc_req_q[f] # <<>> /\ in_flight' = [in_flight EXCEPT ![f] = s]
        /\ rpc_req_q' = [rpc_req_q EXCEPT ![f] = e]
        /\ UNCHANGED <<nx_pc, nx_i, rpc_pc, bg_pc, bg_cur, bg_req_queue, rpc_resp_q, work_open,
                       work_lost, died_busy, cont_moved>>
    BY <1>1 DEF process_bg_queues_enqueue_request_st, main, bg, hookvars, lost
  <1>3. /\ rpc_req_q \in [Fg -> Seq(BgRequest)] /\ in_flight \in [Fg -> Seq(BgRequest)]
        /\ rpc_pc[f] = "live"
    BY <1>2 DEF WorkInv, WorkTypes, WorkLive
  <1>4. PICK n \in Nat : n = Len(rpc_req_q[f])
    BY <1>3
  <1>5. /\ s \in Seq(BgRequest) /\ Len(s) = Len(in_flight[f]) + n
        /\ e \in Seq(BgRequest) /\ Len(e) = 0
    BY <1>1, <1>3, <1>4
  <1> HIDE DEF s
  <1>6. WorkTypes'
    BY <1>2, <1>3, <1>5 DEF WorkInv, WorkTypes
  <1>7. WorkGood' /\ WorkFinite' /\ ~cont_moved'
    BY <1>2 DEF WorkInv, WorkGood, WorkFinite, WorkConserved
  <1>8. \A g \in Fg : InReq(g)' = InReq(g) /\ InCur(g)' = InCur(g)
    BY <1>2 DEF InReq, InCur
  <1>9. WorkLive'
    <2>1. \A g \in Fg : \/ rpc_pc[g] = "live"
                        \/ rpc_req_q'[g] = rpc_req_q[g] /\ in_flight'[g] = in_flight[g]
      BY <1>2, <1>3
    <2> QED
      BY <1>2, <1>8, <2>1, LiveKept
  <1>10. ASSUME NEW g \in Fg
         PROVE  Balanced(g)'
    <2>1. /\ work_lost'[g] = work_lost[g] /\ work_lost[g] \in Nat /\ work_open[g] \in Int
          /\ Len(rpc_req_q[g]) \in Nat /\ Len(rpc_resp_q[g]) \in Nat /\ Len(in_flight[g]) \in Nat
          /\ InReq(g) \in Nat /\ InCur(g) \in Nat
          /\ work_lost'[g] > 0 => g \in died_busy'
      BY <1>2, WorkCounts
    <2>2. CASE g = f
      <3>1. Len(rpc_req_q'[g]) = Len(rpc_req_q[g]) + (-n)
        BY <1>2, <1>3, <1>4, <1>5, <2>2
      <3>2. Moved(g, 0, 0, 0, -n, 0, n, 0)
        BY <1>2, <1>3, <1>5, <1>8, <2>1, <2>2, <3>1 DEF Moved
      <3>3. Evens(0, 0, 0, -n, 0, n, 0)
        BY <1>4 DEF Evens
      <3> QED
        BY <2>1, <3>2, <3>3, MovedBalance
    <2>3. CASE g # f
      <3>1. Moved(g, 0, 0, 0, 0, 0, 0, 0)
        BY <1>2, <1>3, <1>8, <2>1, <2>3 DEF Moved
      <3>9. Evens(0, 0, 0, 0, 0, 0, 0)
        BY DEF Evens
      <3> QED
        BY <2>1, <3>1, <3>9, MovedBalance
    <2> QED
      BY <2>2, <2>3
  <1> QED
    BY <1>6, <1>7, <1>9, <1>10, WorkAdds

LEMMA WorkTakeResponses ==
  ASSUME WorkInv, NEW f \in Fg, process_bg_queues_enqueue_response_st(f)
  PROVE  WorkInv'
  <1>1. PICK e : e = <<>>
    OBVIOUS
  <1>2. rpc_resp_q \in [Fg -> Seq(Bg)] /\ work_open \in [Fg -> Int]
    BY DEF WorkInv, WorkTypes
  <1>3. PICK n \in Nat : n = Len(rpc_resp_q[f])
    BY <1>2
  <1>4. /\ work_open' = [work_open EXCEPT ![f] = @ - n]
        /\ rpc_resp_q' = [rpc_resp_q EXCEPT ![f] = e] /\ rpc_resp_q[f] # <<>>
        /\ UNCHANGED <<nx_pc, nx_i, rpc_pc, bg_pc, bg_cur, bg_req_queue, rpc_req_q, in_flight,
                       work_lost, died_busy, cont_moved>>
    BY <1>1, <1>3 DEF process_bg_queues_enqueue_response_st, main, bg, hookvars, lost
  <1>5. e \in Seq(Bg) /\ Len(e) = 0
    BY <1>1
  <1>6. WorkTypes'
    BY <1>2, <1>4, <1>5 DEF WorkInv, WorkTypes
  <1>7. WorkGood' /\ WorkFinite' /\ ~cont_moved'
    BY <1>4 DEF WorkInv, WorkGood, WorkFinite, WorkConserved
  <1>8. \A g \in Fg : InReq(g)' = InReq(g) /\ InCur(g)' = InCur(g)
    BY <1>4 DEF InReq, InCur
  <1>9. WorkLive'
    <2>1. \A g \in Fg : rpc_pc[g] = "live" \/ rpc_resp_q'[g] = rpc_resp_q[g]
      BY <1>2, <1>4 DEF WorkInv, WorkLive
    <2> QED
      BY <1>4, <1>8, <2>1, LiveKept
  <1>10. ASSUME NEW g \in Fg
         PROVE  Balanced(g)'
    <2>1. /\ work_lost'[g] = work_lost[g] /\ work_lost[g] \in Nat /\ work_open[g] \in Int
          /\ Len(rpc_req_q[g]) \in Nat /\ Len(rpc_resp_q[g]) \in Nat /\ Len(in_flight[g]) \in Nat
          /\ InReq(g) \in Nat /\ InCur(g) \in Nat
          /\ work_lost'[g] > 0 => g \in died_busy'
      BY <1>4, WorkCounts
    <2>2. CASE g = f
      <3>1. /\ Len(rpc_resp_q'[g]) = Len(rpc_resp_q[g]) + (-n)
            /\ work_open'[g] = work_open[g] + (-n)
        BY <1>2, <1>3, <1>4, <1>5, <2>1, <2>2
      <3>0. PICK m \in Int : m = -n
        OBVIOUS
      <3>4. /\ InReq(g)' = InReq(g) + 0 /\ InCur(g)' = InCur(g) + 0
            /\ Len(rpc_req_q'[g]) = Len(rpc_req_q[g]) + 0
            /\ Len(in_flight'[g]) = Len(in_flight[g]) + 0
            /\ work_lost'[g] = work_lost[g] + 0
        BY <1>4, <1>8, <2>1
      <3>2. Moved(g, m, 0, 0, 0, m, 0, 0)
        BY ONLY <3>0, <3>1, <3>4 DEF Moved
      <3>3. Evens(m, 0, 0, 0, m, 0, 0)
        BY DEF Evens
      <3> QED
        BY <2>1, <3>2, <3>3, MovedBalance
    <2>3. CASE g # f
      <3>1. Moved(g, 0, 0, 0, 0, 0, 0, 0)
        BY <1>2, <1>4, <1>8, <2>1, <2>3 DEF Moved
      <3>9. Evens(0, 0, 0, 0, 0, 0, 0)
        BY DEF Evens
      <3> QED
        BY <2>1, <3>1, <3>9, MovedBalance
    <2> QED
      BY <2>2, <2>3
  <1> QED
    BY <1>6, <1>7, <1>9, <1>10, WorkAdds

LEMMA WorkSubmitResp ==
  ASSUME WorkInv, NEW f \in Fg, submit_bg_resp_st(f)
  PROVE  WorkInv'
  <1>1. bg_req_queue \in [Bg -> Seq(WorkItem)] /\ in_flight \in [Fg -> Seq(BgRequest)]
    BY DEF WorkInv, WorkTypes
  <1>2. PICK m : m = Head(in_flight[f])
    OBVIOUS
  <1>3. m \in BgRequest /\ m.cont_etid \in Bg /\ in_flight[f] # <<>>
    BY <1>1, <1>2 DEF submit_bg_resp_st
  <1>4. m.origin = m.cont_etid
    BY <1>3, NexusAssumption DEF BgRequest, NoThread, Bg
  <1>5. PICK b \in Bg : b = m.cont_etid
    BY <1>3
  <1> DEFINE w == [kind |-> "cont", rpc |-> f, origin |-> b]
             s == Append(bg_req_queue[b], w)
             u == Tail(in_flight[f])
  <1>6. /\ bg_req_queue' = [bg_req_queue EXCEPT ![b] = s]
        /\ in_flight' = [in_flight EXCEPT ![f] = u]
        /\ UNCHANGED <<nx_pc, nx_i, rpc_pc, bg_pc, bg_cur, rpc_req_q, rpc_resp_q, work_open,
                       work_lost, died_busy, cont_moved>>
    BY <1>2, <1>4, <1>5 DEF submit_bg_resp_st, main, hookvars, lost
  <1>7. w \in WorkItem /\ w.rpc = f /\ w.origin = b /\ rpc_pc[f] = "live"
    BY <1>3 DEF WorkItem, WorkInv, WorkLive
  <1>8. /\ s \in Seq(WorkItem) /\ Grown(s, bg_req_queue[b], w)
        /\ \A i \in 1 .. Len(s) : s[i] = w \/ \E j \in 1 .. Len(bg_req_queue[b]) :
                                                  s[i] = bg_req_queue[b][j]
    BY <1>1, <1>7 DEF Grown
  <1>9. u \in Seq(BgRequest) /\ Len(in_flight[f]) = Len(u) + 1 /\ Len(u) \in Nat
    BY <1>1, <1>3
  <1> HIDE DEF s, u, w
  <1>10. \A g \in Fg : /\ IsFiniteSet(ItemsOf(bg_req_queue', g)) /\ InReq(g)' \in Nat
                       /\ f = g => InReq(g)' = InReq(g) + 1
                       /\ f # g => InReq(g)' = InReq(g)
    BY <1>6, <1>7, <1>8, ReqGrown
  <1>11. WorkTypes'
    BY <1>1, <1>6, <1>8, <1>9 DEF WorkInv, WorkTypes
  <1>12. WorkGood'
    <2>1. ASSUME NEW c \in Bg, NEW i \in 1 .. Len(bg_req_queue'[c])
          PROVE  GoodItem(c, bg_req_queue'[c][i])
      <3>1. CASE c = b
        <4>1. bg_req_queue'[c] = s
          BY <1>1, <1>6, <3>1
        <4>2. CASE s[i] = w
          BY <1>7, <3>1, <4>1, <4>2 DEF GoodItem
        <4>3. CASE \E j \in 1 .. Len(bg_req_queue[b]) : s[i] = bg_req_queue[b][j]
          BY <3>1, <4>1, <4>3 DEF WorkInv, WorkGood
        <4> QED
          BY <1>8, <2>1, <4>1, <4>2, <4>3
      <3>2. CASE c # b
        BY <1>1, <1>6, <2>1, <3>2 DEF WorkInv, WorkGood
      <3> QED
        BY <3>1, <3>2
    <2> QED
      BY <1>6, <2>1 DEF WorkInv, WorkGood
  <1>13. \A g \in Fg : InCur(g)' = InCur(g)
    BY <1>6 DEF InCur
  <1>14. WorkLive'
    <2>1. \A g \in Fg : rpc_pc[g] = "live" \/ (f # g /\ in_flight'[g] = in_flight[g])
      BY <1>1, <1>6, <1>7
    <2> QED
      BY <1>6, <1>10, <1>13, <2>1, LiveKept
  <1>15. WorkFinite'
    BY <1>6, <1>10 DEF WorkInv, WorkFinite
  <1>16. ASSUME NEW g \in Fg
         PROVE  Balanced(g)'
    <2>1. /\ work_lost'[g] = work_lost[g] /\ work_lost[g] \in Nat /\ work_open[g] \in Int
          /\ Len(rpc_req_q[g]) \in Nat /\ Len(rpc_resp_q[g]) \in Nat /\ Len(in_flight[g]) \in Nat
          /\ InReq(g) \in Nat /\ InCur(g) \in Nat
          /\ work_lost'[g] > 0 => g \in died_busy'
      BY <1>6, WorkCounts
    <2>2. CASE g = f
      <3>1. Len(in_flight'[g]) = Len(in_flight[g]) + (-1)
        BY <1>1, <1>6, <1>9, <2>2
      <3>2. Moved(g, 0, 1, 0, 0, 0, -1, 0)
        BY <1>6, <1>10, <1>13, <2>1, <2>2, <3>1 DEF Moved
      <3>9. Evens(0, 1, 0, 0, 0, -1, 0)
        BY DEF Evens
      <3> QED
        BY <2>1, <3>2, <3>9, MovedBalance
    <2>3. CASE g # f
      <3>1. Moved(g, 0, 0, 0, 0, 0, 0, 0)
        BY <1>1, <1>6, <1>10, <1>13, <2>1, <2>3 DEF Moved
      <3>9. Evens(0, 0, 0, 0, 0, 0, 0)
        BY DEF Evens
      <3> QED
        BY <2>1, <3>1, <3>9, MovedBalance
    <2> QED
      BY <2>2, <2>3
  <1>17. ~cont_moved'
    BY <1>6 DEF WorkInv, WorkConserved
  <1> QED
    BY <1>11, <1>12, <1>14, <1>15, <1>16, <1>17, WorkAdds

\* An Rpc goes: what was in its own queues is lost, and it is recorded when there
\* was any work of its own anywhere.
LEMMA WorkDtor ==
  ASSUME WorkInv, NEW f \in Fg, rpc_dtor(f)
  PROVE  WorkInv'
  <1>1. PICK e : e = <<>>
    OBVIOUS
  <1>2. /\ rpc_req_q \in [Fg -> Seq(BgRequest)] /\ in_flight \in [Fg -> Seq(BgRequest)]
        /\ rpc_resp_q \in [Fg -> Seq(Bg)] /\ work_lost \in [Fg -> Nat]
        /\ rpc_pc \in [Fg -> {"none", "checked", "live", "closing", "gone"}]
    BY DEF WorkInv, WorkTypes
  <1>3. PICK np \in Nat, nq \in Nat, nf \in Nat :
           np = Len(rpc_req_q[f]) /\ nq = Len(rpc_resp_q[f]) /\ nf = Len(in_flight[f])
    BY <1>2
  <1>4. /\ rpc_pc[f] = "live" /\ rpc_pc' = [rpc_pc EXCEPT ![f] = "closing"]
        /\ died_busy' = IF RpcIdle(f) THEN died_busy ELSE died_busy \cup {f}
        /\ work_lost' = [work_lost EXCEPT ![f] = @ + (np + nq + nf)]
        /\ rpc_req_q' = [rpc_req_q EXCEPT ![f] = e]
        /\ rpc_resp_q' = [rpc_resp_q EXCEPT ![f] = e]
        /\ in_flight' = [in_flight EXCEPT ![f] = e]
        /\ UNCHANGED <<nx_pc, nx_i, bg_pc, bg_cur, bg_req_queue, work_open, cont_moved>>
    BY <1>1, <1>3 DEF rpc_dtor, main, bg
  <1>5. e \in Seq(BgRequest) /\ e \in Seq(Bg) /\ Len(e) = 0
    BY <1>1
  <1>6. np + nq + nf \in Nat
    OBVIOUS
  <1>7. WorkTypes'
    BY <1>2, <1>4, <1>5, <1>6 DEF WorkInv, WorkTypes
  <1>8. WorkGood' /\ WorkFinite' /\ ~cont_moved'
    BY <1>4 DEF WorkInv, WorkGood, WorkFinite, WorkConserved
  <1>9. \A g \in Fg : InReq(g)' = InReq(g) /\ InCur(g)' = InCur(g)
    BY <1>4 DEF InReq, InCur
  <1>10. ~RpcIdle(f) \/ (InReq(f) = 0 /\ InCur(f) = 0 /\ np = 0 /\ nq = 0 /\ nf = 0)
    <2> SUFFICES ASSUME RpcIdle(f)
                 PROVE  InReq(f) = 0 /\ InCur(f) = 0 /\ np = 0 /\ nq = 0 /\ nf = 0
      OBVIOUS
    <2>1. InReq(f) = 0 /\ InCur(f) = 0
      BY FS_EmptySet DEF RpcIdle, InReq, InCur
    <2>2. rpc_req_q[f] = <<>> /\ rpc_resp_q[f] = <<>> /\ in_flight[f] = <<>>
      BY DEF RpcIdle
    <2> QED
      BY <1>3, <2>1, <2>2
  <1>11. died_busy \subseteq died_busy'
    BY <1>4
  <1>12. WorkLive'
    <2>1. WorkLive
      BY DEF WorkInv
    <2>2. ASSUME NEW g \in Fg, rpc_req_q'[g] # <<>> \/ rpc_resp_q'[g] # <<>>
                               \/ in_flight'[g] # <<>>
          PROVE  rpc_pc'[g] = "live"
      <3>1. g # f
        BY <1>1, <1>2, <1>4, <2>2
      <3>2. /\ rpc_req_q'[g] = rpc_req_q[g] /\ rpc_resp_q'[g] = rpc_resp_q[g]
            /\ in_flight'[g] = in_flight[g] /\ rpc_pc'[g] = rpc_pc[g]
        BY <1>2, <1>4, <3>1
      <3> QED
        BY <2>1, <2>2, <3>2 DEF WorkLive
    <2>3. ASSUME NEW g \in Fg
          PROVE  rpc_pc'[g] = "live" \/ g \in died_busy' \/ (InReq(g)' = 0 /\ InCur(g)' = 0)
      <3>1. CASE g = f
        BY <1>4, <1>9, <1>10, <3>1
      <3>2. CASE g # f
        <4>1. rpc_pc'[g] = rpc_pc[g]
          BY <1>2, <1>4, <3>2
        <4> QED
          BY <1>9, <1>11, <2>1, <4>1 DEF WorkLive
      <3> QED
        BY <3>1, <3>2
    <2>4. nx_pc # "join"
      BY <1>4, <2>1 DEF WorkLive
    <2> QED
      BY <1>4, <2>2, <2>3, <2>4 DEF WorkLive
  <1>13. ASSUME NEW g \in Fg
         PROVE  Balanced(g)'
    <2>1. /\ work_lost[g] \in Nat /\ work_open[g] \in Int
          /\ Len(rpc_req_q[g]) \in Nat /\ Len(rpc_resp_q[g]) \in Nat /\ Len(in_flight[g]) \in Nat
          /\ InReq(g) \in Nat /\ InCur(g) \in Nat
          /\ work_lost[g] > 0 => g \in died_busy'
      BY <1>11, WorkCounts
    <2>2. CASE g = f
      <3>1. /\ Len(rpc_req_q'[g]) = Len(rpc_req_q[g]) + (-np)
            /\ Len(rpc_resp_q'[g]) = Len(rpc_resp_q[g]) + (-nq)
            /\ Len(in_flight'[g]) = Len(in_flight[g]) + (-nf)
            /\ work_lost'[g] = work_lost[g] + (np + nq + nf)
        BY <1>2, <1>3, <1>4, <1>5, <2>2
      <3>0. PICK mp \in Int, mq \in Int, mf \in Int, d \in Int :
               mp = -np /\ mq = -nq /\ mf = -nf /\ d = np + nq + nf
        OBVIOUS
      <3>5. /\ InReq(g)' = InReq(g) + 0 /\ InCur(g)' = InCur(g) + 0
            /\ work_open'[g] = work_open[g] + 0
        BY <1>4, <1>9, <2>1
      <3>2. Moved(g, 0, 0, 0, mp, mq, mf, d)
        BY ONLY <3>0, <3>1, <3>5 DEF Moved
      <3>3. Evens(0, 0, 0, mp, mq, mf, d)
        BY <3>0 DEF Evens
      <3>4. work_lost'[g] > 0 => g \in died_busy'
        BY <1>4, <1>10, <2>1, <2>2, <3>1
      <3> QED
        BY <3>2, <3>3, <3>4, MovedBalance
    <2>3. CASE g # f
      <3>1. Moved(g, 0, 0, 0, 0, 0, 0, 0) /\ work_lost'[g] = work_lost[g]
        BY <1>2, <1>4, <1>9, <2>1, <2>3 DEF Moved
      <3>9. Evens(0, 0, 0, 0, 0, 0, 0)
        BY DEF Evens
      <3> QED
        BY <2>1, <3>1, <3>9, MovedBalance
    <2> QED
      BY <2>2, <2>3
  <1> QED
    BY <1>7, <1>8, <1>12, <1>13, WorkAdds

\* When the Nexus goes, every Rpc is gone and every background thread has left:
\* only the items in their queues are lost, and they are those of Rpcs that were
\* destroyed with work unfinished.
LEMMA WorkReset ==
  ASSUME WorkInv, nexus_reset
  PROVE  WorkInv'
  <1>1. /\ \A f \in Fg : rpc_pc[f] = "gone"
        /\ \A b \in Bg : bg_pc[b] = "exited"
    BY NexusAssumption DEF nexus_reset, WorkInv, WorkLive, Bg
  <1>2. \A f \in Fg : rpc_req_q[f] = <<>> /\ rpc_resp_q[f] = <<>> /\ in_flight[f] = <<>>
    BY <1>1 DEF WorkInv, WorkLive
  <1>3. \A b \in Bg : bg_cur[b] = <<>>
    <2>1. \A b \in Bg : bg_cur[b] \in Seq(WorkItem) /\ Len(bg_cur[b]) = 0
      BY <1>1 DEF WorkInv, WorkTypes
    <2> QED
      BY <2>1
  <1>4. /\ \A b \in Bg : bg_req_queue'[b] = <<>> /\ bg_cur'[b] = <<>>
        /\ work_lost' = [f \in Fg |-> work_lost[f] + InReq(f)]
        /\ UNCHANGED <<bg_cur, rpc_req_q, rpc_resp_q, in_flight, work_open, died_busy, cont_moved>>
    BY <1>3 DEF nexus_reset, NexusStart, InReq, rpcqs
  <1>5. \A f \in Fg : /\ InReq(f)' = 0 /\ InCur(f)' = 0
                      /\ IsFiniteSet(ItemsOf(bg_req_queue', f)) /\ IsFiniteSet(ItemsOf(bg_cur', f))
    BY <1>4, NoItems DEF InReq, InCur
  <1>6. \A f \in Fg : InReq(f) \in Nat /\ work_lost[f] \in Nat
    BY WorkCounts
  <1>7. WorkTypes'
    <2>1. work_lost' \in [Fg -> Nat]
      BY <1>4, <1>6
    <2>2. /\ bg_req_queue' \in [Bg -> Seq(WorkItem)] /\ nx_i' \in Nat
          /\ rpc_pc' \in [Fg -> {"none", "checked", "live", "closing", "gone"}]
          /\ bg_pc' \in [Bg -> {"off", "start", "loop", "drain", "run", "exited"}]
          /\ \A b \in Bg : bg_pc'[b] # "run"
      BY DEF nexus_reset, NexusStart
    <2>3. \A b \in Bg : Len(bg_cur'[b]) = 0
      BY <1>4
    <2> QED
      BY <1>4, <2>1, <2>2, <2>3 DEF WorkInv, WorkTypes
  <1>8. WorkGood'
    BY <1>4 DEF WorkGood
  <1>9. WorkLive'
    BY <1>2, <1>4, <1>5 DEF WorkLive, nexus_reset
  <1>10. WorkFinite' /\ ~cont_moved'
    BY <1>4, <1>5 DEF WorkFinite, WorkInv, WorkConserved
  <1>11. ASSUME NEW g \in Fg
         PROVE  Balanced(g)'
    <2>1. PICK na \in Nat : na = InReq(g)
      BY <1>6
    <2>2. InCur(g) = 0
      BY <1>3, NoItems DEF InCur
    <2>3. /\ Len(rpc_req_q[g]) \in Nat /\ Len(rpc_resp_q[g]) \in Nat /\ Len(in_flight[g]) \in Nat
          /\ work_lost[g] \in Nat /\ work_open[g] \in Int
          /\ work_lost[g] > 0 => g \in died_busy
      BY WorkCounts
    <2>4. Moved(g, 0, -na, 0, 0, 0, 0, na)
      BY <1>4, <1>5, <2>1, <2>2, <2>3 DEF Moved
    <2>5. Evens(0, -na, 0, 0, 0, 0, na)
      BY <2>1 DEF Evens
    <2>6. g \in died_busy \/ na = 0
      BY <1>1, <2>1 DEF WorkInv, WorkLive
    <2>7. work_lost'[g] > 0 => g \in died_busy'
      BY <1>4, <2>1, <2>3, <2>6
    <2> QED
      BY <2>4, <2>5, <2>7, MovedBalance
  <1> QED
    BY <1>7, <1>8, <1>9, <1>10, <1>11, WorkAdds

\* Every step preserves WorkInv.
LEMMA WorkStep == WorkInv /\ IdInv /\ [NexusNext]_nxvars => WorkInv'
  <1> SUFFICES ASSUME WorkInv, IdInv, [NexusNext]_nxvars
               PROVE  WorkInv'
    OBVIOUS
  <1>0. /\ rpc_pc \in [Fg -> {"none", "checked", "live", "closing", "gone"}] /\ nx_i \in Nat
        /\ bg_pc \in [Bg -> {"off", "start", "loop", "drain", "run", "exited"}]
        /\ nx_pc = "join" => /\ \A f \in Fg : rpc_pc[f] = "gone"
                             /\ \A b \in Bg : b < nx_i => bg_pc[b] = "exited"
    BY DEF WorkInv, WorkTypes, WorkLive
  <1>1. CASE /\ UNCHANGED <<bg_pc, bg_req_queue, bg_cur, work, rpc_pc>> /\ nx_i' \in Nat
             /\ nx_pc' = "join" => /\ \A f \in Fg : rpc_pc[f] = "gone"
                                   /\ \A b \in Bg : b < nx_i' => bg_pc[b] = "exited"
    BY <1>0, <1>1, WorkUntouched
  <1>2. CASE nexus_launch
    <2>1. \A b \in Bg : b >= nx_i => bg_pc[b] = "off"
      BY <1>2 DEF nexus_launch, IdInv, Launching
    <2>2. nx_i \in Bg
      BY <1>2, NexusAssumption DEF nexus_launch, IdInv, IdTypes, Bg
    <2>3. bg_pc[nx_i] = "off"
      BY <2>1, <2>2 DEF Bg
    <2>4. \A b \in Bg : bg_pc'[b] = "run" <=> bg_pc[b] = "run"
      BY <1>0, <1>2, <2>2, <2>3 DEF nexus_launch
    <2> QED
      BY <1>0, <1>2, <2>4, WorkUntouched DEF nexus_launch, hookvars
  <1>3. ASSUME NEW b \in Bg, bg_start(b) \/ bg_drained(b) \/ bg_exit(b)
        PROVE  WorkInv'
    <2>1. /\ UNCHANGED <<nx_pc, nx_i, rpc_pc, bg_req_queue, bg_cur, work>>
          /\ bg_pc[b] \notin {"run", "exited"}
          /\ \E p \in {"loop", "exited"} : bg_pc' = [bg_pc EXCEPT ![b] = p]
      BY <1>3 DEF bg_start, bg_drained, bg_exit, main, hookvars
    <2>2. /\ bg_pc' \in [Bg -> {"off", "start", "loop", "drain", "run", "exited"}]
          /\ \A c \in Bg : bg_pc'[c] = "run" <=> bg_pc[c] = "run"
          /\ \A c \in Bg : bg_pc[c] = "exited" => bg_pc'[c] = "exited"
      BY <1>0, <2>1
    <2> QED
      BY <1>0, <2>1, <2>2, WorkUntouched
  <1>4. ASSUME NEW f \in Fg, rpc_ctor(f) \/ register_hook(f) \/ unregister_hook(f)
        PROVE  WorkInv'
    <2>1. /\ UNCHANGED <<nx_pc, nx_i, bg_pc, bg_req_queue, bg_cur, work>>
          /\ rpc_pc[f] \notin {"live", "gone"}
          /\ \E p \in {"checked", "live", "gone"} : rpc_pc' = [rpc_pc EXCEPT ![f] = p]
      BY <1>4 DEF rpc_ctor, register_hook, unregister_hook, main, bg
    <2>2. nx_pc # "join"
      BY <1>0, <2>1
    <2> QED
      BY <1>0, <2>1, <2>2, WorkUntouched
  <1>5. CASE nexus_join
    <2>1. /\ UNCHANGED <<nx_pc, bg_pc, bg_req_queue, bg_cur, work, rpc_pc>> /\ nx_i' = nx_i + 1
          /\ nx_pc = "join" /\ bg_pc[nx_i] = "exited"
      BY <1>5 DEF nexus_join, bg, hookvars
    <2>2. \A b \in Bg : b < nx_i + 1 => b < nx_i \/ b = nx_i
      BY <1>0, NexusAssumption DEF Bg
    <2> QED
      BY <1>0, <1>1, <2>1, <2>2
  <1>6. CASE nexus_dtor
    <2>1. /\ UNCHANGED <<bg_pc, bg_req_queue, bg_cur, work, rpc_pc>> /\ nx_i' = 0
          /\ \A f \in Fg : rpc_pc[f] = "gone"
      BY <1>6 DEF nexus_dtor, bg, hookvars
    <2>2. \A b \in Bg : ~(b < 0)
      BY NexusAssumption DEF Bg
    <2> QED
      BY <1>1, <2>1, <2>2
  <1>7. ASSUME NexusNext
        PROVE  WorkInv'
    <2>1. CASE nexus_wait \/ nexus_launch_sm
      BY <2>1, <1>0, <1>1 DEF nexus_wait, nexus_launch_sm, bg, hookvars
    <2>2. CASE sm_push \/ sm_exit
      BY <2>2, <1>0, <1>1 DEF sm_push, sm_exit, main, bg, hookvars
    <2>3. ASSUME NEW h \in Handlers, register_req_func(h)
          PROVE  WorkInv'
      BY <2>3, <1>0, <1>1 DEF register_req_func, main, bg, hookvars
    <2>4. ASSUME NEW r \in RpcIds, sm_lookup(r)
          PROVE  WorkInv'
      BY <2>4, <1>0, <1>1 DEF sm_lookup, main, bg, hookvars
    <2>5. ASSUME NEW b \in Bg, BgThread(b) \/ bg_enqueue_request(b)
          PROVE  WorkInv'
      BY <2>5, <1>3, WorkPop, WorkEnqueueRequest, WorkEnqueueResponse, WorkRunStale, WorkRunCont
      DEF BgThread, IdInv
    <2>6. ASSUME NEW f \in Fg, EventLoop(f)
          PROVE  WorkInv'
      BY <2>6, WorkTakeRequests, WorkTakeResponses, WorkSubmitResp DEF EventLoop
    <2> QED
      BY <1>7, <1>2, <1>4, <1>5, <1>6, <2>1, <2>2, <2>3, <2>4, <2>5, <2>6, WorkReset, WorkDtor,
         WorkSubmitReq
      DEF NexusNext, MainThread, SmThread
  <1>8. CASE UNCHANGED nxvars
    BY <1>8, <1>0, <1>1 DEF nxvars, work, rpcqs, lost
  <1> QED
    BY <1>7, <1>8

\* Work given to background threads is in exactly one place until it is finished,
\* in any number of threads and of Nexus objects after one another; only the work
\* of an Rpc that was destroyed with work unfinished is ever lost, and a
\* continuation runs on the thread that asked for it (nexus_bg_thread.cc:19-38,
\* rpc_queues.cc:55-79, rpc.cc:101-119).
THEOREM WorkHolds == NexusSpec => []WorkConserved
  <1>1. NexusInit => IdInv /\ WorkInv
    BY IdInit, WorkInit
  <1>2. (IdInv /\ WorkInv) /\ [NexusNext]_nxvars => (IdInv /\ WorkInv)'
    BY IdStep, WorkStep
  <1>3. IdInv /\ WorkInv => WorkConserved
    BY DEF WorkInv
  <1> QED
    BY <1>1, <1>2, <1>3, PTL DEF NexusSpec
-----------------------------------------------------------------------------
(* Allocators *)

\* How far the cursor of a region may come before a buffer at its end is lost.
FullTurn == PER_THREAD_ALLOC_SIZE - (kMaxAlloc - 1)

\* Where buffer b of a region that starts at s is, with its cursor at c: the
\* cursor has gone on from its end, or has started over once, near the end of
\* the region, and has not come to b yet.
BufferAt(s, c, b) ==
    /\ b.addr \in Nat /\ b.size \in 1 .. kMaxAlloc /\ b.bytes \in Nat
    /\ s <= b.addr /\ b.addr + b.size <= s + PER_THREAD_ALLOC_SIZE
    /\ b.size <= b.bytes /\ b.bytes <= FullTurn
    /\ \/ b.addr + b.bytes = s + c
       \/ /\ b.addr + b.bytes - c >= s + FullTurn
          /\ b.addr + b.bytes - c <= s + PER_THREAD_ALLOC_SIZE
          /\ s + c <= b.addr

AllocInv ==
    /\ AllocTypeOK
    /\ \A t \in AllocThreads : \A b \in handed[t] :
         BufferAt(GetThreadLocalRegion(t).start, cur_offset[t], b)
    /\ \A t \in AllocThreads : \A b, d \in handed[t] :
         b # d => b.addr + b.size <= d.addr \/ d.addr + d.size <= b.addr

LEMMA RegionBounds ==
    ASSUME NEW t \in AllocThreads
    PROVE  /\ GetThreadLocalRegion(t).start \in Nat
           /\ GetThreadLocalRegion(t).end = GetThreadLocalRegion(t).start + PER_THREAD_ALLOC_SIZE
           /\ GetThreadLocalRegion(t).start + PER_THREAD_ALLOC_SIZE
                <= thread_num * PER_THREAD_ALLOC_SIZE
           /\ \A u \in AllocThreads : t < u =>
                GetThreadLocalRegion(t).start + PER_THREAD_ALLOC_SIZE
                  <= GetThreadLocalRegion(u).start
<1>1. PICK p \in Nat : p = PER_THREAD_ALLOC_SIZE
  BY AllocatorAssumption
<1>2. PICK n \in Nat : n = thread_num
  BY AllocatorAssumption
<1>3. t \in Nat /\ t + 1 <= n
  BY <1>2 DEF AllocThreads
<1>4. (t + 1) * p = t * p + p /\ t * p \in Nat
  BY ONLY <1>3, p \in Nat
<1>5. ASSUME NEW u \in Nat, t + 1 <= u PROVE (t + 1) * p <= u * p
  BY ONLY <1>3, <1>5, p \in Nat, u \in Nat
<1>6. GetThreadLocalRegion(t).start = t * p /\ GetThreadLocalRegion(t).end = (t + 1) * p
  BY <1>1 DEF GetThreadLocalRegion
<1>7. ASSUME NEW u \in AllocThreads, t < u
      PROVE  t * p + p <= GetThreadLocalRegion(u).start
  <2>1. u \in Nat /\ t + 1 <= u
    BY <1>2, <1>3, <1>7 DEF AllocThreads
  <2>2. GetThreadLocalRegion(u).start = u * p
    BY <1>1 DEF GetThreadLocalRegion
  <2> QED BY <1>4, <1>5, <2>1, <2>2
<1>8. t * p + p <= n * p
  BY <1>2, <1>3, <1>4, <1>5
<1> QED BY <1>1, <1>2, <1>4, <1>6, <1>7, <1>8

Buffer == [addr : Nat, size : 1 .. kMaxAlloc, bytes : Nat]

\* A buffer that stays in the history keeps its place, apart from the new one.
LEMMA BufferStays ==
    ASSUME NEW s \in Nat, NEW c \in 0 .. PER_THREAD_ALLOC_SIZE, NEW z \in 1 .. kMaxAlloc,
           NEW b \in Buffer, BufferAt(s, c, b), b.bytes + z <= FullTurn,
           NEW off \in Nat, off = IF c + z > PER_THREAD_ALLOC_SIZE THEN 0 ELSE c
    PROVE  /\ BufferAt(s, off + z, [b EXCEPT !.bytes = @ + z])
           /\ b.addr + b.size <= s + off \/ s + off + z <= b.addr
<1>1. PICK d \in Buffer : d = [b EXCEPT !.bytes = @ + z]
  <2>1. b.bytes + z \in Nat
    BY DEF Buffer
  <2> QED BY <2>1 DEF Buffer
<1>2. d.addr = b.addr /\ d.size = b.size /\ d.bytes = b.bytes + z
  BY <1>1 DEF Buffer
<1>3. PICK p \in Nat : p = PER_THREAD_ALLOC_SIZE
  BY AllocatorAssumption
<1>4. PICK k \in Nat \ {0} : k = kMaxAlloc
  BY AllocatorAssumption
<1>5. PICK a \in Nat : a = b.addr
  BY DEF Buffer
<1>6. PICK n \in Nat : n = b.bytes
  BY DEF Buffer
<1>7. PICK x \in Nat : x = b.size
  BY DEF Buffer
<1>8. /\ c \in Nat /\ c <= p /\ z \in Nat /\ 1 <= z /\ z <= k
      /\ FullTurn = p - (k - 1)
  BY <1>3, <1>4 DEF FullTurn
<1>9. /\ s <= a /\ a + x <= s + p /\ x <= n /\ n + z <= p - (k - 1) /\ 1 <= x
      /\ \/ a + n = s + c
         \/ a + n - c >= s + (p - (k - 1)) /\ a + n - c <= s + p /\ s + c <= a
  BY <1>3, <1>4, <1>5, <1>6, <1>7, <1>8 DEF BufferAt
<1>10. off = IF c + z > p THEN 0 ELSE c
  BY <1>3
<1>11. \/ a + (n + z) = s + (off + z)
       \/ /\ a + (n + z) - (off + z) >= s + (p - (k - 1))
          /\ a + (n + z) - (off + z) <= s + p
          /\ s + (off + z) <= a
  <2>1. CASE a + n = s + c
    BY ONLY <2>1, <1>8, <1>9, <1>10, s \in Nat, p \in Nat, k \in Nat \ {0}, a \in Nat,
            n \in Nat, x \in Nat, off \in Nat
  <2>2. CASE a + n - c >= s + (p - (k - 1)) /\ a + n - c <= s + p /\ s + c <= a
    BY ONLY <2>2, <1>8, <1>9, <1>10, s \in Nat, p \in Nat, k \in Nat \ {0}, a \in Nat,
            n \in Nat, x \in Nat, off \in Nat
  <2> QED BY <1>9, <2>1, <2>2
<1>12. a + x <= s + off \/ s + off + z <= a
  <2>1. CASE a + n = s + c
    BY ONLY <2>1, <1>8, <1>9, <1>10, s \in Nat, p \in Nat, k \in Nat \ {0}, a \in Nat,
            n \in Nat, x \in Nat, off \in Nat
  <2>2. CASE a + n - c >= s + (p - (k - 1)) /\ a + n - c <= s + p /\ s + c <= a
    BY ONLY <2>2, <1>8, <1>9, <1>10, s \in Nat, p \in Nat, k \in Nat \ {0}, a \in Nat,
            n \in Nat, x \in Nat, off \in Nat
  <2> QED BY <1>9, <2>1, <2>2
<1>13. BufferAt(s, off + z, d)
  <2>1. d.addr = a /\ d.size = x /\ d.bytes = n + z
    BY <1>2, <1>5, <1>6, <1>7
  <2>2. d.addr \in Nat /\ d.size \in 1 .. kMaxAlloc /\ d.bytes \in Nat
    BY DEF Buffer
  <2>3. s <= a /\ a + x <= s + p /\ x <= n + z /\ n + z <= FullTurn
    BY <1>8, <1>9
  <2>4. \/ d.addr + d.bytes = s + (off + z)
        \/ /\ d.addr + d.bytes - (off + z) >= s + FullTurn
           /\ d.addr + d.bytes - (off + z) <= s + PER_THREAD_ALLOC_SIZE
           /\ s + (off + z) <= d.addr
    BY <1>3, <1>8, <1>11, <2>1
  <2> QED BY <1>3, <2>1, <2>2, <2>3, <2>4 DEF BufferAt
<1> QED BY <1>1, <1>5, <1>7, <1>12, <1>13

LEMMA AllocKeepsInv ==
    ASSUME AllocInv, NEW t \in AllocThreads, NEW size \in 1 .. kMaxAlloc, Alloc(t, size)
    PROVE  AllocInv'
<1> DEFINE off == AllocOffset(t, size)
           s == GetThreadLocalRegion(t).start
           buf == [addr |-> s + off, size |-> size, bytes |-> size]
           older == {[b EXCEPT !.bytes = @ + size] : b \in handed[t]}
<1>1. /\ cur_offset \in [AllocThreads -> 0 .. PER_THREAD_ALLOC_SIZE]
      /\ handed \in [AllocThreads -> SUBSET Buffer]
      /\ PER_THREAD_ALLOC_SIZE \in Nat /\ kMaxAlloc \in Nat \ {0}
      /\ kMaxAlloc <= PER_THREAD_ALLOC_SIZE
  BY AllocatorAssumption DEF AllocInv, AllocTypeOK, Buffer
<1>2. cur_offset' = [cur_offset EXCEPT ![t] = off + size]
      /\ handed' = [handed EXCEPT ![t] = Recent(older \cup {buf})]
  BY DEF Alloc
<1>3. s \in Nat /\ GetThreadLocalRegion(t).end = s + PER_THREAD_ALLOC_SIZE
  BY RegionBounds
<1>4. PICK c \in 0 .. PER_THREAD_ALLOC_SIZE : c = cur_offset[t]
  BY <1>1
<1>5. off = IF c + size > PER_THREAD_ALLOC_SIZE THEN 0 ELSE c
  <2>1. off = IF s + c + size > s + PER_THREAD_ALLOC_SIZE THEN 0 ELSE c
    BY <1>3, <1>4 DEF AllocOffset
  <2> HIDE DEF off, s
  <2>2. s + c + size > s + PER_THREAD_ALLOC_SIZE <=> c + size > PER_THREAD_ALLOC_SIZE
    BY <1>1, <1>3
  <2> QED BY <2>1, <2>2
<1> HIDE DEF off, s
<1>6. off \in Nat /\ off + size \in 0 .. PER_THREAD_ALLOC_SIZE
  BY <1>1, <1>5
<1>7. buf \in Buffer /\ buf.addr = s + off /\ buf.size = size /\ buf.bytes = size
  BY <1>1, <1>3, <1>6 DEF Buffer
<1>8. size <= FullTurn => BufferAt(s, off + size, buf)
  <2>1. HAVE size <= FullTurn
  <2>2. s <= s + off /\ s + off + size <= s + PER_THREAD_ALLOC_SIZE
        /\ s + off + size = s + (off + size)
    BY <1>1, <1>3, <1>6
  <2>3. buf.addr \in Nat /\ buf.size \in 1 .. kMaxAlloc /\ buf.bytes \in Nat /\ size <= size
    BY <1>7 DEF Buffer
  <2> QED BY <1>7, <2>1, <2>2, <2>3 DEF BufferAt
<1> HIDE DEF buf
<1>9. ASSUME NEW b \in handed[t]
      PROVE  b \in Buffer /\ BufferAt(s, c, b)
  BY <1>1, <1>4 DEF AllocInv, s
<1>10. ASSUME NEW e \in older, e.bytes <= FullTurn
       PROVE  /\ e \in Buffer /\ BufferAt(s, off + size, e)
              /\ \E b \in handed[t] :
                   e = [b EXCEPT !.bytes = @ + size] /\ e.addr = b.addr /\ e.size = b.size
              /\ e.addr + e.size <= buf.addr \/ buf.addr + buf.size <= e.addr
  <2>1. PICK b \in handed[t] : e = [b EXCEPT !.bytes = @ + size]
    OBVIOUS
  <2>2. b \in Buffer /\ BufferAt(s, c, b)
    BY <1>9
  <2>3. e.addr = b.addr /\ e.size = b.size /\ e.bytes = b.bytes + size
    BY <2>1, <2>2 DEF Buffer
  <2>4. b.bytes \in Nat
    BY <2>2 DEF Buffer
  <2>5. b.bytes + size <= FullTurn /\ b.bytes + size \in Nat
    BY <1>10, <2>3, <2>4
  <2>6. e \in Buffer
    BY <2>1, <2>2, <2>5 DEF Buffer
  <2>7. /\ BufferAt(s, off + size, e)
        /\ b.addr + b.size <= s + off \/ s + off + size <= b.addr
    BY <1>3, <1>5, <1>6, <2>1, <2>2, <2>5, BufferStays
  <2> QED BY <1>7, <2>1, <2>3, <2>6, <2>7
<1>11. handed'[t] = Recent(older \cup {buf}) /\ cur_offset'[t] = off + size
  BY <1>1, <1>2
<1>12. ASSUME NEW e \in handed'[t]
       PROVE  e.bytes <= FullTurn /\ (e \in older \/ e = buf)
  BY <1>11 DEF Recent, FullTurn
<1>13. ASSUME NEW e \in handed'[t]
       PROVE  e \in Buffer /\ BufferAt(s, off + size, e)
  BY <1>7, <1>8, <1>10, <1>12
<1>14. \A u \in AllocThreads : u # t => handed'[u] = handed[u] /\ cur_offset'[u] = cur_offset[u]
  BY <1>1, <1>2
<1>15. AllocTypeOK'
  <2>1. handed'[t] \in SUBSET Buffer
    BY <1>13
  <2>2. handed' \in [AllocThreads -> SUBSET Buffer]
    BY <1>1, <1>2, <1>11, <2>1
  <2>3. cur_offset' \in [AllocThreads -> 0 .. PER_THREAD_ALLOC_SIZE]
    BY <1>1, <1>2, <1>6
  <2> QED BY <2>2, <2>3 DEF AllocTypeOK, Buffer
<1>16. ASSUME NEW u \in AllocThreads, NEW b \in handed'[u]
       PROVE  BufferAt(GetThreadLocalRegion(u).start, cur_offset'[u], b)
  <2>1. CASE u = t
    BY <1>11, <1>13, <2>1 DEF s
  <2>2. CASE u # t
    BY <1>14, <2>2 DEF AllocInv
  <2> QED BY <2>1, <2>2
<1>17. ASSUME NEW u \in AllocThreads, NEW b \in handed'[u], NEW d \in handed'[u], b # d
       PROVE  b.addr + b.size <= d.addr \/ d.addr + d.size <= b.addr
  <2>1. CASE u # t
    BY <1>14, <1>17, <2>1 DEF AllocInv
  <2>2. CASE u = t /\ b \in older /\ d \in older
    <3>1. PICK x \in handed[t] :
            b = [x EXCEPT !.bytes = @ + size] /\ b.addr = x.addr /\ b.size = x.size
      BY <1>10, <1>12, <2>2
    <3>2. PICK y \in handed[t] :
            d = [y EXCEPT !.bytes = @ + size] /\ d.addr = y.addr /\ d.size = y.size
      BY <1>10, <1>12, <2>2
    <3>3. x # y
      BY <1>17, <3>1, <3>2
    <3> QED BY <3>1, <3>2, <3>3 DEF AllocInv
  <2>3. CASE u = t /\ (b = buf \/ d = buf)
    BY <1>10, <1>12, <1>17, <2>3
  <2> QED BY <1>12, <2>1, <2>2, <2>3
<1> QED BY <1>15, <1>16, <1>17 DEF AllocInv, GetThreadLocalRegion

LEMMA AllocInvReuse == AllocInv => ReuseDistance
<1> SUFFICES ASSUME AllocInv PROVE ReuseDistance
  OBVIOUS
<1>1. PER_THREAD_ALLOC_SIZE \in Nat /\ thread_num * PER_THREAD_ALLOC_SIZE \in Nat
  BY AllocatorAssumption
<1>2. ASSUME NEW t \in AllocThreads, NEW b \in handed[t]
      PROVE  /\ b.addr \in Nat /\ b.size \in Nat
             /\ GetThreadLocalRegion(t).start \in Nat
             /\ GetThreadLocalRegion(t).start <= b.addr
             /\ b.addr + b.size <= GetThreadLocalRegion(t).start + PER_THREAD_ALLOC_SIZE
  BY AllocatorAssumption, RegionBounds DEF AllocInv, BufferAt
<1>3. ASSUME NEW t \in AllocThreads, NEW b \in handed[t], NEW d \in handed[t], b # d
      PROVE  BufBytes(b) \cap BufBytes(d) = {}
  <2>1. b.addr + b.size <= d.addr \/ d.addr + d.size <= b.addr
    BY <1>3 DEF AllocInv
  <2> QED BY <1>2, <2>1 DEF BufBytes
<1>4. ASSUME NEW t \in AllocThreads, NEW b \in handed[t]
      PROVE  BufBytes(b) \subseteq 0 .. thread_num * PER_THREAD_ALLOC_SIZE - 1
  <2>1. b.addr + b.size <= thread_num * PER_THREAD_ALLOC_SIZE
    <3>1. GetThreadLocalRegion(t).start + PER_THREAD_ALLOC_SIZE
            <= thread_num * PER_THREAD_ALLOC_SIZE
      BY RegionBounds
    <3> QED BY <1>1, <1>2, <3>1
  <2> QED BY <1>1, <1>2, <2>1 DEF BufBytes
<1>5. ASSUME NEW t \in AllocThreads, NEW u \in AllocThreads, t < u,
             NEW b \in handed[t], NEW d \in handed[u]
      PROVE  BufBytes(b) \cap BufBytes(d) = {}
  <2>1. GetThreadLocalRegion(t).start + PER_THREAD_ALLOC_SIZE <= GetThreadLocalRegion(u).start
    BY <1>5, RegionBounds
  <2>2. b.addr + b.size <= d.addr
    BY <1>1, <1>2, <2>1
  <2> QED BY <1>2, <2>2 DEF BufBytes
<1>6. ASSUME NEW t \in AllocThreads, NEW u \in AllocThreads \ {t},
             NEW b \in handed[t], NEW d \in handed[u]
      PROVE  BufBytes(b) \cap BufBytes(d) = {}
  <2>1. t < u \/ u < t
    BY AllocatorAssumption DEF AllocThreads
  <2>2. CASE t < u
    BY <1>5, <2>2
  <2>3. CASE u < t
    BY <1>5, <2>3
  <2> QED BY <2>1, <2>2, <2>3
<1> QED BY <1>3, <1>4, <1>6 DEF ReuseDistance, ThreadsApart

\* RDMABufferAllocator hands out memory again only after a full turn, less the
\* gap that the largest buffer may leave, and the threads' regions stay apart
\* (buffer_allocator.h:16-27, region_allocator.h:38-41).
THEOREM ReuseHolds == AllocSpec => []ReuseDistance
<1>1. AllocInit => AllocInv
  BY AllocatorAssumption DEF AllocInit, AllocInv, AllocTypeOK
<1>2. AllocInv /\ [AllocNext]_allocvars => AllocInv'
  <2> SUFFICES ASSUME AllocInv, [AllocNext]_allocvars PROVE AllocInv'
    OBVIOUS
  <2>1. CASE UNCHANGED allocvars
    BY <2>1 DEF allocvars, AllocInv, AllocTypeOK
  <2> QED BY <2>1, AllocKeepsInv DEF AllocNext
<1> QED BY <1>1, <1>2, AllocInvReuse, PTL DEF AllocSpec

-----------------------------------------------------------------------------
(* Coroutines: the ring *)

\* w lists a ring of the n coroutines M with the links nx and pv and the tail tl.
Cycle(n, w, nx, pv, tl, M) ==
    /\ n \in Nat \ {0} /\ w \in [1 .. n -> Coros]
    /\ nx \in [Coros -> Coros] /\ pv \in [Coros -> Coros]
    /\ w[1] = 0 /\ w[n] = tl /\ nx[tl] = 0
    /\ \A i, j \in 1 .. n : w[i] = w[j] => i = j
    /\ \A i \in 2 .. n : nx[w[i - 1]] = w[i] /\ pv[w[i]] = w[i - 1]
    /\ \A c \in Coros : c \in M <=> \E i \in 1 .. n : w[i] = c

LEMMA CycleNext ==
  ASSUME NEW n, NEW w, NEW nx, NEW pv, NEW tl, NEW M, Cycle(n, w, nx, pv, tl, M),
         NEW c \in Coros, c \in M
  PROVE  nx[c] \in Coros /\ nx[c] \in M
  <1>1. PICK k \in 1 .. n : w[k] = c
    BY DEF Cycle
  <1>2. CASE k = n
    BY <1>1, <1>2 DEF Cycle
  <1>3. CASE k < n
    <2>1. k + 1 \in 2 .. n /\ k + 1 \in 1 .. n /\ (k + 1) - 1 = k
      BY <1>3 DEF Cycle
    <2>2. nx[c] = w[k + 1]
      BY <1>1, <2>1 DEF Cycle
    <2> QED
      BY <2>1, <2>2 DEF Cycle
  <1> QED
    BY <1>2, <1>3 DEF Cycle

\* A member that leaves, and one that comes behind the tail.
Unlinked(nx1, pv1, tl1, nx, pv, tl, c) ==
    /\ nx1 = [nx EXCEPT ![pv[c]] = nx[c]] /\ pv1 = [pv EXCEPT ![nx[c]] = pv[c]]
    /\ tl1 = IF tl = c THEN pv[c] ELSE tl
Linked(nx1, pv1, nx, pv, tl, c) ==
    nx1 = [nx EXCEPT ![tl] = c, ![c] = 0] /\ pv1 = [pv EXCEPT ![c] = tl]

LEMMA CycleRemove ==
  ASSUME NEW n, NEW w, NEW nx, NEW pv, NEW tl, NEW M, Cycle(n, w, nx, pv, tl, M),
         NEW c \in Coros \ {0}, c \in M, NEW nx1, NEW pv1, NEW tl1,
         Unlinked(nx1, pv1, tl1, nx, pv, tl, c)
  PROVE  /\ \E m, v : Cycle(m, v, nx1, pv1, tl1, M \ {c})
         /\ nx[c] \in Coros \ {c} /\ nx[c] \in M /\ pv[c] \in Coros /\ tl1 \in Coros
  <1>1. /\ n \in Nat \ {0} /\ w \in [1 .. n -> Coros]
        /\ nx \in [Coros -> Coros] /\ pv \in [Coros -> Coros]
        /\ w[1] = 0 /\ w[n] = tl /\ nx[tl] = 0
    BY DEF Cycle
  <1>2. \A i, j \in 1 .. n : w[i] = w[j] => i = j
    BY DEF Cycle
  <1>3. \A i \in 2 .. n : nx[w[i - 1]] = w[i] /\ pv[w[i]] = w[i - 1]
    BY DEF Cycle
  <1>4. PICK k \in 2 .. n : w[k] = c
    <2>1. PICK k \in 1 .. n : w[k] = c
      BY DEF Cycle
    <2>2. k # 1
      BY <1>1, <2>1
    <2> QED
      BY <1>1, <2>1, <2>2
  <1>5. k - 1 \in 1 .. n /\ pv[c] = w[k - 1] /\ w[k - 1] \in Coros
    BY <1>1, <1>3, <1>4
  <1>6. IF k < n THEN k + 1 \in 2 .. n /\ nx[c] = w[k + 1] ELSE k = n /\ c = tl /\ nx[c] = 0
    <2>1. CASE k < n
      <3>1. k + 1 \in 2 .. n /\ (k + 1) - 1 = k
        BY <1>1, <1>4, <2>1
      <3> QED
        BY <1>3, <1>4, <2>1, <3>1
    <2>2. CASE k = n
      BY <1>1, <1>4, <2>2
    <2> QED
      BY <1>1, <1>4, <2>1, <2>2
  <1>7. nx[c] \in Coros /\ nx[c] \in M
    BY CycleNext
  <1>8. nx[c] # c
    <2>1. CASE k < n
      BY <1>1, <1>2, <1>4, <1>6, <2>1
    <2>2. CASE k = n
      BY <1>6, <2>2
    <2> QED
      BY <1>1, <1>4, <2>1, <2>2
  <1> DEFINE m == n - 1
             v == [i \in 1 .. m |-> w[Skip(k, i)]]
  <1>9. \A i \in 1 .. m : Skip(k, i) \in 1 .. n /\ Skip(k, i) # k
    BY <1>1, <1>4 DEF Skip
  <1>10. /\ m \in Nat \ {0} /\ v \in [1 .. m -> Coros]
    BY <1>1, <1>4, <1>9
  <1>11. /\ nx1 \in [Coros -> Coros] /\ pv1 \in [Coros -> Coros]
         /\ nx1[w[k - 1]] = nx[c] /\ pv1[nx[c]] = w[k - 1]
         /\ \A d \in Coros : d # w[k - 1] => nx1[d] = nx[d]
         /\ \A d \in Coros : d # nx[c] => pv1[d] = pv[d]
    BY <1>1, <1>5, <1>7 DEF Unlinked
  <1>12. \A i \in 1 .. m : v[i] = w[Skip(k, i)]
    OBVIOUS
  <1> HIDE DEF v
  <1>13. v[1] = 0
    BY <1>1, <1>4, <1>10, <1>12 DEF Skip
  <1>14. v[m] = tl1 /\ nx1[tl1] = 0
    <2>1. CASE k = n
      <3>1. tl1 = w[k - 1] /\ nx1[tl1] = 0
        BY <1>5, <1>6, <1>11, <2>1 DEF Unlinked
      <3>2. m \in 1 .. m /\ Skip(k, m) = k - 1
        BY <1>1, <1>4, <2>1 DEF Skip
      <3> QED
        BY <1>12, <3>1, <3>2
    <2>2. CASE k < n
      <3>1. m \in 1 .. m /\ Skip(k, m) = n /\ n \in 1 .. n
        BY <1>1, <1>4, <2>2 DEF Skip
      <3>2. tl # c /\ tl # w[k - 1] /\ tl \in Coros
        BY <1>1, <1>2, <1>4, <1>5, <2>2
      <3> QED
        BY <1>1, <1>11, <1>12, <3>1, <3>2 DEF Unlinked
    <2> QED
      BY <1>1, <1>4, <2>1, <2>2
  <1>15. \A i, j \in 1 .. m : v[i] = v[j] => i = j
    <2> SUFFICES ASSUME NEW i \in 1 .. m, NEW j \in 1 .. m, v[i] = v[j]
                 PROVE  i = j
      OBVIOUS
    <2>1. Skip(k, i) = Skip(k, j)
      BY <1>2, <1>9, <1>12
    <2> QED
      BY <1>1, <1>4, <2>1 DEF Skip
  <1>16. ASSUME NEW i \in 2 .. m
         PROVE  nx1[v[i - 1]] = v[i] /\ pv1[v[i]] = v[i - 1]
    <2>1. i \in 1 .. m /\ i - 1 \in 1 .. m
      BY <1>1
    <2>2. CASE i < k
      <3>1. /\ v[i] = w[i] /\ v[i - 1] = w[i - 1] /\ i \in 2 .. n /\ i - 1 \in 1 .. n
            /\ i - 1 # k - 1 /\ i \in 1 .. n
        BY <1>1, <1>4, <1>12, <2>1, <2>2 DEF Skip
      <3>2. w[i - 1] # w[k - 1] /\ w[i] \in Coros /\ w[i - 1] \in Coros
        BY <1>1, <1>2, <1>5, <3>1
      <3>3. w[i] # nx[c]
        <4>1. CASE k < n
          BY <1>1, <1>2, <1>4, <1>6, <2>2, <3>1, <4>1
        <4>2. CASE k = n
          <5>1. w[i] # 0
            BY <1>1, <1>2, <3>1
          <5> QED
            BY <1>6, <4>2, <5>1
        <4> QED
          BY <1>1, <1>4, <4>1, <4>2
      <3> QED
        BY <1>3, <1>11, <3>1, <3>2, <3>3
    <2>3. CASE i = k
      <3>1. k < n
        BY <1>1, <1>4, <2>3
      <3>2. v[i] = w[k + 1] /\ v[i - 1] = w[k - 1]
        BY <1>1, <1>4, <1>12, <2>1, <2>3 DEF Skip
      <3> QED
        BY <1>6, <1>11, <3>1, <3>2
    <2>4. CASE i > k
      <3>1. /\ v[i] = w[i + 1] /\ v[i - 1] = w[i] /\ i + 1 \in 2 .. n /\ (i + 1) - 1 = i
            /\ i \in 1 .. n /\ i + 1 \in 1 .. n /\ k < n /\ i # k - 1 /\ i + 1 # k + 1
        BY <1>1, <1>4, <1>12, <2>1, <2>4 DEF Skip
      <3>2. w[i] # w[k - 1] /\ w[i] \in Coros /\ w[i + 1] \in Coros
        BY <1>1, <1>2, <1>5, <3>1
      <3>3. w[i + 1] # nx[c]
        BY <1>1, <1>2, <1>6, <3>1
      <3>4. nx[w[i]] = w[i + 1] /\ pv[w[i + 1]] = w[i]
        BY <1>3, <3>1
      <3> QED
        BY <1>11, <3>1, <3>2, <3>3, <3>4
    <2> QED
      BY <1>1, <1>4, <2>2, <2>3, <2>4
  <1>17. ASSUME NEW d \in Coros
         PROVE  d \in M \ {c} <=> \E i \in 1 .. m : v[i] = d
    <2>1. ASSUME d \in M \ {c}
          PROVE  \E i \in 1 .. m : v[i] = d
      <3>1. PICK j \in 1 .. n : w[j] = d
        BY <2>1 DEF Cycle
      <3>2. j # k
        BY <1>4, <2>1, <3>1
      <3>3. CASE j < k
        <4>1. j \in 1 .. m /\ Skip(k, j) = j
          BY <1>1, <1>4, <3>3 DEF Skip
        <4> QED
          BY <1>12, <3>1, <4>1
      <3>4. CASE j > k
        <4>1. j - 1 \in 1 .. m /\ Skip(k, j - 1) = j
          BY <1>1, <1>4, <3>4 DEF Skip
        <4> QED
          BY <1>12, <3>1, <4>1
      <3> QED
        BY <1>1, <1>4, <3>2, <3>3, <3>4
    <2>2. ASSUME NEW i \in 1 .. m, v[i] = d
          PROVE  d \in M \ {c}
      <3>1. Skip(k, i) \in 1 .. n /\ w[Skip(k, i)] = d
        BY <1>9, <1>12, <2>2
      <3>2. d # c
        <4>1. Skip(k, i) # k /\ k \in 1 .. n
          BY <1>1, <1>4, <1>9
        <4> QED
          BY <1>2, <1>4, <3>1, <4>1
      <3> QED
        BY <3>1, <3>2 DEF Cycle
    <2> QED
      BY <2>1, <2>2
  <1> HIDE DEF m
  <1>18. Cycle(m, v, nx1, pv1, tl1, M \ {c})
    BY <1>10, <1>11, <1>13, <1>14, <1>15, <1>16, <1>17 DEF Cycle
  <1>19. tl1 \in Coros
    BY <1>1, <1>5 DEF Unlinked
  <1> QED
    BY <1>5, <1>7, <1>8, <1>18, <1>19

\* A coroutine put behind the tail.
LEMMA CycleAppend ==
  ASSUME NEW n, NEW w, NEW nx, NEW pv, NEW tl, NEW M, Cycle(n, w, nx, pv, tl, M),
         NEW c \in Coros, c \notin M, NEW nx1, NEW pv1,
         Linked(nx1, pv1, nx, pv, tl, c)
  PROVE  \E m, v : Cycle(m, v, nx1, pv1, c, M \cup {c})
  <1>1. /\ n \in Nat \ {0} /\ w \in [1 .. n -> Coros]
        /\ nx \in [Coros -> Coros] /\ pv \in [Coros -> Coros]
        /\ w[1] = 0 /\ w[n] = tl /\ 0 \in Coros /\ tl \in Coros
    BY DEF Cycle
  <1>2. \A i, j \in 1 .. n : w[i] = w[j] => i = j
    BY DEF Cycle
  <1>3. \A i \in 2 .. n : nx[w[i - 1]] = w[i] /\ pv[w[i]] = w[i - 1]
    BY DEF Cycle
  <1>4. \A i \in 1 .. n : w[i] # c
    BY DEF Cycle
  <1> DEFINE m == n + 1
             v == [i \in 1 .. m |-> IF i = m THEN c ELSE w[i]]
  <1>5. /\ m \in Nat \ {0} /\ v \in [1 .. m -> Coros] /\ v[m] = c
        /\ \A i \in 1 .. n : v[i] = w[i]
    BY <1>1
  <1>6. /\ nx1 \in [Coros -> Coros] /\ pv1 \in [Coros -> Coros]
        /\ nx1[c] = 0 /\ nx1[tl] = c /\ pv1[c] = tl
        /\ \A d \in Coros : d # tl /\ d # c => nx1[d] = nx[d]
        /\ \A d \in Coros : d # c => pv1[d] = pv[d]
    BY <1>1, <1>4 DEF Linked
  <1> HIDE DEF v
  <1>7. v[1] = 0
    BY <1>1, <1>5
  <1>8. \A i, j \in 1 .. m : v[i] = v[j] => i = j
    BY <1>1, <1>2, <1>4, <1>5
  <1>9. ASSUME NEW i \in 2 .. m
        PROVE  nx1[v[i - 1]] = v[i] /\ pv1[v[i]] = v[i - 1]
    <2>1. CASE i = m
      <3>1. v[i] = c /\ v[i - 1] = tl
        BY <1>1, <1>5, <2>1
      <3> QED
        BY <1>6, <3>1
    <2>2. CASE i < m
      <3>1. i \in 2 .. n /\ i \in 1 .. n /\ i - 1 \in 1 .. n /\ i - 1 # n
        BY <1>1, <2>2
      <3>2. v[i] = w[i] /\ v[i - 1] = w[i - 1] /\ w[i - 1] # tl
        BY <1>1, <1>2, <1>5, <3>1
      <3>3. w[i] # c /\ w[i - 1] # c /\ w[i] \in Coros /\ w[i - 1] \in Coros
        BY <1>1, <1>4, <3>1
      <3> QED
        BY <1>3, <1>6, <3>1, <3>2, <3>3
    <2> QED
      BY <1>1, <2>1, <2>2
  <1>10. ASSUME NEW d \in Coros
         PROVE  d \in M \cup {c} <=> \E i \in 1 .. m : v[i] = d
    <2>1. d \in M <=> \E i \in 1 .. n : w[i] = d
      BY DEF Cycle
    <2>2. m \in 1 .. m /\ \A i \in 1 .. m : i = m \/ i \in 1 .. n
      BY <1>1
    <2>3. \A i \in 1 .. n : i \in 1 .. m
      BY <1>1
    <2> QED
      BY <1>5, <2>1, <2>2, <2>3
  <1> HIDE DEF m
  <1>11. Cycle(m, v, nx1, pv1, c, M \cup {c})
    BY <1>5, <1>6, <1>7, <1>8, <1>9, <1>10 DEF Cycle
  <1> QED
    BY <1>11

\* A ring is no longer than the coroutines are many, and is one in the sense of
\* RingWellFormed.
LEMMA CycleRing ==
  ASSUME NEW n, NEW w, NEW M, Cycle(n, w, next_coro, prev_coro, coro_tail, M),
         Ready \subseteq M, M \subseteq Ready \cup Overdrawn
  PROVE  RingWellFormed
  <1>1. n \in Nat \ {0} /\ w \in [1 .. n -> Coros]
    BY DEF Cycle
  <1>2. w \in Injection(1 .. n, Coros)
    BY <1>1 DEF Cycle, Injection, IsInjective
  <1>3. /\ IsFiniteSet(1 .. n) /\ Cardinality(1 .. n) = n
        /\ IsFiniteSet(Coros) /\ Cardinality(Coros) = coro_num
    BY <1>1, FS_Interval, CoroAssumption DEF Coros
  <1>4. Cardinality(1 .. n) <= Cardinality(Coros)
    BY <1>2, <1>3, FS_Injection
  <1>5. n \in 1 .. coro_num
    BY <1>1, <1>3, <1>4, CoroAssumption
  <1>6. Len(w) = n
    BY <1>1
  <1>7. {w[i] : i \in 1 .. n} = M
    <2>1. M \subseteq Coros
      BY DEF Ready, Overdrawn
    <2> QED
      BY <1>1, <2>1 DEF Cycle
  <1>8. /\ w[1] = 0 /\ w[n] = coro_tail /\ next_coro[coro_tail] = 0
        /\ \A i, j \in 1 .. n : w[i] = w[j] => i = j
        /\ \A i \in 2 .. n : next_coro[w[i - 1]] = w[i] /\ prev_coro[w[i]] = w[i - 1]
    BY DEF Cycle
  <1>9. RingOrder(w)
    BY <1>6, <1>7, <1>8 DEF RingOrder, coro_head
  <1> QED
    BY <1>1, <1>5, <1>9 DEF RingWellFormed

-----------------------------------------------------------------------------
(* Coroutines: the invariant *)

Wc == [wr_id : Coros, status : {"ok", "retry_exc", "flushed"}]

CoroTypes ==
    /\ prev_coro \in [Coros -> Coros] /\ next_coro \in [Coros -> Coros]
    /\ coro_tail \in Coros /\ coro_running \in Coros
    /\ is_wait_poll \in [Coros -> BOOLEAN] /\ pending_counts \in [Coros -> Int]
    /\ pending_qps \in Seq(QPs) /\ poll_it \in 0 .. Len(pending_qps) /\ sync_qp \subseteq QPs
    /\ sq \in [QPs -> Seq(Coros)] /\ cq \in [QPs -> Seq(Wc)]
    /\ crossed \in Nat /\ stolen \in [Coros -> Int]

\* The coroutine that runs, and the polling one, are in the ring.
InRing(M) == Ready \subseteq M /\ M \subseteq Ready \cup Overdrawn
RingInv ==
    /\ \E n, w, M : Cycle(n, w, next_coro, prev_coro, coro_tail, M) /\ InRing(M)
    /\ ~is_wait_poll[coro_running] /\ ~is_wait_poll[0]

\* Only a broken queue pair fails an operation.
BrokenInv == \A q \in QPs : \A i \in 1 .. Len(cq[q]) : cq[q][i].status # "ok" => qp_broken # {}

\* One blocking call at a time, and none during PollCompletion.
SyncInv == (poll_it # 0 => sync_qp = {}) /\ \A q \in sync_qp : sync_qp = {q}

\* A blocking call that has its queue pair to itself finds its own completion.
StolenInv ==
    crossed = 0 =>
        /\ sync_qp = {} => \A c \in Coros : stolen[c] = 0
        /\ \A q \in sync_qp :
              /\ Len(sq[q]) + Len(cq[q]) = 1
              /\ \A i \in 1 .. Len(sq[q]) : sq[q][i] = coro_running
              /\ \A i \in 1 .. Len(cq[q]) : cq[q][i].wr_id = coro_running
              /\ \A c \in Coros : stolen[c] = IF c = coro_running THEN -1 ELSE 0

\* The operation of a blocking call is the only one that is not listed.
ListInv ==
    \A q \in QPs : IF q \in sync_qp THEN Listed(q) + 1 >= Len(sq[q]) + Len(cq[q])
                   ELSE Listed(q) >= Len(sq[q]) + Len(cq[q])

\* What coroutine c waits for.
SqPlaces(c) == PlacesOn(QPs, sq, c)
CqPlaces(c) == PlacesOn(QPs, cq_ids, c)
InSq(c) == Cardinality(SqPlaces(c))
InCq(c) == Cardinality(CqPlaces(c))
Owed(c) ==
    /\ IsFiniteSet(SqPlaces(c)) /\ IsFiniteSet(CqPlaces(c))
    /\ IF qp_broken = {} THEN pending_counts[c] = (InSq(c) + InCq(c)) + stolen[c]
       ELSE pending_counts[c] >= (InSq(c) + InCq(c)) + stolen[c]

CountInv == SyncInv /\ StolenInv /\ ListInv /\ \A c \in Coros \ {0} : Owed(c)

\* The process that aborted takes no more steps: its counts no longer matter.
CoroInv == CoroTypes /\ RingInv /\ BrokenInv /\ (~coro_aborted => CountInv)

LEMMA CoroInvImplies == CoroInv => RingWellFormed /\ PendingAgree
  <1> SUFFICES ASSUME CoroInv
               PROVE  RingWellFormed /\ PendingAgree
    OBVIOUS
  <1>1. RingWellFormed
    BY CycleRing DEF CoroInv, RingInv, InRing
  <1>2. \A c \in Coros : SqPlaces(c) = Places(sq, c) /\ CqPlaces(c) = Places(cq_ids, c)
    BY DEF SqPlaces, CqPlaces, PlacesOn, Places, On, Hits
  <1>3. \A c \in Coros : Outstanding(c) = InSq(c) + InCq(c)
    BY <1>2 DEF Outstanding, InSq, InCq
  <1>4. PendingAgree
    BY <1>3 DEF CoroInv, CountInv, Owed, ListInv, StolenInv, PendingAgree
  <1> QED
    BY <1>1, <1>4

LEMMA CoroInitInv == CoroInit => CoroInv
  <1> SUFFICES ASSUME CoroInit
               PROVE  CoroInv
    OBVIOUS
  <1>1. CoroTypes
    BY CoroAssumption DEF CoroInit, CoroTypes, Coros, coro_head
  <1>2. RingInv
    <2> DEFINE w == [i \in 1 .. coro_num |-> i - 1]
    <2>1. coro_num \in Nat \ {0} /\ w \in [1 .. coro_num -> Coros]
      BY CoroAssumption DEF Coros
    <2>2. w[1] = 0 /\ w[coro_num] = coro_tail /\ next_coro[coro_tail] = 0
      BY CoroAssumption DEF CoroInit, Coros, coro_head
    <2>3. \A i, j \in 1 .. coro_num : w[i] = w[j] => i = j
      BY CoroAssumption
    <2>4. \A i \in 2 .. coro_num : next_coro[w[i - 1]] = w[i] /\ prev_coro[w[i]] = w[i - 1]
      BY CoroAssumption DEF CoroInit, Coros, coro_head
    <2>5. Ready = Coros /\ 0 \in Coros
      BY CoroAssumption DEF CoroInit, Ready, Coros
    <2>6. \A c \in Coros : \E i \in 1 .. coro_num : w[i] = c
      <3> SUFFICES ASSUME NEW c \in Coros
                   PROVE  \E i \in 1 .. coro_num : w[i] = c
        OBVIOUS
      <3>1. c + 1 \in 1 .. coro_num /\ w[c + 1] = c
        BY CoroAssumption DEF Coros
      <3> QED
        BY <3>1
    <2> HIDE DEF w
    <2>7. Cycle(coro_num, w, next_coro, prev_coro, coro_tail, Ready)
      BY <1>1, <2>1, <2>2, <2>3, <2>4, <2>5, <2>6 DEF Cycle, CoroTypes
    <2>8. InRing(Ready)
      BY DEF InRing
    <2> QED
      BY <2>5, <2>7, <2>8 DEF RingInv, CoroInit
  <1>3. SyncInv /\ BrokenInv /\ StolenInv
    BY DEF CoroInit, SyncInv, BrokenInv, StolenInv
  <1>4. ListInv
    <2>1. ASSUME NEW q \in QPs
          PROVE  Listed(q) = 0
      <3>1. {i \in 1 .. Len(pending_qps) : pending_qps[i] = q} = {}
        BY DEF CoroInit
      <3> QED
        BY <3>1, FS_EmptySet DEF Listed
    <2>2. \A q \in QPs : Len(sq[q]) = 0 /\ Len(cq[q]) = 0
      BY DEF CoroInit
    <2>3. ASSUME NEW q \in QPs
          PROVE  Listed(q) >= Len(sq[q]) + Len(cq[q])
      <3>1. Listed(q) = 0 /\ Len(sq[q]) = 0 /\ Len(cq[q]) = 0
        BY <2>1, <2>2
      <3> QED
        BY <3>1
    <2> QED
      BY <2>3 DEF ListInv, CoroInit
  <1>5. ASSUME NEW c \in Coros
        PROVE  Owed(c)
    <2>1. \A q \in QPs : Hits(sq[q], c) = {} /\ Hits(cq_ids[q], c) = {}
      BY DEF CoroInit, Hits, cq_ids
    <2>2. SqPlaces(c) = {} /\ CqPlaces(c) = {}
      BY <2>1 DEF PlacesOn, On, SqPlaces, CqPlaces
    <2>3. InSq(c) = 0 /\ InCq(c) = 0 /\ pending_counts[c] = 0 /\ stolen[c] = 0
      BY <2>2, FS_EmptySet DEF InSq, InCq, CoroInit
    <2>4. pending_counts[c] = (InSq(c) + InCq(c)) + stolen[c] /\ qp_broken = {}
      BY <2>3 DEF CoroInit
    <2> QED
      BY <2>2, <2>4, FS_EmptySet DEF Owed
  <1> QED
    BY <1>1, <1>2, <1>3, <1>4, <1>5 DEF CoroInv, CountInv

\* Steps that leave the queues alone.
LEMMA CountsSame ==
  ASSUME CountInv, BrokenInv, UNCHANGED <<pending_counts, pending_qps, sync_qp, nic, blocking>>,
         sync_qp = {} \/ UNCHANGED coro_running, poll_it' # 0 => sync_qp = {}
  PROVE  CountInv' /\ BrokenInv'
  <1>1. /\ cq_ids' = cq_ids /\ \A q : Listed(q)' = Listed(q)
        /\ UNCHANGED <<sq, cq, qp_broken, crossed, stolen>>
    BY DEF cq_ids, Listed, nic, blocking
  <1>2. \A c : SqPlaces(c)' = SqPlaces(c) /\ CqPlaces(c)' = CqPlaces(c)
    BY <1>1 DEF SqPlaces, CqPlaces
  <1>3. \A c \in Coros \ {0} : Owed(c)'
    BY <1>1, <1>2 DEF CountInv, Owed, InSq, InCq
  <1>4. SyncInv' /\ StolenInv' /\ ListInv' /\ BrokenInv'
    BY <1>1 DEF CountInv, SyncInv, StolenInv, ListInv, BrokenInv
  <1> QED
    BY <1>3, <1>4 DEF CountInv

\* Steps that leave the ring alone, if the same coroutines may be in it.
LEMMA RingSame ==
  ASSUME RingInv, UNCHANGED <<prev_coro, next_coro, coro_tail>>,
         Ready' \subseteq Ready, Ready \subseteq Ready' \cup Overdrawn',
         Overdrawn \subseteq Ready' \cup Overdrawn',
         ~is_wait_poll'[coro_running'], ~is_wait_poll'[0]
  PROVE  RingInv'
  <1>1. PICK n, w, M : Cycle(n, w, next_coro, prev_coro, coro_tail, M) /\ InRing(M)
    BY DEF RingInv
  <1>2. InRing(M)'
    BY <1>1 DEF InRing
  <1> QED
    BY <1>1, <1>2 DEF RingInv
LEMMA RingStays ==
  ASSUME RingInv, UNCHANGED <<ring, pending_counts, coro_running>>
  PROVE  RingInv'
  BY DEF RingInv, InRing, Ready, Overdrawn, ring

LEMMA CoroYield ==
  ASSUME CoroInv, NEW c \in Coros, Yield(c)
  PROVE  CoroInv'
  <1>1. PICK n, w, M : Cycle(n, w, next_coro, prev_coro, coro_tail, M) /\ InRing(M)
    BY DEF CoroInv, RingInv
  <1>2. /\ c \in Coros \ {0} /\ coro_running = c /\ c \in M /\ pending_counts[c] # 0
        /\ 0 \in Coros /\ sync_qp = {} /\ poll_it = 0 /\ ~coro_aborted
    BY <1>1, CoroAssumption
    DEF Yield, InCoroutine, CoroInv, RingInv, InRing, Ready, coro_head, Coros
  <1>3. PICK nxt, prv : nxt = next_coro[c] /\ prv = prev_coro[c]
    OBVIOUS
  <1>4. /\ next_coro' = [next_coro EXCEPT ![prev_coro[c]] = next_coro[c]]
        /\ prev_coro' = [prev_coro EXCEPT ![next_coro[c]] = prev_coro[c]]
        /\ coro_tail' = IF coro_tail = c THEN prev_coro[c] ELSE coro_tail
        /\ is_wait_poll' = [is_wait_poll EXCEPT ![c] = TRUE, ![nxt] = FALSE]
        /\ coro_running' = nxt
        /\ UNCHANGED <<pending_counts, pending_qps, poll_it, sync_qp, nic, coro_aborted, blocking>>
    BY <1>3 DEF Yield
  <1>5. /\ \E m, v : Cycle(m, v, next_coro', prev_coro', coro_tail', M \ {c})
        /\ nxt \in Coros \ {c} /\ nxt \in M /\ prv \in Coros /\ coro_tail' \in Coros
    <2>1. PICK nx1, pv1, tl1 : nx1 = next_coro' /\ pv1 = prev_coro' /\ tl1 = coro_tail'
      OBVIOUS
    <2>2. Unlinked(nx1, pv1, tl1, next_coro, prev_coro, coro_tail, c)
      BY <1>4, <2>1 DEF Unlinked
    <2>3. /\ \E m, v : Cycle(m, v, nx1, pv1, tl1, M \ {c})
          /\ next_coro[c] \in Coros \ {c} /\ next_coro[c] \in M /\ prev_coro[c] \in Coros
          /\ tl1 \in Coros
      BY <1>1, <1>2, <2>2, CycleRemove
    <2> QED
      BY <1>3, <2>1, <2>3
  <1>6. is_wait_poll \in [Coros -> BOOLEAN]
    BY DEF CoroInv, CoroTypes
  <1>7. /\ is_wait_poll' \in [Coros -> BOOLEAN] /\ is_wait_poll'[c] /\ ~is_wait_poll'[nxt]
        /\ \A d \in Coros \ {c, nxt} : is_wait_poll'[d] = is_wait_poll[d]
    BY <1>2, <1>4, <1>5, <1>6
  <1>8. Ready' = (Ready \ {c}) \cup {nxt} /\ Overdrawn' = Overdrawn
    BY <1>2, <1>4, <1>5, <1>7 DEF Ready, Overdrawn
  <1>9. InRing(M \ {c})'
    <2>1. Ready \subseteq M /\ M \subseteq Ready \cup Overdrawn
      BY <1>1 DEF InRing
    <2>2. Ready' \subseteq M \ {c} /\ M \ {c} \subseteq Ready' \cup Overdrawn'
      BY <1>5, <1>8, <2>1
    <2> QED
      BY <2>2 DEF InRing
  <1>10. RingInv'
    <2>1. ~is_wait_poll'[0]
      BY <1>2, <1>7 DEF CoroInv, RingInv
    <2> QED
      BY <1>4, <1>5, <1>7, <1>9, <2>1 DEF RingInv
  <1>11. CoroTypes'
    <2>1. next_coro' \in [Coros -> Coros] /\ prev_coro' \in [Coros -> Coros]
      BY <1>5 DEF Cycle
    <2> QED
      BY <1>4, <1>5, <1>7, <2>1 DEF CoroInv, CoroTypes, nic, blocking
  <1>12. CountInv' /\ BrokenInv'
    BY <1>2, <1>4, CountsSame DEF CoroInv
  <1> QED
    BY <1>10, <1>11, <1>12 DEF CoroInv

LEMMA CoroRun ==
  ASSUME CoroInv, RunCoroutine
  PROVE  CoroInv'
  <1>1. PICK n, w, M : Cycle(n, w, next_coro, prev_coro, coro_tail, M) /\ InRing(M)
    BY DEF CoroInv, RingInv
  <1>2. 0 \in Coros /\ 0 \in M
    BY <1>1, CoroAssumption DEF CoroInv, RingInv, InRing, Ready, Coros
  <1>3. PICK nxt \in Coros : nxt = next_coro[0] /\ nxt \in M
    BY <1>1, <1>2, CycleNext
  <1>4. /\ is_wait_poll' = [is_wait_poll EXCEPT ![nxt] = FALSE] /\ coro_running' = nxt
        /\ UNCHANGED <<prev_coro, next_coro, coro_tail, pending_counts, pending_qps, poll_it,
                       sync_qp, nic, coro_aborted, blocking>>
        /\ sync_qp = {} /\ poll_it = 0 /\ ~coro_aborted
    BY <1>3 DEF RunCoroutine, InCoroutine, coro_head
  <1>5. /\ is_wait_poll' \in [Coros -> BOOLEAN] /\ ~is_wait_poll'[nxt]
        /\ \A d \in Coros \ {nxt} : is_wait_poll'[d] = is_wait_poll[d]
    BY <1>4 DEF CoroInv, CoroTypes
  <1>6. Ready' = Ready \cup {nxt} /\ Overdrawn' = Overdrawn
    BY <1>3, <1>4, <1>5 DEF Ready, Overdrawn
  <1>7. InRing(M)'
    <2>1. Ready \subseteq M /\ M \subseteq Ready \cup Overdrawn
      BY <1>1 DEF InRing
    <2>2. Ready' \subseteq M /\ M \subseteq Ready' \cup Overdrawn'
      BY <1>3, <1>6, <2>1
    <2> QED
      BY <2>2 DEF InRing
  <1>8. RingInv'
    <2>1. ~is_wait_poll'[0]
      BY <1>2, <1>5 DEF CoroInv, RingInv
    <2> QED
      BY <1>1, <1>4, <1>5, <1>7, <2>1 DEF RingInv
  <1>9. CoroTypes'
    BY <1>4, <1>5 DEF CoroInv, CoroTypes, nic, blocking
  <1>10. CountInv' /\ BrokenInv'
    BY <1>4, CountsSame DEF CoroInv
  <1> QED
    BY <1>8, <1>9, <1>10 DEF CoroInv

LEMMA CoroPollStart ==
  ASSUME CoroInv, PollStart
  PROVE  CoroInv'
  <1>1. /\ sync_qp = {} /\ ~coro_aborted /\ poll_it' \in 0 .. Len(pending_qps)
        /\ UNCHANGED <<ring, pending_counts, pending_qps, coro_running, sync_qp, nic,
                       coro_aborted, blocking>>
    BY DEF PollStart, InCoroutine, After, CoroInv, CoroTypes
  <1>2. RingInv'
    BY <1>1, RingStays DEF CoroInv
  <1>3. CoroTypes'
    BY <1>1 DEF CoroInv, CoroTypes, ring, nic, blocking
  <1>4. CountInv' /\ BrokenInv'
    BY <1>1, CountsSame DEF CoroInv
  <1> QED
    BY <1>2, <1>3, <1>4 DEF CoroInv

\* Facts of the invariant for the arithmetic.
LEMMA OwedCounts ==
  ASSUME CoroTypes, NEW d \in Coros \ {0}, Owed(d)
  PROVE  /\ InSq(d) \in Nat /\ InCq(d) \in Nat
         /\ pending_counts[d] \in Int /\ stolen[d] \in Int
         /\ IsFiniteSet(SqPlaces(d)) /\ IsFiniteSet(CqPlaces(d))
         /\ qp_broken = {} => pending_counts[d] = (InSq(d) + InCq(d)) + stolen[d]
         /\ pending_counts[d] >= (InSq(d) + InCq(d)) + stolen[d]
  <1>1. pending_counts[d] \in Int /\ stolen[d] \in Int
    BY DEF CoroTypes
  <1>2. InSq(d) \in Nat /\ InCq(d) \in Nat
    BY FS_CardinalityType DEF Owed, InSq, InCq
  <1>3. /\ qp_broken = {} => pending_counts[d] = (InSq(d) + InCq(d)) + stolen[d]
        /\ qp_broken # {} => pending_counts[d] >= (InSq(d) + InCq(d)) + stolen[d]
    BY DEF Owed
  <1> QED
    BY <1>1, <1>2, <1>3 DEF Owed

\* How the counts of coroutine d change in a step, and when that keeps them right:
\* exactly, or at least as many as before if a queue pair is broken.
Shifted(d, a, b, p, z) ==
    /\ InSq(d)' = InSq(d) + a /\ InCq(d)' = InCq(d) + b
    /\ pending_counts'[d] = pending_counts[d] + p /\ stolen'[d] = stolen[d] + z
Exact(a, b, p, z) == a \in Int /\ b \in Int /\ p \in Int /\ z \in Int /\ p = (a + b) + z
Loose(a, b, p, z) == a \in Int /\ b \in Int /\ p \in Int /\ z \in Int /\ p >= (a + b) + z

LEMMA OwedShifts ==
  ASSUME CoroTypes, NEW d \in Coros \ {0}, Owed(d), IsFiniteSet(SqPlaces(d)'),
         IsFiniteSet(CqPlaces(d)'), NEW a, NEW b, NEW p, NEW z, Shifted(d, a, b, p, z),
         Loose(a, b, p, z), qp_broken' = {} => qp_broken = {} /\ Exact(a, b, p, z)
  PROVE  Owed(d)'
  <1>1. PICK s \in Nat, c \in Nat, n \in Int, t \in Int :
           /\ s = InSq(d) /\ c = InCq(d) /\ n = pending_counts[d] /\ t = stolen[d]
           /\ qp_broken = {} => n = (s + c) + t
           /\ n >= (s + c) + t
    BY OwedCounts
  <1>2. /\ InSq(d)' = s + a /\ InCq(d)' = c + b
        /\ pending_counts'[d] = n + p /\ stolen'[d] = t + z
    BY <1>1 DEF Shifted
  <1>3. n + p >= ((s + a) + (c + b)) + (t + z)
    <2>1. n >= (s + c) + t
      BY <1>1
    <2> QED
      BY ONLY <2>1, s \in Nat, c \in Nat, n \in Int, t \in Int, Loose(a, b, p, z) DEF Loose
  <1>4. ASSUME qp_broken' = {}
        PROVE  n + p = ((s + a) + (c + b)) + (t + z)
    <2>1. n = (s + c) + t /\ Exact(a, b, p, z)
      BY <1>1, <1>4
    <2> QED
      BY ONLY <2>1, s \in Nat, c \in Nat, n \in Int, t \in Int DEF Exact
  <1> QED
    BY <1>2, <1>3, <1>4 DEF Owed

LEMMA ListCounts ==
  ASSUME CoroTypes, NEW q \in QPs
  PROVE  Listed(q) \in Nat /\ Len(sq[q]) \in Nat /\ Len(cq[q]) \in Nat
  <1>1. pending_qps \in Seq(QPs) /\ sq[q] \in Seq(Coros) /\ cq[q] \in Seq(Wc)
    BY DEF CoroTypes
  <1>2. Listed(q) = Cardinality(Hits(pending_qps, q))
    BY DEF Listed, Hits
  <1>3. Listed(q) \in Nat
    BY <1>1, <1>2, HitsFinite
  <1> QED
    BY <1>1, <1>3

\* An operation posted to a queue pair.
LEMMA PostEffect ==
  ASSUME CoroTypes, NEW c \in Coros, NEW q \in QPs, Post(c, q), UNCHANGED cq,
         NEW d \in Coros \ {0}, Owed(d)
  PROVE  /\ IsFiniteSet(SqPlaces(d)') /\ IsFiniteSet(CqPlaces(d)')
         /\ InSq(d) \in Nat /\ InCq(d) \in Nat /\ InCq(d)' = InCq(d)
         /\ d = c => InSq(d)' = InSq(d) + 1
         /\ d # c => InSq(d)' = InSq(d)
  <1>1. sq \in [QPs -> Seq(Coros)] /\ sq' = [sq EXCEPT ![q] = Append(sq[q], c)]
    BY DEF CoroTypes, Post
  <1>2. PICK Q, R : Q = sq /\ R = sq'
    OBVIOUS
  <1>3. Grown(R[q], Q[q], c) /\ SameBut(q, QPs, R, Q)
    BY <1>1, <1>2 DEF Grown, SameBut
  <1>4. /\ IsFiniteSet(SqPlaces(d)) /\ IsFiniteSet(CqPlaces(d))
        /\ InSq(d) \in Nat /\ InCq(d) \in Nat
    BY OwedCounts
  <1>5. SqPlaces(d) = PlacesOn(QPs, Q, d) /\ SqPlaces(d)' = PlacesOn(QPs, R, d)
    BY <1>2 DEF SqPlaces
  <1>6. IsFiniteSet(PlacesOn(QPs, Q, d))
    BY <1>4, <1>5
  <1>7. /\ IsFiniteSet(PlacesOn(QPs, R, d))
        /\ c = d => Cardinality(PlacesOn(QPs, R, d)) = Cardinality(PlacesOn(QPs, Q, d)) + 1
        /\ c # d => Cardinality(PlacesOn(QPs, R, d)) = Cardinality(PlacesOn(QPs, Q, d))
    BY ONLY <1>3, <1>6, q \in QPs, QueueGrown
  <1>8. CqPlaces(d)' = CqPlaces(d)
    BY DEF CqPlaces, cq_ids
  <1> QED
    BY <1>4, <1>5, <1>7, <1>8 DEF InSq, InCq

LEMMA CoroOp ==
  ASSUME CoroInv, NEW c \in Coros, NEW q \in QPs, RDMAOp(c, q)
  PROVE  CoroInv'
  <1>1. /\ coro_running = c /\ sync_qp = {} /\ poll_it = 0 /\ ~coro_aborted /\ Post(c, q)
        /\ pending_qps' = Append(pending_qps, q)
        /\ pending_counts' = [pending_counts EXCEPT ![c] = @ + 1]
        /\ UNCHANGED <<ring, poll_it, coro_running, sync_qp, cq, qp_broken, coro_aborted,
                       crossed, stolen>>
    BY DEF RDMAOp, InCoroutine, thread, blocking
  <1>2. /\ pending_qps \in Seq(QPs) /\ sq \in [QPs -> Seq(Coros)]
        /\ pending_counts \in [Coros -> Int] /\ stolen \in [Coros -> Int]
        /\ CoroTypes /\ CountInv
    BY <1>1 DEF CoroInv, CoroTypes
  <1>3. /\ sq' \in [QPs -> Seq(Coros)] /\ Len(sq'[q]) = Len(sq[q]) + 1
        /\ \A p \in QPs \ {q} : sq'[p] = sq[p]
    BY <1>1, <1>2 DEF Post
  <1>4. /\ pending_counts' \in [Coros -> Int] /\ pending_counts'[c] = pending_counts[c] + 1
        /\ \A d \in Coros \ {c} : pending_counts'[d] = pending_counts[d]
    BY <1>1, <1>2
  <1>5. CoroTypes'
    BY <1>1, <1>2, <1>3, <1>4 DEF CoroTypes, ring
  <1>6. RingInv'
    <2>1. c \in Ready /\ c \in Ready'
      BY <1>1 DEF Ready, ring, CoroInv, RingInv
    <2>2. \A d \in Coros \ {c} : /\ d \in Ready' <=> d \in Ready
                                 /\ d \in Overdrawn' <=> d \in Overdrawn
      BY <1>1, <1>4 DEF Ready, Overdrawn, ring
    <2>3. /\ Ready \subseteq Coros /\ Ready' \subseteq Coros /\ Overdrawn \subseteq Coros
      BY DEF Ready, Overdrawn
    <2>4. /\ Ready' \subseteq Ready /\ Ready \subseteq Ready' \cup Overdrawn'
          /\ Overdrawn \subseteq Ready' \cup Overdrawn'
      BY <2>1, <2>2, <2>3
    <2> QED
      BY <1>1, <2>4, RingSame DEF CoroInv, RingInv, ring
  <1>7. SyncInv' /\ BrokenInv' /\ StolenInv'
    BY <1>1, <1>2 DEF CoroInv, CountInv, SyncInv, BrokenInv, StolenInv
  <1>8. ListInv'
    <2>1. Grown(pending_qps', pending_qps, q)
      BY <1>1, <1>2 DEF Grown
    <2>2. ASSUME NEW p \in QPs
          PROVE  Listed(p)' >= Len(sq'[p]) + Len(cq'[p])
      <3>1. PICK t : t = pending_qps'
        OBVIOUS
      <3>2. /\ q = p => Cardinality(Hits(t, p)) = Cardinality(Hits(pending_qps, p)) + 1
            /\ q # p => Cardinality(Hits(t, p)) = Cardinality(Hits(pending_qps, p))
        BY <2>1, <3>1, HitsGrown
      <3>3. Listed(p)' = Cardinality(Hits(t, p)) /\ Listed(p) = Cardinality(Hits(pending_qps, p))
        BY <3>1 DEF Listed, Hits
      <3>4. Listed(p) >= Len(sq[p]) + Len(cq[p])
        BY <1>1, <1>2 DEF CountInv, ListInv
      <3>5. PICK a \in Nat, b \in Nat, l \in Nat :
               a = Len(sq[p]) /\ b = Len(cq[p]) /\ l = Listed(p) /\ l >= a + b
        BY <1>2, <3>4, ListCounts
      <3>6. CASE p = q
        <4>1. Listed(p)' = l + 1 /\ Len(sq'[p]) = a + 1 /\ Len(cq'[p]) = b
          BY <1>1, <1>3, <3>2, <3>3, <3>5, <3>6
        <4>2. l + 1 >= (a + 1) + b
          <5>1. l >= a + b
            BY <3>5
          <5> QED
            BY ONLY <5>1, a \in Nat, b \in Nat, l \in Nat
        <4> QED
          BY <4>1, <4>2
      <3>7. CASE p # q
        <4>1. Listed(p)' = l /\ Len(sq'[p]) = a /\ Len(cq'[p]) = b
          BY <1>1, <1>3, <3>2, <3>3, <3>5, <3>7
        <4> QED
          BY <3>5, <4>1
      <3> QED
        BY <3>6, <3>7
    <2> QED
      BY <1>1, <2>2 DEF ListInv
  <1>9. ASSUME NEW d \in Coros \ {0}
        PROVE  Owed(d)'
    <2>1. Owed(d) /\ stolen[d] \in Int /\ pending_counts[d] \in Int
      BY <1>2 DEF CountInv
    <2>2. /\ IsFiniteSet(SqPlaces(d)') /\ IsFiniteSet(CqPlaces(d)')
          /\ InSq(d) \in Nat /\ InCq(d) \in Nat /\ InCq(d)' = InCq(d)
          /\ d = c => InSq(d)' = InSq(d) + 1
          /\ d # c => InSq(d)' = InSq(d)
      BY <1>1, <1>2, <2>1, PostEffect
    <2>3. CASE d = c
      <3>1. Shifted(d, 1, 0, 1, 0)
        BY <1>1, <1>4, <2>1, <2>2, <2>3 DEF Shifted
      <3>2. Loose(1, 0, 1, 0) /\ Exact(1, 0, 1, 0)
        BY DEF Loose, Exact
      <3> QED
        BY <1>1, <1>2, <2>1, <2>2, <3>1, <3>2, OwedShifts
    <2>4. CASE d # c
      <3>1. Shifted(d, 0, 0, 0, 0)
        BY <1>1, <1>4, <2>1, <2>2, <2>4 DEF Shifted
      <3>2. Loose(0, 0, 0, 0) /\ Exact(0, 0, 0, 0)
        BY DEF Loose, Exact
      <3> QED
        BY <1>1, <1>2, <2>1, <2>2, <3>1, <3>2, OwedShifts
    <2> QED
      BY <2>3, <2>4
  <1> QED
    BY <1>5, <1>6, <1>7, <1>8, <1>9 DEF CoroInv, CountInv

\* A blocking call owes one completion to the queue pair it polls.
LEMMA CoroSync ==
  ASSUME CoroInv, NEW c \in Coros, NEW q \in QPs, RDMASync(c, q)
  PROVE  CoroInv'
  <1>1. /\ coro_running = c /\ sync_qp = {} /\ poll_it = 0 /\ ~coro_aborted /\ Post(c, q)
        /\ sync_qp' = {q} /\ stolen' = [stolen EXCEPT ![c] = @ - 1]
        /\ UNCHANGED <<ring, pending_counts, pending_qps, poll_it, coro_running, cq, qp_broken,
                       coro_aborted>>
    BY DEF RDMASync, InCoroutine
  <1>2. /\ sq \in [QPs -> Seq(Coros)] /\ stolen \in [Coros -> Int] /\ crossed \in Nat
        /\ pending_counts \in [Coros -> Int] /\ CoroTypes /\ CountInv
    BY <1>1 DEF CoroInv, CoroTypes
  <1>3. crossed' = crossed + 1 \/ (crossed' = crossed /\ sq[q] = <<>> /\ cq[q] = <<>>)
    BY DEF RDMASync
  <1>4. /\ sq' \in [QPs -> Seq(Coros)] /\ sq'[q] = Append(sq[q], c)
        /\ Len(sq'[q]) = Len(sq[q]) + 1
        /\ \A p \in QPs \ {q} : sq'[p] = sq[p]
    BY <1>1, <1>2 DEF Post
  <1>5. /\ stolen' \in [Coros -> Int] /\ stolen'[c] = stolen[c] + (-1)
        /\ \A d \in Coros \ {c} : stolen'[d] = stolen[d]
    BY <1>1, <1>2
  <1>6. CoroTypes'
    <2>1. crossed' \in Nat /\ sync_qp' \subseteq QPs
      BY <1>1, <1>2, <1>3
    <2>2. UNCHANGED <<prev_coro, next_coro, coro_tail, is_wait_poll, pending_counts, pending_qps,
                      poll_it, coro_running, cq>>
      BY <1>1 DEF ring
    <2> QED
      BY <1>2, <1>4, <1>5, <2>1, <2>2 DEF CoroTypes
  <1>7. RingInv'
    BY <1>1, RingStays DEF CoroInv
  <1>8. SyncInv' /\ BrokenInv'
    BY <1>1 DEF CoroInv, SyncInv, BrokenInv
  <1>9. StolenInv'
    <2> SUFFICES ASSUME crossed' = 0
                 PROVE  /\ Len(sq'[q]) + Len(cq'[q]) = 1
                        /\ \A i \in 1 .. Len(sq'[q]) : sq'[q][i] = c
                        /\ \A i \in 1 .. Len(cq'[q]) : cq'[q][i].wr_id = c
                        /\ \A d \in Coros : stolen'[d] = IF d = c THEN -1 ELSE 0
      BY <1>1 DEF StolenInv
    <2>1. crossed = 0 /\ sq[q] = <<>> /\ cq[q] = <<>>
      BY <1>2, <1>3
    <2>2. PICK e : e = <<>>
      OBVIOUS
    <2>3. sq[q] = e /\ cq'[q] = e /\ Len(e) = 0
      BY <1>1, <2>1, <2>2
    <2>4. sq'[q] = <<c>>
      BY <1>4, <2>1
    <2>5. Len(sq'[q]) = 1 /\ Len(cq'[q]) = 0 /\ sq'[q][1] = c
      BY <2>3, <2>4
    <2>6. \A d \in Coros : stolen[d] = 0
      BY <1>1, <1>2, <2>1 DEF CountInv, StolenInv
    <2>7. \A d \in Coros : stolen'[d] = IF d = c THEN -1 ELSE 0
      BY <1>5, <2>6
    <2> QED
      BY <2>5, <2>7
  <1>10. ListInv'
    <2>1. \A p \in QPs : Listed(p)' = Listed(p)
      BY <1>1 DEF Listed
    <2>2. \A p \in QPs : Listed(p) >= Len(sq[p]) + Len(cq[p])
      BY <1>1, <1>2 DEF CountInv, ListInv
    <2>3. Listed(q)' + 1 >= Len(sq'[q]) + Len(cq'[q])
      <3>1. PICK a \in Nat, b \in Nat, l \in Nat :
               a = Len(sq[q]) /\ b = Len(cq[q]) /\ l = Listed(q)
        BY <1>2, ListCounts
      <3>2. l >= a + b
        BY <2>2, <3>1
      <3>3. l + 1 >= (a + 1) + b
        BY ONLY <3>2, a \in Nat, b \in Nat, l \in Nat
      <3> QED
        BY <1>1, <1>4, <2>1, <3>1, <3>3
    <2>4. \A p \in QPs \ {q} : Listed(p)' >= Len(sq'[p]) + Len(cq'[p])
      BY <1>1, <1>4, <2>1, <2>2
    <2> QED
      BY <1>1, <2>3, <2>4 DEF ListInv
  <1>11. ASSUME NEW d \in Coros \ {0}
         PROVE  Owed(d)'
    <2>1. Owed(d) /\ stolen[d] \in Int /\ pending_counts[d] \in Int
      BY <1>2 DEF CountInv
    <2>2. /\ IsFiniteSet(SqPlaces(d)') /\ IsFiniteSet(CqPlaces(d)')
          /\ InSq(d) \in Nat /\ InCq(d) \in Nat /\ InCq(d)' = InCq(d)
          /\ d = c => InSq(d)' = InSq(d) + 1
          /\ d # c => InSq(d)' = InSq(d)
      BY <1>1, <1>2, <2>1, PostEffect
    <2>3. CASE d = c
      <3>1. Shifted(d, 1, 0, 0, -1)
        BY <1>1, <1>5, <2>1, <2>2, <2>3 DEF Shifted
      <3>2. Loose(1, 0, 0, -1) /\ Exact(1, 0, 0, -1)
        BY DEF Loose, Exact
      <3> QED
        BY <1>1, <1>2, <2>1, <2>2, <3>1, <3>2, OwedShifts
    <2>4. CASE d # c
      <3>1. Shifted(d, 0, 0, 0, 0)
        BY <1>1, <1>5, <2>1, <2>2, <2>4 DEF Shifted
      <3>2. Loose(0, 0, 0, 0) /\ Exact(0, 0, 0, 0)
        BY DEF Loose, Exact
      <3> QED
        BY <1>1, <1>2, <2>1, <2>2, <3>1, <3>2, OwedShifts
    <2> QED
      BY <2>3, <2>4
  <1> QED
    BY <1>6, <1>7, <1>8, <1>9, <1>10, <1>11 DEF CoroInv, CountInv

LEMMA CqIds ==
  ASSUME CoroTypes, NEW q \in QPs
  PROVE  /\ cq[q] \in Seq(Wc) /\ Len(cq[q]) \in Nat /\ Len(cq_ids[q]) = Len(cq[q])
         /\ \A i \in 1 .. Len(cq[q]) : cq_ids[q][i] = cq[q][i].wr_id /\ cq[q][i].wr_id \in Coros
  <1>1. cq[q] \in Seq(Wc)
    BY DEF CoroTypes
  <1>2. PICK n \in Nat : n = Len(cq[q])
    BY <1>1
  <1>3. cq_ids[q] = [i \in 1 .. n |-> cq[q][i].wr_id]
    BY <1>2 DEF cq_ids
  <1>4. \A i \in 1 .. n : cq[q][i].wr_id \in Coros
    <2>1. \A i \in 1 .. n : cq[q][i] \in Wc
      BY <1>1, <1>2
    <2>2. \A e \in Wc : e.wr_id \in Coros
      BY DEF Wc
    <2> QED
      BY <2>1, <2>2
  <1>5. Len(cq_ids[q]) = n
    BY <1>3
  <1> QED
    BY <1>1, <1>2, <1>3, <1>4, <1>5

\* What taking the first completion of a queue pair does.
Taken(q) == cq[q] # <<>> /\ cq' = [cq EXCEPT ![q] = Tail(@)]

LEMMA TakeEffect ==
  ASSUME CoroTypes, BrokenInv, NEW q \in QPs, Taken(q), UNCHANGED qp_broken
  PROVE  /\ Head(cq[q]) \in Wc /\ cq[q][1] = Head(cq[q]) /\ 1 \in 1 .. Len(cq[q])
         /\ Head(cq[q]).wr_id \in Coros
         /\ cq' \in [QPs -> Seq(Wc)] /\ \A p \in QPs \ {q} : cq'[p] = cq[p]
         /\ Len(cq'[q]) \in Nat /\ Len(cq[q]) = Len(cq'[q]) + 1
         /\ Shrunk(cq'[q], cq[q], 1)
         /\ BrokenInv'
  <1>1. cq \in [QPs -> Seq(Wc)]
    BY DEF CoroTypes
  <1>2. cq' = [cq EXCEPT ![q] = Tail(cq[q])] /\ cq[q] # <<>>
    BY DEF Taken
  <1>3. cq[q] \in Seq(Wc)
    BY <1>1
  <1>4. /\ Head(cq[q]) \in Wc /\ cq[q][1] = Head(cq[q]) /\ 1 \in 1 .. Len(cq[q])
        /\ Tail(cq[q]) \in Seq(Wc) /\ Len(Tail(cq[q])) \in Nat
        /\ Len(cq[q]) = Len(Tail(cq[q])) + 1
        /\ \A i \in 1 .. Len(Tail(cq[q])) : Tail(cq[q])[i] = cq[q][i + 1]
    BY <1>2, <1>3
  <1>5. /\ cq'[q] = Tail(cq[q]) /\ \A p \in QPs \ {q} : cq'[p] = cq[p]
        /\ cq' \in [QPs -> Seq(Wc)]
    BY <1>1, <1>2, <1>4
  <1>6. Shrunk(cq'[q], cq[q], 1)
    BY <1>4, <1>5 DEF Shrunk, Skip
  <1>7. BrokenInv'
    <2> SUFFICES ASSUME NEW p \in QPs, NEW i \in 1 .. Len(cq'[p]), cq'[p][i].status # "ok"
                 PROVE  qp_broken' # {}
      BY DEF BrokenInv
    <2>1. CASE p # q
      BY <1>5, <2>1 DEF BrokenInv
    <2>2. CASE p = q
      <3>1. i + 1 \in 1 .. Len(cq[q]) /\ cq'[p][i] = cq[q][i + 1]
        <4>1. PICK m \in Nat : m = Len(Tail(cq[q])) /\ Len(cq[q]) = m + 1
          BY <1>4
        <4>2. i \in 1 .. m /\ cq'[p] = Tail(cq[q])
          BY <1>5, <2>2, <4>1
        <4>3. i + 1 \in 1 .. m + 1
          BY ONLY <4>2, m \in Nat
        <4> QED
          BY <1>4, <4>1, <4>2, <4>3
      <3> QED
        BY <3>1 DEF BrokenInv
    <2> QED
      BY <2>1, <2>2
  <1>8. Head(cq[q]).wr_id \in Coros
    BY <1>4 DEF Wc
  <1> QED
    BY <1>4, <1>5, <1>6, <1>7, <1>8

LEMMA TakeCounts ==
  ASSUME CoroTypes, BrokenInv, NEW q \in QPs, Taken(q), UNCHANGED <<sq, qp_broken>>,
         NEW d \in Coros \ {0}, Owed(d)
  PROVE  /\ IsFiniteSet(SqPlaces(d)') /\ IsFiniteSet(CqPlaces(d)')
         /\ InSq(d) \in Nat /\ InCq(d) \in Nat /\ InSq(d)' = InSq(d)
         /\ d = Head(cq[q]).wr_id => InCq(d)' = InCq(d) + (-1)
         /\ d # Head(cq[q]).wr_id => InCq(d)' = InCq(d)
  <1>0. PICK k : k = 1
    OBVIOUS
  <1>1. /\ cq[q][1] = Head(cq[q]) /\ 1 \in 1 .. Len(cq[q])
        /\ \A p \in QPs \ {q} : cq'[p] = cq[p]
        /\ Shrunk(cq'[q], cq[q], 1)
    BY TakeEffect
  <1>2. PICK Q, R, t : Q = cq_ids /\ R = cq_ids' /\ t = cq'[q]
    OBVIOUS
  <1>3. Len(t) \in Nat /\ Len(cq[q]) = Len(t) + 1 /\ \A i \in 1 .. Len(t) : t[i] = cq[q][Skip(1, i)]
    BY <1>1, <1>2 DEF Shrunk
  <1>4. R[q] = [i \in 1 .. Len(t) |-> t[i].wr_id]
    BY <1>1, <1>2 DEF cq_ids
  <1>5. Len(R[q]) = Len(t) /\ \A i \in 1 .. Len(t) : R[q][i] = t[i].wr_id
    BY <1>3, <1>4
  <1>6. /\ Len(Q[q]) = Len(cq[q])
        /\ \A i \in 1 .. Len(cq[q]) : Q[q][i] = cq[q][i].wr_id
    BY <1>1, <1>2, CqIds
  <1>7. \A i \in 1 .. Len(t) : Skip(1, i) \in 1 .. Len(cq[q])
    BY <1>3 DEF Skip
  <1>8. Shrunk(R[q], Q[q], k)
    <2>1. \A i \in 1 .. Len(t) : R[q][i] = Q[q][Skip(1, i)]
      BY <1>3, <1>5, <1>6, <1>7
    <2> QED
      BY <1>0, <1>1, <1>3, <1>5, <1>6, <2>1 DEF Shrunk
  <1>9. SameBut(q, QPs, R, Q)
    BY <1>1, <1>2 DEF SameBut, cq_ids
  <1>10. /\ IsFiniteSet(SqPlaces(d)) /\ IsFiniteSet(CqPlaces(d))
         /\ InSq(d) \in Nat /\ InCq(d) \in Nat
    BY OwedCounts
  <1>11. CqPlaces(d) = PlacesOn(QPs, Q, d) /\ CqPlaces(d)' = PlacesOn(QPs, R, d)
    BY <1>2 DEF CqPlaces
  <1>12. IsFiniteSet(PlacesOn(QPs, Q, d))
    BY <1>10, <1>11
  <1>13. Q[q][k] = Head(cq[q]).wr_id
    BY <1>0, <1>1, <1>6
  <1>14. /\ IsFiniteSet(PlacesOn(QPs, R, d)) /\ Cardinality(PlacesOn(QPs, R, d)) \in Nat
         /\ Q[q][k] = d => Cardinality(PlacesOn(QPs, Q, d)) = Cardinality(PlacesOn(QPs, R, d)) + 1
         /\ Q[q][k] # d => Cardinality(PlacesOn(QPs, Q, d)) = Cardinality(PlacesOn(QPs, R, d))
    BY ONLY <1>8, <1>9, <1>12, q \in QPs, QueueShrunk
  <1>15. /\ InCq(d)' \in Nat
         /\ d = Head(cq[q]).wr_id => InCq(d) = InCq(d)' + 1
         /\ d # Head(cq[q]).wr_id => InCq(d) = InCq(d)'
    BY <1>11, <1>13, <1>14 DEF InCq
  <1>16. SqPlaces(d)' = SqPlaces(d)
    BY DEF SqPlaces
  <1> QED
    BY <1>10, <1>11, <1>14, <1>15, <1>16 DEF InSq

\* What a blocking call takes was owed to the coroutine whose completion it is.
LEMMA CoroSynced ==
  ASSUME CoroInv, poll_till_completion
  PROVE  CoroInv'
  <1>1. PICK q \in sync_qp : Taken(q) /\ stolen' = [stolen EXCEPT ![Head(cq[q]).wr_id] = @ + 1]
    BY DEF poll_till_completion, Taken
  <1>2. /\ sync_qp' = {}
        /\ UNCHANGED <<ring, pending_counts, pending_qps, poll_it, coro_running, sq, qp_broken,
                       coro_aborted, crossed>>
    BY DEF poll_till_completion
  <1>3. /\ q \in QPs /\ sq \in [QPs -> Seq(Coros)] /\ cq \in [QPs -> Seq(Wc)]
        /\ stolen \in [Coros -> Int] /\ pending_counts \in [Coros -> Int]
        /\ CoroTypes /\ BrokenInv
    BY DEF CoroInv, CoroTypes
  <1>4. /\ cq[q][1] = Head(cq[q]) /\ 1 \in 1 .. Len(cq[q])
        /\ cq' \in [QPs -> Seq(Wc)] /\ \A p \in QPs \ {q} : cq'[p] = cq[p]
        /\ Len(cq'[q]) \in Nat /\ Len(cq[q]) = Len(cq'[q]) + 1 /\ BrokenInv'
    BY <1>1, <1>2, <1>3, TakeEffect
  <1>5. PICK h \in Coros : h = Head(cq[q]).wr_id
    BY <1>1, <1>2, <1>3, TakeEffect
  <1>6. /\ stolen' \in [Coros -> Int] /\ stolen'[h] = stolen[h] + 1
        /\ \A d \in Coros \ {h} : stolen'[d] = stolen[d]
    BY <1>1, <1>3, <1>5
  <1>7. CoroTypes'
    BY <1>2, <1>3, <1>4, <1>6 DEF CoroTypes, ring
  <1>8. RingInv'
    BY <1>2, RingStays DEF CoroInv
  <1> SUFFICES ASSUME ~coro_aborted
               PROVE  CountInv'
    BY <1>2, <1>4, <1>7, <1>8 DEF CoroInv
  <1>9. CountInv /\ sync_qp = {q}
    BY DEF CoroInv, CountInv, SyncInv
  <1>10. SyncInv'
    BY <1>2 DEF SyncInv
  <1>11. StolenInv'
    <2> SUFFICES ASSUME crossed = 0
                 PROVE  \A c \in Coros : stolen'[c] = 0
      BY <1>2 DEF StolenInv
    <2>1. /\ \A i \in 1 .. Len(cq[q]) : cq[q][i].wr_id = coro_running
          /\ \A c \in Coros : stolen[c] = IF c = coro_running THEN -1 ELSE 0
      BY <1>9 DEF CountInv, StolenInv
    <2>2. h = coro_running
      BY <1>4, <1>5, <2>1
    <2> QED
      BY <1>6, <2>1, <2>2
  <1>12. ListInv'
    <2>1. \A p \in QPs : Listed(p)' = Listed(p)
      BY <1>2 DEF Listed
    <2>2. Listed(q)' >= Len(sq'[q]) + Len(cq'[q])
      <3>1. PICK a \in Nat, b \in Nat, l \in Nat :
               a = Len(sq[q]) /\ b = Len(cq'[q]) /\ l = Listed(q)
        BY <1>3, <1>4, ListCounts
      <3>2. Listed(q) + 1 >= Len(sq[q]) + Len(cq[q])
        BY <1>3, <1>9 DEF CountInv, ListInv
      <3>3. l + 1 >= a + (b + 1)
        BY <1>4, <3>1, <3>2
      <3>4. l >= a + b
        BY ONLY <3>3, a \in Nat, b \in Nat, l \in Nat
      <3>5. Listed(q)' = l /\ Len(sq'[q]) = a /\ Len(cq'[q]) = b
        BY <1>2, <1>3, <2>1, <3>1
      <3> QED
        BY <3>4, <3>5
    <2>3. \A p \in QPs \ {q} : Listed(p)' >= Len(sq'[p]) + Len(cq'[p])
      BY <1>2, <1>4, <1>9, <2>1 DEF CountInv, ListInv
    <2> QED
      BY <1>2, <2>2, <2>3 DEF ListInv
  <1>13. ASSUME NEW d \in Coros \ {0}
         PROVE  Owed(d)'
    <2>1. Owed(d) /\ stolen[d] \in Int /\ pending_counts[d] \in Int
      BY <1>3, <1>9 DEF CountInv
    <2>2. /\ IsFiniteSet(SqPlaces(d)') /\ IsFiniteSet(CqPlaces(d)')
          /\ InSq(d) \in Nat /\ InCq(d) \in Nat /\ InSq(d)' = InSq(d)
          /\ d = h => InCq(d)' = InCq(d) + (-1)
          /\ d # h => InCq(d)' = InCq(d)
      BY <1>1, <1>2, <1>3, <1>5, <2>1, TakeCounts
    <2>3. CASE d = h
      <3>1. Shifted(d, 0, -1, 0, 1)
        BY <1>2, <1>6, <2>1, <2>2, <2>3 DEF Shifted
      <3>2. Loose(0, -1, 0, 1) /\ Exact(0, -1, 0, 1)
        BY DEF Loose, Exact
      <3> QED
        BY <1>2, <1>3, <2>1, <2>2, <3>1, <3>2, OwedShifts
    <2>4. CASE d # h
      <3>1. Shifted(d, 0, 0, 0, 0)
        BY <1>2, <1>6, <2>1, <2>2, <2>4 DEF Shifted
      <3>2. Loose(0, 0, 0, 0) /\ Exact(0, 0, 0, 0)
        BY DEF Loose, Exact
      <3> QED
        BY <1>2, <1>3, <2>1, <2>2, <3>1, <3>2, OwedShifts
    <2> QED
      BY <2>3, <2>4
  <1> QED
    BY <1>10, <1>11, <1>12, <1>13 DEF CountInv

\* Completions that PollCompletion takes and does not count: those of coroutine 0
\* and those of a broken queue pair, and the one at which the process aborts.
LEMMA PollQuiet ==
  ASSUME CoroInv, ~coro_aborted, poll_it # 0, PollTake, UNCHANGED <<thread, sq, qp_broken, blocking>>,
         UNCHANGED <<ring, pending_counts, pending_qps>>, poll_it' \in 0 .. Len(pending_qps),
         NEW q, q = pending_qps[poll_it], cq[q] # <<>>,
         Head(cq[q]).wr_id = 0 \/ qp_broken # {} \/ coro_aborted'
  PROVE  CoroInv'
  <1>0. UNCHANGED <<sync_qp, sq, qp_broken, coro_running, crossed, stolen>>
    BY DEF thread, blocking
  <1>1. /\ q \in QPs /\ CoroTypes /\ BrokenInv /\ CountInv /\ sync_qp = {}
        /\ pending_counts \in [Coros -> Int] /\ stolen \in [Coros -> Int]
    BY DEF CoroInv, CoroTypes, CountInv, SyncInv
  <1>2. Taken(q)
    BY DEF Taken, PollTake
  <1>3. /\ cq' \in [QPs -> Seq(Wc)] /\ \A p \in QPs \ {q} : cq'[p] = cq[p]
        /\ Len(cq'[q]) \in Nat /\ Len(cq[q]) = Len(cq'[q]) + 1
        /\ BrokenInv'
    BY <1>0, <1>1, <1>2, TakeEffect
  <1>4. CoroTypes'
    BY <1>0, <1>1, <1>3 DEF CoroTypes, ring
  <1>5. RingInv'
    BY <1>0, RingStays DEF CoroInv
  <1> SUFFICES ASSUME Head(cq[q]).wr_id = 0 \/ qp_broken # {}
               PROVE  CountInv'
    BY <1>3, <1>4, <1>5 DEF CoroInv
  <1>6. SyncInv' /\ StolenInv'
    BY <1>0, <1>1 DEF CountInv, SyncInv, StolenInv
  <1>7. ListInv'
    <2> SUFFICES ASSUME NEW p \in QPs
                 PROVE  Listed(p)' >= Len(sq'[p]) + Len(cq'[p])
      BY <1>0, <1>1 DEF ListInv
    <2>1. Listed(p)' = Listed(p) /\ sq'[p] = sq[p]
      BY <1>0 DEF Listed
    <2>2. Listed(p) >= Len(sq[p]) + Len(cq[p])
      BY <1>1 DEF CountInv, ListInv
    <2>3. PICK l \in Nat, a \in Nat, b \in Nat :
             l = Listed(p) /\ a = Len(sq[p]) /\ b = Len(cq[p]) /\ l >= a + b
      BY <1>1, <2>2, ListCounts
    <2>4. CASE p # q
      BY <1>3, <2>1, <2>3, <2>4
    <2>5. CASE p = q
      <3>1. PICK e \in Nat : e = Len(cq'[p]) /\ b = e + 1
        BY <1>3, <2>3, <2>5
      <3>2. l >= a + b /\ b = e + 1
        BY <2>3, <3>1
      <3>3. l >= a + e
        BY ONLY <3>2, l \in Nat, a \in Nat, e \in Nat
      <3> QED
        BY <2>1, <2>3, <3>1, <3>3
    <2> QED
      BY <2>4, <2>5
  <1>8. ASSUME NEW d \in Coros \ {0}
        PROVE  Owed(d)'
    <2>1. Owed(d) /\ stolen[d] \in Int /\ pending_counts[d] \in Int
      BY <1>1 DEF CountInv
    <2>2. /\ IsFiniteSet(SqPlaces(d)') /\ IsFiniteSet(CqPlaces(d)')
          /\ InSq(d) \in Nat /\ InCq(d) \in Nat /\ InSq(d)' = InSq(d)
          /\ d = Head(cq[q]).wr_id => InCq(d)' = InCq(d) + (-1)
          /\ d # Head(cq[q]).wr_id => InCq(d)' = InCq(d)
      BY <1>0, <1>1, <1>2, <2>1, TakeCounts
    <2>3. CASE d = Head(cq[q]).wr_id
      <3>1. Shifted(d, 0, -1, 0, 0)
        BY <1>0, <2>1, <2>2, <2>3 DEF Shifted
      <3>2. Loose(0, -1, 0, 0)
        BY DEF Loose
      <3>3. qp_broken' # {}
        BY <1>0, <2>3
      <3> QED
        BY <1>1, <2>1, <2>2, <3>1, <3>2, <3>3, OwedShifts
    <2>4. CASE d # Head(cq[q]).wr_id
      <3>1. Shifted(d, 0, 0, 0, 0)
        BY <1>0, <2>1, <2>2, <2>4 DEF Shifted
      <3>2. Loose(0, 0, 0, 0) /\ Exact(0, 0, 0, 0)
        BY DEF Loose, Exact
      <3> QED
        BY <1>0, <1>1, <2>1, <2>2, <3>1, <3>2, OwedShifts
    <2> QED
      BY <2>3, <2>4
  <1> QED
    BY <1>6, <1>7, <1>8 DEF CountInv

LEMMA CutShrunk ==
  ASSUME NEW S, NEW s \in Seq(S), NEW k \in 1 .. Len(s), NEW t,
         t = SubSeq(s, 1, k - 1) \o SubSeq(s, k + 1, Len(s))
  PROVE  t \in Seq(S) /\ Shrunk(t, s, k)
  <1>1. PICK n \in Nat : n = Len(s)
    OBVIOUS
  <1>2. PICK u, v : u = SubSeq(s, 1, k - 1) /\ v = SubSeq(s, k + 1, n)
    OBVIOUS
  <1>3. /\ u \in Seq(S) /\ Len(u) = k - 1
        /\ \A i \in 1 .. k - 1 : u[i] = s[i]
    BY <1>1, <1>2
  <1>4. /\ v \in Seq(S) /\ Len(v) = n - k
        /\ \A i \in 1 .. n - k : v[i] = s[k + i]
    BY <1>1, <1>2
  <1>5. k \in 1 .. n
    BY <1>1
  <1>6. /\ u \o v \in Seq(S) /\ Len(u \o v) = Len(u) + Len(v)
        /\ \A i \in 1 .. Len(u) + Len(v) : (u \o v)[i] = IF i <= Len(u) THEN u[i] ELSE v[i - Len(u)]
    BY <1>3, <1>4, ConcatProperties
  <1>7. t = u \o v /\ Len(u) + Len(v) = n - 1 /\ n - 1 \in Nat /\ n = (n - 1) + 1
    <2>1. t = u \o v /\ Len(u) + Len(v) = (k - 1) + (n - k)
      BY <1>1, <1>2, <1>3, <1>4
    <2>2. k \in Int /\ 1 <= k /\ k <= n
      BY <1>5
    <2>3. (k - 1) + (n - k) = n - 1 /\ n - 1 \in Nat /\ n = (n - 1) + 1
      BY ONLY <2>2, n \in Nat
    <2> QED
      BY <2>1, <2>3
  <1>8. /\ t \in Seq(S) /\ Len(t) = n - 1
        /\ \A i \in 1 .. n - 1 : t[i] = IF i <= k - 1 THEN u[i] ELSE v[i - (k - 1)]
    BY <1>3, <1>6, <1>7
  <1>9. ASSUME NEW i \in 1 .. n - 1
        PROVE  t[i] = s[Skip(k, i)]
    <2>1. CASE i < k
      <3>1. i <= k - 1 /\ i \in 1 .. k - 1 /\ Skip(k, i) = i
        BY <1>5, <2>1 DEF Skip
      <3> QED
        BY <1>3, <1>8, <3>1
    <2>2. CASE i >= k
      <3>1. /\ ~(i <= k - 1) /\ i - (k - 1) \in 1 .. n - k /\ k + (i - (k - 1)) = i + 1
            /\ Skip(k, i) = i + 1
        BY <1>5, <2>2 DEF Skip
      <3> QED
        BY <1>4, <1>8, <3>1
    <2>3. i \in Int /\ k \in Int
      BY <1>5
    <2>4. i < k \/ i >= k
      BY ONLY <2>3
    <2> QED
      BY <2>1, <2>2, <2>4
  <1> QED
    BY <1>1, <1>7, <1>8, <1>9 DEF Shrunk

\* A coroutine whose count reaches zero is in the ring afterwards, and no other
\* joins or leaves it.
LEMMA DoneRing ==
  ASSUME CoroInv, NEW c \in Coros \ {0},
         pending_counts' = [pending_counts EXCEPT ![c] = @ - 1],
         IF pending_counts'[c] = 0 THEN AppendCoroutine(c) ELSE UNCHANGED ring,
         coro_running' = coro_running
  PROVE  /\ RingInv' /\ coro_tail' \in Coros /\ is_wait_poll' = is_wait_poll
         /\ next_coro' \in [Coros -> Coros] /\ prev_coro' \in [Coros -> Coros]
  <1>1. PICK n, w, M : Cycle(n, w, next_coro, prev_coro, coro_tail, M) /\ InRing(M)
    BY DEF CoroInv, RingInv
  <1>2. /\ pending_counts \in [Coros -> Int] /\ is_wait_poll \in [Coros -> BOOLEAN]
        /\ coro_tail \in Coros /\ coro_running \in Coros /\ 0 \in Coros
        /\ next_coro \in [Coros -> Coros] /\ prev_coro \in [Coros -> Coros]
        /\ ~is_wait_poll[coro_running] /\ ~is_wait_poll[0]
    <2>1. 0 \in Coros
      BY CoroAssumption DEF Coros
    <2> QED
      BY <2>1 DEF CoroInv, CoroTypes, RingInv
  <1>3. /\ \A d \in Coros \ {c} : pending_counts'[d] = pending_counts[d]
        /\ pending_counts'[c] = pending_counts[c] - 1 /\ pending_counts[c] \in Int
    BY <1>2
  <1>4. is_wait_poll' = is_wait_poll
    BY DEF AppendCoroutine, ring
  <1>5. \A d \in Coros \ {c} : /\ d \in Ready' <=> d \in Ready
                               /\ d \in Overdrawn' <=> d \in Overdrawn
    BY <1>3, <1>4 DEF Ready, Overdrawn
  <1>6. /\ Ready \subseteq Coros /\ Ready' \subseteq Coros
        /\ Overdrawn \subseteq Coros /\ Overdrawn' \subseteq Coros
    BY DEF Ready, Overdrawn
  <1>7. CASE pending_counts'[c] = 0 /\ is_wait_poll[c]
    <2>1. /\ next_coro' = [next_coro EXCEPT ![coro_tail] = c, ![c] = 0]
          /\ prev_coro' = [prev_coro EXCEPT ![c] = coro_tail]
          /\ coro_tail' = c
      BY <1>7 DEF AppendCoroutine, coro_head
    <2>2. c \notin Ready /\ c \notin Overdrawn /\ c \in Ready'
      BY <1>2, <1>3, <1>4, <1>7 DEF Ready, Overdrawn
    <2>3. c \notin M
      BY <1>1, <2>2 DEF InRing
    <2>4. PICK nx1, pv1 : nx1 = next_coro' /\ pv1 = prev_coro'
      OBVIOUS
    <2>5. Linked(nx1, pv1, next_coro, prev_coro, coro_tail, c)
      BY <2>1, <2>4 DEF Linked
    <2>6. \E m, v : Cycle(m, v, nx1, pv1, c, M \cup {c})
      BY <1>1, <2>3, <2>5, CycleAppend
    <2>7. \E m, v : Cycle(m, v, next_coro', prev_coro', coro_tail', M \cup {c})
      BY <2>1, <2>4, <2>6
    <2>8. InRing(M \cup {c})'
      <3>1. Ready \subseteq M /\ M \subseteq Ready \cup Overdrawn
        BY <1>1 DEF InRing
      <3>2. Ready' \subseteq M \cup {c} /\ M \cup {c} \subseteq Ready' \cup Overdrawn'
        BY <1>5, <1>6, <2>2, <3>1
      <3> QED
        BY <3>2 DEF InRing
    <2>9. RingInv'
      BY <1>2, <1>4, <2>7, <2>8 DEF RingInv
    <2>10. next_coro' \in [Coros -> Coros] /\ prev_coro' \in [Coros -> Coros]
      BY <1>2, <2>1
    <2> QED
      BY <1>4, <2>1, <2>9, <2>10
  <1>8. CASE ~(pending_counts'[c] = 0 /\ is_wait_poll[c])
    <2>1. UNCHANGED <<prev_coro, next_coro, coro_tail>>
      BY <1>8 DEF AppendCoroutine, ring
    <2>2. /\ c \in Ready' => c \in Ready
          /\ c \in Ready => c \in Ready' \/ c \in Overdrawn'
          /\ c \in Overdrawn => c \in Overdrawn'
      <3>1. PICK k \in Int : k = pending_counts[c] /\ pending_counts'[c] = k - 1
        BY <1>3
      <3>2. (k < 0 => k - 1 < 0) /\ (k = 0 => k - 1 < 0)
        BY ONLY k \in Int
      <3> QED
        BY <1>4, <1>8, <3>1, <3>2 DEF Ready, Overdrawn
    <2>3. /\ Ready' \subseteq Ready /\ Ready \subseteq Ready' \cup Overdrawn'
          /\ Overdrawn \subseteq Ready' \cup Overdrawn'
      BY <1>5, <1>6, <2>2
    <2>4. RingInv'
      BY <1>2, <1>4, <2>1, <2>3, RingSame DEF CoroInv
    <2> QED
      BY <1>2, <1>4, <2>1, <2>4
  <1> QED
    BY <1>7, <1>8

LEMMA CoroDone ==
  ASSUME CoroInv, ~coro_aborted, poll_it # 0, UNCHANGED <<thread, sq, qp_broken, blocking>>,
         NEW q, q = pending_qps[poll_it], cq[q] # <<>>,
         NEW c, c = Head(cq[q]).wr_id, c # 0, PollDone(c)
  PROVE  CoroInv'
  <1>1. UNCHANGED <<sync_qp, sq, qp_broken, coro_running, crossed, stolen, coro_aborted>>
    BY DEF thread, blocking, PollDone
  <1>2. /\ PollTake
        /\ pending_counts' = [pending_counts EXCEPT ![c] = @ - 1]
        /\ IF pending_counts'[c] = 0 THEN AppendCoroutine(c) ELSE UNCHANGED ring
        /\ pending_qps' = SubSeq(pending_qps, 1, poll_it - 1)
                          \o SubSeq(pending_qps, poll_it + 1, Len(pending_qps))
        /\ poll_it' = After(poll_it, pending_qps')
    BY DEF PollDone
  <1>3. /\ q \in QPs /\ CoroTypes /\ BrokenInv /\ CountInv /\ sync_qp = {}
        /\ pending_counts \in [Coros -> Int] /\ stolen \in [Coros -> Int]
        /\ pending_qps \in Seq(QPs) /\ poll_it \in 1 .. Len(pending_qps)
    <2>1. CoroTypes /\ BrokenInv /\ CountInv /\ sync_qp = {}
      BY DEF CoroInv, CountInv, SyncInv
    <2>2. /\ pending_counts \in [Coros -> Int] /\ stolen \in [Coros -> Int]
          /\ pending_qps \in Seq(QPs) /\ poll_it \in 1 .. Len(pending_qps)
      BY <2>1 DEF CoroTypes
    <2> QED
      BY <2>1, <2>2
  <1>4. Taken(q)
    BY <1>2 DEF Taken, PollTake
  <1>5. /\ cq' \in [QPs -> Seq(Wc)] /\ \A p \in QPs \ {q} : cq'[p] = cq[p]
        /\ Len(cq'[q]) \in Nat /\ Len(cq[q]) = Len(cq'[q]) + 1
        /\ BrokenInv' /\ c \in Coros \ {0}
    BY <1>1, <1>3, <1>4, TakeEffect
  <1>6. /\ pending_counts' \in [Coros -> Int] /\ pending_counts'[c] = pending_counts[c] + (-1)
        /\ \A d \in Coros \ {c} : pending_counts'[d] = pending_counts[d]
    BY <1>2, <1>3, <1>5
  <1>7. /\ RingInv' /\ coro_tail' \in Coros /\ is_wait_poll' = is_wait_poll
        /\ next_coro' \in [Coros -> Coros] /\ prev_coro' \in [Coros -> Coros]
    BY <1>1, <1>2, <1>5, DoneRing
  <1>8. pending_qps' \in Seq(QPs) /\ Shrunk(pending_qps', pending_qps, poll_it)
    BY <1>2, <1>3, CutShrunk
  <1>9. poll_it' \in 0 .. Len(pending_qps')
    <2>1. PICK m, n \in Nat : m = Len(pending_qps') /\ n = Len(pending_qps)
      BY <1>3, <1>8
    <2>2. poll_it' = (IF poll_it <= m THEN poll_it ELSE 0) /\ poll_it \in 1 .. n
      BY <1>2, <1>3, <2>1 DEF After
    <2>3. poll_it' \in 0 .. m
      BY <2>2
    <2> QED
      BY <2>1, <2>3
  <1>10. CoroTypes'
    BY <1>1, <1>3, <1>5, <1>6, <1>7, <1>8, <1>9 DEF CoroTypes
  <1>11. SyncInv' /\ StolenInv'
    BY <1>1, <1>3 DEF CountInv, SyncInv, StolenInv
  <1>12. ListInv'
    <2> SUFFICES ASSUME NEW p \in QPs
                 PROVE  Listed(p)' >= Len(sq'[p]) + Len(cq'[p])
      BY <1>1, <1>3 DEF ListInv
    <2>1. PICK t : t = pending_qps'
      OBVIOUS
    <2>2. /\ q = p => Cardinality(Hits(pending_qps, p)) = Cardinality(Hits(t, p)) + 1
          /\ q # p => Cardinality(Hits(pending_qps, p)) = Cardinality(Hits(t, p))
      BY <1>8, <2>1, HitsShrunk
    <2>3. Listed(p)' = Cardinality(Hits(t, p)) /\ Listed(p) = Cardinality(Hits(pending_qps, p))
      BY <2>1 DEF Listed, Hits
    <2>4. Cardinality(Hits(t, p)) \in Nat
      BY <1>8, <2>1, HitsFinite
    <2>5. Listed(p) >= Len(sq[p]) + Len(cq[p])
      BY <1>3 DEF CountInv, ListInv
    <2>6. PICK l \in Nat, k \in Nat, a \in Nat, b \in Nat :
             /\ l = Listed(p) /\ k = Listed(p)' /\ a = Len(sq[p]) /\ b = Len(cq[p])
             /\ l >= a + b
      BY <1>3, <2>3, <2>4, <2>5, ListCounts
    <2>7. CASE p # q
      <3>1. k = l /\ Len(sq'[p]) = a /\ Len(cq'[p]) = b
        BY <1>1, <1>5, <2>2, <2>3, <2>6, <2>7
      <3> QED
        BY <2>6, <3>1
    <2>8. CASE p = q
      <3>1. PICK e \in Nat : e = Len(cq'[p]) /\ b = e + 1
        BY <1>5, <2>6, <2>8
      <3>2. l = k + 1 /\ Len(sq'[p]) = a
        BY <1>1, <2>2, <2>3, <2>6, <2>8
      <3>3. l >= a + b /\ b = e + 1 /\ l = k + 1
        BY <2>6, <3>1, <3>2
      <3>4. k >= a + e
        BY ONLY <3>3, k \in Nat, a \in Nat, e \in Nat
      <3> QED
        BY <2>6, <3>1, <3>2, <3>4
    <2> QED
      BY <2>7, <2>8
  <1>13. ASSUME NEW d \in Coros \ {0}
         PROVE  Owed(d)'
    <2>1. Owed(d) /\ stolen[d] \in Int /\ pending_counts[d] \in Int
      BY <1>3 DEF CountInv
    <2>2. /\ IsFiniteSet(SqPlaces(d)') /\ IsFiniteSet(CqPlaces(d)')
          /\ InSq(d) \in Nat /\ InCq(d) \in Nat /\ InSq(d)' = InSq(d)
          /\ d = c => InCq(d)' = InCq(d) + (-1)
          /\ d # c => InCq(d)' = InCq(d)
      BY <1>1, <1>3, <1>4, <2>1, TakeCounts
    <2>3. CASE d = c
      <3>1. Shifted(d, 0, -1, -1, 0)
        BY <1>1, <1>6, <2>1, <2>2, <2>3 DEF Shifted
      <3>2. Loose(0, -1, -1, 0) /\ Exact(0, -1, -1, 0)
        BY DEF Loose, Exact
      <3> QED
        BY <1>1, <1>3, <2>1, <2>2, <3>1, <3>2, OwedShifts
    <2>4. CASE d # c
      <3>1. Shifted(d, 0, 0, 0, 0)
        BY <1>1, <1>6, <2>1, <2>2, <2>4 DEF Shifted
      <3>2. Loose(0, 0, 0, 0) /\ Exact(0, 0, 0, 0)
        BY DEF Loose, Exact
      <3> QED
        BY <1>1, <1>3, <2>1, <2>2, <3>1, <3>2, OwedShifts
    <2> QED
      BY <2>3, <2>4
  <1> QED
    BY <1>5, <1>7, <1>10, <1>11, <1>12, <1>13 DEF CoroInv, CountInv

LEMMA CoroPoll ==
  ASSUME CoroInv, PollCompletion
  PROVE  CoroInv'
  <1>1. PICK q : q = pending_qps[poll_it]
    OBVIOUS
  <1>2. poll_it # 0 /\ ~coro_aborted /\ UNCHANGED <<thread, sq, qp_broken, blocking>>
    BY DEF PollCompletion
  <1>3. poll_it \in 1 .. Len(pending_qps) /\ Len(pending_qps) \in Nat /\ q \in QPs
    BY <1>1, <1>2 DEF CoroInv, CoroTypes
  <1>4. After(poll_it + 1, pending_qps) \in 0 .. Len(pending_qps)
    BY <1>3 DEF After
  <1>5. CASE PollEmpty
    <2>1. /\ poll_it' \in 0 .. Len(pending_qps)
          /\ UNCHANGED <<ring, pending_counts, pending_qps, coro_running, sync_qp, nic,
                         coro_aborted, blocking>>
      BY <1>2, <1>4, <1>5 DEF PollEmpty, thread, nic
    <2>2. sync_qp = {} /\ CountInv /\ BrokenInv
      BY <1>2 DEF CoroInv, CountInv, SyncInv
    <2>3. RingInv'
      BY <2>1, RingStays DEF CoroInv
    <2>4. CoroTypes'
      BY <2>1, <2>2 DEF CoroInv, CoroTypes, ring, nic, blocking
    <2>5. CountInv' /\ BrokenInv'
      BY <2>1, <2>2, CountsSame
    <2> QED
      BY <2>3, <2>4, <2>5 DEF CoroInv
  <1>6. ASSUME cq[q] # <<>>, NEW wc, wc = Head(cq[q]), wc.status # "ok"
        PROVE  qp_broken # {}
    <2>1. cq[q] \in Seq(Wc)
      BY <1>3 DEF CoroInv, CoroTypes
    <2>2. 1 \in 1 .. Len(cq[q]) /\ cq[q][1] = wc
      BY <1>6, <2>1
    <2> QED
      BY <1>3, <1>6, <2>2 DEF CoroInv, BrokenInv
  <1>7. ASSUME cq[q] # <<>>, NEW wc, wc = Head(cq[q]),
               \/ wc.status = "retry_exc" /\ PollRetryExc
               \/ PollAbort
               \/ wc.status = "ok" /\ wc.wr_id = 0 /\ PollZero
        PROVE  CoroInv'
    <2>1. wc.wr_id = 0 \/ qp_broken # {} \/ coro_aborted'
      BY <1>6, <1>7 DEF PollAbort
    <2>2. /\ PollTake /\ UNCHANGED <<ring, pending_counts, pending_qps>>
          /\ poll_it' \in 0 .. Len(pending_qps)
      BY <1>3, <1>4, <1>7 DEF PollRetryExc, PollAbort, PollZero
    <2> QED
      BY <1>1, <1>2, <1>7, <2>1, <2>2, PollQuiet
  <1>8. ASSUME cq[q] # <<>>, NEW wc, wc = Head(cq[q]), wc.wr_id # 0, PollDone(wc.wr_id)
        PROVE  CoroInv'
    BY <1>1, <1>2, <1>8, CoroDone
  <1> QED
    BY <1>1, <1>5, <1>7, <1>8 DEF PollCompletion, PollAssert

\* A completion moves from a queue pair's operations behind its completions.
LEMMA CompleteEffect ==
  ASSUME CoroInv, NEW q \in QPs, nic_complete(q)
  PROVE  /\ sq' \in [QPs -> Seq(Coros)] /\ cq' \in [QPs -> Seq(Wc)]
         /\ \A p \in QPs \ {q} : sq'[p] = sq[p] /\ cq'[p] = cq[p]
         /\ Shrunk(sq'[q], sq[q], 1) /\ sq[q][1] = Head(sq[q]) /\ 1 \in 1 .. Len(sq[q])
         /\ \E st \in {"ok", "retry_exc", "flushed"} :
               /\ Grown(cq'[q], cq[q], [wr_id |-> Head(sq[q]), status |-> st])
               /\ st # "ok" => qp_broken' # {}
         /\ qp_broken \subseteq qp_broken'
         /\ UNCHANGED <<ring, pending_counts, pending_qps, poll_it, coro_running, sync_qp,
                        coro_aborted, crossed, stolen>>
  <1>1. sq \in [QPs -> Seq(Coros)] /\ cq \in [QPs -> Seq(Wc)]
    BY DEF CoroInv, CoroTypes
  <1>2. PICK st \in {"ok", "retry_exc", "flushed"} :
           /\ st = "flushed" <=> q \in qp_broken
           /\ qp_broken' = IF st = "retry_exc" THEN qp_broken \cup {q} ELSE qp_broken
           /\ cq' = [cq EXCEPT ![q] = Append(@, [wr_id |-> Head(sq[q]), status |-> st])]
    BY DEF nic_complete
  <1>3. sq[q] # <<>> /\ sq' = [sq EXCEPT ![q] = Tail(@)]
    BY DEF nic_complete
  <1>4. sq[q] \in Seq(Coros) /\ cq[q] \in Seq(Wc)
    BY <1>1
  <1>5. /\ Head(sq[q]) \in Coros /\ sq[q][1] = Head(sq[q]) /\ 1 \in 1 .. Len(sq[q])
        /\ Tail(sq[q]) \in Seq(Coros) /\ Len(Tail(sq[q])) \in Nat
        /\ Len(sq[q]) = Len(Tail(sq[q])) + 1
        /\ \A i \in 1 .. Len(Tail(sq[q])) : Tail(sq[q])[i] = sq[q][i + 1]
    BY <1>3, <1>4
  <1>6. /\ sq'[q] = Tail(sq[q]) /\ \A p \in QPs \ {q} : sq'[p] = sq[p]
        /\ sq' \in [QPs -> Seq(Coros)]
    BY <1>1, <1>3, <1>5
  <1>7. Shrunk(sq'[q], sq[q], 1)
    BY <1>5, <1>6 DEF Shrunk, Skip
  <1>8. PICK e \in Wc : e = [wr_id |-> Head(sq[q]), status |-> st]
    BY <1>5 DEF Wc
  <1>9. /\ cq'[q] = Append(cq[q], e) /\ \A p \in QPs \ {q} : cq'[p] = cq[p]
        /\ cq' \in [QPs -> Seq(Wc)]
    BY <1>1, <1>2, <1>4, <1>8
  <1>10. Grown(cq'[q], cq[q], e)
    BY <1>4, <1>9 DEF Grown
  <1>11. (st # "ok" => qp_broken' # {}) /\ qp_broken \subseteq qp_broken'
    BY <1>2
  <1>12. UNCHANGED <<ring, pending_counts, pending_qps, poll_it, coro_running, sync_qp,
                     coro_aborted, crossed, stolen>>
    BY DEF nic_complete, thread, blocking
  <1> QED
    BY <1>5, <1>6, <1>7, <1>8, <1>9, <1>10, <1>11, <1>12

\* The completion takes its operation's place in the count.
LEMMA CompleteCounts ==
  ASSUME CoroInv, NEW q \in QPs, nic_complete(q), NEW d \in Coros \ {0}, Owed(d)
  PROVE  /\ IsFiniteSet(SqPlaces(d)') /\ IsFiniteSet(CqPlaces(d)')
         /\ InSq(d)' + InCq(d)' = InSq(d) + InCq(d)
         /\ InSq(d)' \in Nat /\ InCq(d)' \in Nat
  <1>0. PICK k : k = 1
    OBVIOUS
  <1>1. /\ \A p \in QPs \ {q} : sq'[p] = sq[p] /\ cq'[p] = cq[p]
        /\ Shrunk(sq'[q], sq[q], 1) /\ sq[q][1] = Head(sq[q]) /\ CoroTypes
    BY CompleteEffect DEF CoroInv
  <1>2. PICK e : e.wr_id = Head(sq[q]) /\ Grown(cq'[q], cq[q], e)
    BY CompleteEffect
  <1>3. PICK Q, R, W, V, t, h : /\ Q = cq_ids /\ R = cq_ids' /\ W = sq /\ V = sq' /\ t = cq'[q]
                                /\ h = Head(sq[q])
    OBVIOUS
  <1>4. SameBut(q, QPs, R, Q) /\ SameBut(q, QPs, V, W)
    BY <1>1, <1>3 DEF SameBut, cq_ids
  <1>5. /\ Len(cq[q]) \in Nat /\ Len(t) = Len(cq[q]) + 1 /\ t[Len(t)] = e
        /\ \A i \in 1 .. Len(cq[q]) : t[i] = cq[q][i]
    BY <1>2, <1>3 DEF Grown
  <1>6. R[q] = [i \in 1 .. Len(t) |-> t[i].wr_id]
    BY <1>3 DEF cq_ids
  <1>7. Len(R[q]) = Len(t) /\ \A i \in 1 .. Len(t) : R[q][i] = t[i].wr_id
    BY <1>5, <1>6
  <1>8. /\ Len(Q[q]) = Len(cq[q])
        /\ \A i \in 1 .. Len(cq[q]) : Q[q][i] = cq[q][i].wr_id
    BY <1>1, <1>3, CqIds
  <1>9. Grown(R[q], Q[q], h)
    <2>1. PICK m \in Nat : m = Len(cq[q]) /\ Len(t) = m + 1
      BY <1>5
    <2>2. m + 1 \in 1 .. m + 1 /\ \A i \in 1 .. m : i \in 1 .. m + 1
      BY ONLY m \in Nat
    <2>3. R[q][m + 1] = h
      BY <1>2, <1>3, <1>5, <1>7, <2>1, <2>2
    <2>4. \A i \in 1 .. m : R[q][i] = Q[q][i]
      BY <1>5, <1>7, <1>8, <2>1, <2>2
    <2> QED
      BY <1>7, <1>8, <2>1, <2>3, <2>4 DEF Grown
  <1>10. Shrunk(V[q], W[q], k) /\ W[q][k] = h
    BY <1>0, <1>1, <1>3
  <1>11. /\ IsFiniteSet(SqPlaces(d)) /\ IsFiniteSet(CqPlaces(d))
         /\ InSq(d) \in Nat /\ InCq(d) \in Nat
    BY <1>1, OwedCounts
  <1>12. /\ SqPlaces(d) = PlacesOn(QPs, W, d) /\ SqPlaces(d)' = PlacesOn(QPs, V, d)
         /\ CqPlaces(d) = PlacesOn(QPs, Q, d) /\ CqPlaces(d)' = PlacesOn(QPs, R, d)
    BY <1>3 DEF SqPlaces, CqPlaces
  <1>13. IsFiniteSet(PlacesOn(QPs, W, d)) /\ IsFiniteSet(PlacesOn(QPs, Q, d))
    BY <1>11, <1>12
  <1>14. /\ IsFiniteSet(PlacesOn(QPs, R, d)) /\ Cardinality(PlacesOn(QPs, R, d)) \in Nat
         /\ h = d => Cardinality(PlacesOn(QPs, R, d)) = Cardinality(PlacesOn(QPs, Q, d)) + 1
         /\ h # d => Cardinality(PlacesOn(QPs, R, d)) = Cardinality(PlacesOn(QPs, Q, d))
    BY ONLY <1>4, <1>9, <1>13, q \in QPs, QueueGrown
  <1>15. /\ IsFiniteSet(PlacesOn(QPs, V, d)) /\ Cardinality(PlacesOn(QPs, V, d)) \in Nat
         /\ W[q][k] = d => Cardinality(PlacesOn(QPs, W, d)) = Cardinality(PlacesOn(QPs, V, d)) + 1
         /\ W[q][k] # d => Cardinality(PlacesOn(QPs, W, d)) = Cardinality(PlacesOn(QPs, V, d))
    <2>1. /\ SameBut(q, QPs, V, W) /\ Shrunk(V[q], W[q], k) /\ q \in QPs
          /\ IsFiniteSet(PlacesOn(QPs, W, d))
      BY <1>4, <1>10, <1>13
    <2> QED
      BY ONLY <2>1, QueueShrunk
  <1>16. PICK a \in Nat, b \in Nat, a1 \in Nat, b1 \in Nat :
            /\ a = InSq(d) /\ b = InCq(d) /\ a1 = InSq(d)' /\ b1 = InCq(d)'
    BY <1>11, <1>12, <1>14, <1>15 DEF InSq, InCq
  <1>17. /\ h = d => b1 = b + 1 /\ a = a1 + 1
         /\ h # d => b1 = b /\ a = a1
    BY <1>10, <1>12, <1>14, <1>15, <1>16 DEF InSq, InCq
  <1>18. a1 + b1 = a + b
    BY ONLY <1>17, a \in Nat, b \in Nat, a1 \in Nat, b1 \in Nat
  <1> QED
    BY <1>12, <1>14, <1>15, <1>16, <1>18

LEMMA CoroComplete ==
  ASSUME CoroInv, NEW q \in QPs, nic_complete(q)
  PROVE  CoroInv'
  <1>1. /\ sq' \in [QPs -> Seq(Coros)] /\ cq' \in [QPs -> Seq(Wc)]
        /\ \A p \in QPs \ {q} : sq'[p] = sq[p] /\ cq'[p] = cq[p]
        /\ Shrunk(sq'[q], sq[q], 1) /\ sq[q][1] = Head(sq[q]) /\ 1 \in 1 .. Len(sq[q])
        /\ qp_broken \subseteq qp_broken'
        /\ UNCHANGED <<ring, pending_counts, pending_qps, poll_it, coro_running, sync_qp,
                       coro_aborted, crossed, stolen>>
    BY CompleteEffect
  <1>2. PICK e : /\ Grown(cq'[q], cq[q], e) /\ (e.status # "ok" => qp_broken' # {})
                 /\ e.wr_id = Head(sq[q])
    <2>1. PICK st : /\ Grown(cq'[q], cq[q], [wr_id |-> Head(sq[q]), status |-> st])
                    /\ st # "ok" => qp_broken' # {}
      BY CompleteEffect
    <2>2. /\ [wr_id |-> Head(sq[q]), status |-> st].status = st
          /\ [wr_id |-> Head(sq[q]), status |-> st].wr_id = Head(sq[q])
      OBVIOUS
    <2> QED
      BY <2>1, <2>2
  <1>3. CoroTypes'
    BY <1>1 DEF CoroInv, CoroTypes, ring
  <1>4. RingInv'
    BY <1>1, RingStays DEF CoroInv
  <1>5. BrokenInv'
    <2> SUFFICES ASSUME NEW p \in QPs, NEW i \in 1 .. Len(cq'[p]), cq'[p][i].status # "ok"
                 PROVE  qp_broken' # {}
      BY DEF BrokenInv
    <2>1. CASE p # q
      BY <1>1, <2>1 DEF CoroInv, BrokenInv
    <2>2. CASE p = q
      <3>1. PICK m \in Nat : m = Len(cq[q]) /\ Len(cq'[q]) = m + 1
        BY <1>2 DEF Grown
      <3>2. i \in 1 .. m + 1
        BY <2>2, <3>1
      <3>3. i = m + 1 \/ i \in 1 .. m
        BY ONLY <3>2, m \in Nat
      <3>4. CASE i = m + 1
        BY <1>2, <2>2, <3>1, <3>4 DEF Grown
      <3>5. CASE i \in 1 .. m
        <4>1. cq'[q][i] = cq[q][i] /\ i \in 1 .. Len(cq[q])
          BY <1>2, <3>1, <3>5 DEF Grown
        <4>2. qp_broken # {}
          BY <2>2, <4>1 DEF CoroInv, BrokenInv
        <4> QED
          BY <1>1, <4>2
      <3> QED
        BY <3>3, <3>4, <3>5
    <2> QED
      BY <2>1, <2>2
  <1>6. ASSUME NEW p \in QPs
        PROVE  Len(sq'[p]) + Len(cq'[p]) = Len(sq[p]) + Len(cq[p])
    <2>1. CASE p # q
      BY <1>1, <2>1
    <2>2. CASE p = q
      <3>1. PICK a \in Nat, b \in Nat : a = Len(sq'[p]) /\ b = Len(cq[p])
        BY <1>1, <1>2, <2>2 DEF Shrunk, Grown
      <3>2. Len(sq[p]) = a + 1 /\ Len(cq'[p]) = b + 1
        BY <1>1, <1>2, <2>2, <3>1 DEF Shrunk, Grown
      <3>3. a + (b + 1) = (a + 1) + b
        BY ONLY a \in Nat, b \in Nat
      <3> QED
        BY <3>1, <3>2, <3>3
    <2> QED
      BY <2>1, <2>2
  <1> SUFFICES ASSUME ~coro_aborted
               PROVE  CountInv'
    BY <1>1, <1>3, <1>4, <1>5 DEF CoroInv
  <1>7. CountInv /\ CoroTypes
    BY DEF CoroInv
  <1>8. SyncInv'
    BY <1>1, <1>7 DEF CountInv, SyncInv
  <1>9. StolenInv'
    <2> SUFFICES ASSUME crossed = 0, NEW p \in sync_qp
                 PROVE  /\ Len(sq'[p]) + Len(cq'[p]) = 1
                        /\ \A i \in 1 .. Len(sq'[p]) : sq'[p][i] = coro_running
                        /\ \A i \in 1 .. Len(cq'[p]) : cq'[p][i].wr_id = coro_running
      BY <1>1, <1>7 DEF StolenInv, CountInv
    <2>1. /\ Len(sq[p]) + Len(cq[p]) = 1 /\ p \in QPs
          /\ \A i \in 1 .. Len(sq[p]) : sq[p][i] = coro_running
          /\ \A i \in 1 .. Len(cq[p]) : cq[p][i].wr_id = coro_running
      BY <1>7 DEF StolenInv, CountInv, CoroTypes
    <2>2. CASE p # q
      BY <1>1, <2>1, <2>2
    <2>3. CASE p = q
      <3>1. PICK a \in Nat, b \in Nat : a = Len(sq'[p]) /\ b = Len(cq[p])
        BY <1>1, <1>2, <2>3 DEF Shrunk, Grown
      <3>2. Len(sq[p]) = a + 1 /\ Len(cq'[p]) = b + 1
        BY <1>1, <1>2, <2>3, <3>1 DEF Shrunk, Grown
      <3>3. (a + 1) + b = 1
        BY <2>1, <3>1, <3>2
      <3>4. a = 0 /\ b = 0
        BY ONLY <3>3, a \in Nat, b \in Nat
      <3>5. cq'[p][1] = e /\ e.wr_id = coro_running
        BY <1>1, <1>2, <2>1, <2>3, <3>1, <3>2, <3>4 DEF Grown
      <3>6. Len(sq'[p]) = 0 /\ Len(cq'[p]) = 1
        BY <3>1, <3>2, <3>4
      <3> QED
        BY <3>5, <3>6
    <2> QED
      BY <2>2, <2>3
  <1>10. ListInv'
    <2>1. \A p \in QPs : Listed(p)' = Listed(p)
      BY <1>1 DEF Listed
    <2> QED
      BY <1>1, <1>6, <1>7, <2>1 DEF CountInv, ListInv
  <1>11. ASSUME NEW d \in Coros \ {0}
         PROVE  Owed(d)'
    <2>1. Owed(d)
      BY <1>7 DEF CountInv
    <2>2. /\ IsFiniteSet(SqPlaces(d)') /\ IsFiniteSet(CqPlaces(d)')
          /\ InSq(d)' + InCq(d)' = InSq(d) + InCq(d)
      BY <2>1, CompleteCounts
    <2>3. /\ qp_broken = {} => pending_counts[d] = (InSq(d) + InCq(d)) + stolen[d]
          /\ pending_counts[d] >= (InSq(d) + InCq(d)) + stolen[d]
      BY <1>7, <2>1, OwedCounts
    <2>4. /\ qp_broken' = {} => pending_counts'[d] = (InSq(d)' + InCq(d)') + stolen'[d]
          /\ pending_counts'[d] >= (InSq(d)' + InCq(d)') + stolen'[d]
      BY <1>1, <2>2, <2>3
    <2> QED
      BY <2>2, <2>4 DEF Owed
  <1> QED
    BY <1>8, <1>9, <1>10, <1>11 DEF CountInv

LEMMA CoroStep == CoroInv /\ [CoroNext]_corovars => CoroInv'
  <1> SUFFICES ASSUME CoroInv, [CoroNext]_corovars
               PROVE  CoroInv'
    OBVIOUS
  <1>1. ASSUME NEW c \in Coros, NEW q \in QPs, RDMAOp(c, q) \/ RDMASync(c, q)
        PROVE  CoroInv'
    BY <1>1, CoroOp, CoroSync
  <1>2. ASSUME NEW c \in Coros, Yield(c)
        PROVE  CoroInv'
    BY <1>2, CoroYield
  <1>3. CASE poll_till_completion \/ PollStart \/ PollCompletion \/ RunCoroutine
    BY <1>3, CoroSynced, CoroPollStart, CoroPoll, CoroRun
  <1>4. ASSUME NEW q \in QPs, nic_complete(q)
        PROVE  CoroInv'
    BY <1>4, CoroComplete
  <1>5. CASE UNCHANGED corovars
    <2>1. /\ UNCHANGED <<ring, pending_counts, pending_qps, poll_it, coro_running, sync_qp, nic,
                         coro_aborted, blocking>>
      BY <1>5 DEF corovars, ring, nic, blocking
    <2>2. RingInv'
      BY <2>1, RingStays DEF CoroInv
    <2>3. CoroTypes'
      BY <2>1 DEF CoroInv, CoroTypes, ring, nic, blocking
    <2>4. BrokenInv'
      BY <2>1 DEF CoroInv, BrokenInv, nic
    <2>5. ~coro_aborted => CountInv'
      BY <2>1, CountsSame DEF CoroInv, CountInv, SyncInv
    <2> QED
      BY <2>1, <2>2, <2>3, <2>4, <2>5 DEF CoroInv
  <1> QED
    BY <1>1, <1>2, <1>3, <1>4, <1>5 DEF CoroNext, CoroThread

\* The ring stays one cycle through the head that ends in the tail and holds
\* exactly the coroutines that can run, one whose count is below zero apart, for
\* every number of coroutines and of queue pairs, and whatever completions
\* blocking calls take.
THEOREM RingHolds == CoroSpec => []RingWellFormed
  <1>1. CoroInit => CoroInv
    BY CoroInitInv
  <1>2. CoroInv /\ [CoroNext]_corovars => CoroInv'
    BY CoroStep
  <1>3. CoroInv => RingWellFormed
    BY CoroInvImplies
  <1> QED
    BY <1>1, <1>2, <1>3, PTL DEF CoroSpec

\* A coroutine's pending count is what it still waits for, the completions that
\* blocking calls took included, and is exact as long as no blocking call shares
\* its queue pair; and each queue pair is listed for polling as often as it has
\* completions to come.
THEOREM PendingCountsHold == CoroSpec => []PendingAgree
  <1>1. CoroInit => CoroInv
    BY CoroInitInv
  <1>2. CoroInv /\ [CoroNext]_corovars => CoroInv'
    BY CoroStep
  <1>3. CoroInv => PendingAgree
    BY CoroInvImplies
  <1> QED
    BY <1>1, <1>2, <1>3, PTL DEF CoroSpec
=============================================================================
