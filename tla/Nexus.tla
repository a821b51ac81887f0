-------------------------------- MODULE Nexus --------------------------------
(***************************************************************************)
(* The Nexus of a process: its background threads, its session management  *)
(* thread, the hooks of the Rpc objects, the table of request handlers and *)
(* the thread ids of TlsRegistry, from construction to destruction.  Each  *)
(* foreground thread creates one Rpc, serves it and destroys it.           *)
(***************************************************************************)
EXTENDS Integers, Sequences, FiniteSets

CONSTANTS num_bg_threads,
          num_fg_threads,
          Handlers,        \* request types that the application registers
          SameRpcId,       \* do the foreground threads ask for the same Rpc id?
          MaxWork          \* bound on the work items that are submitted

ASSUME NexusAssumption ==
    /\ num_bg_threads \in Nat \ {0} /\ num_fg_threads \in Nat \ {0}
    /\ SameRpcId \in BOOLEAN /\ MaxWork \in Nat

Bg == 0 .. num_bg_threads - 1
Fg == num_bg_threads .. num_bg_threads + num_fg_threads - 1
NoThread == -1
rpc_id(f) == IF SameRpcId THEN 0 ELSE f
RpcIds == {rpc_id(f) : f \in Fg}

VARIABLES nx_pc,         \* the thread that owns the Nexus
          nx_i,          \* its loop counter, while it launches or joins
          kill_switch,
          cur_etid,      \* cur_etid_
          etid,          \* each thread's etid, or NoThread
          bg_pc, bg_cur, \* background threads; the item each one runs
          bg_req_queue,
          req_func_arr, registration_allowed,
          hook_arr,      \* reg_hooks_arr_: the thread whose hook it is
          hooks_lock,    \* reg_hooks_lock_ is held by the SM thread
          rpc_pc,        \* each foreground thread's Rpc
          rpc_funcs,     \* its copy of req_func_arr_
          sm_pc, sm_hook,\* SM thread; the target_hook it holds
          rpc_req_q, rpc_resp_q, \* bg_queues_ of each Rpc
          in_flight,     \* requests of background threads without a response
          work_submitted,
          work_open,     \* per foreground thread: work of its Rpcs not finished
          work_lost,     \* the part of it that can no longer be finished
          died_busy,     \* threads that destroyed an Rpc with work unfinished
          cont_moved     \* a continuation ran on another thread

nxvars == <<nx_pc, nx_i, kill_switch, cur_etid, etid, bg_pc, bg_cur, bg_req_queue,
            req_func_arr, registration_allowed, hook_arr, hooks_lock, rpc_pc, rpc_funcs,
            sm_pc, sm_hook, rpc_req_q, rpc_resp_q, in_flight, work_submitted, work_open,
            work_lost, died_busy, cont_moved>>
main == <<nx_pc, nx_i, kill_switch>>
tls == <<cur_etid, etid>>
bg == <<bg_pc, bg_cur, bg_req_queue>>
table == <<req_func_arr, registration_allowed>>
hookvars == <<hook_arr, hooks_lock, rpc_pc, rpc_funcs>>
sm == <<sm_pc, sm_hook>>
rpcqs == <<rpc_req_q, rpc_resp_q, in_flight>>
lost == <<work_lost, died_busy>>
work == <<rpcqs, work_submitted, work_open, lost, cont_moved>>

NexusStart ==
    [bg_pc |-> [b \in Bg |-> "off"], etid |-> [t \in Bg \cup Fg |-> NoThread],
     none |-> [f \in Fg |-> "none"], nofuncs |-> [f \in Fg |-> {}],
     hooks |-> [r \in RpcIds |-> NoThread],
     bgq |-> [b \in Bg |-> <<>>], fgq |-> [f \in Fg |-> <<>>],
     nowork |-> [f \in Fg |-> 0]]

NexusInit ==
    /\ nx_pc = "launch" /\ nx_i = 0 /\ kill_switch = FALSE
    /\ cur_etid = 0 /\ etid = NexusStart.etid
    /\ bg_pc = NexusStart.bg_pc /\ bg_cur = NexusStart.bgq /\ bg_req_queue = NexusStart.bgq
    /\ req_func_arr = {} /\ registration_allowed = TRUE
    /\ hook_arr = NexusStart.hooks /\ hooks_lock = FALSE
    /\ rpc_pc = NexusStart.none /\ rpc_funcs = NexusStart.nofuncs
    /\ sm_pc = "off" /\ sm_hook = NoThread
    /\ rpc_req_q = NexusStart.fgq /\ rpc_resp_q = NexusStart.fgq /\ in_flight = NexusStart.fgq
    /\ work_submitted = 0 /\ work_open = NexusStart.nowork /\ work_lost = NexusStart.nowork
    /\ died_busy = {} /\ cont_moved = FALSE

\* Variant that does not wait for the thread it launched.
nexus_wait_eager ==
    /\ nx_pc = "wait"
    /\ nx_pc' = "launch" /\ nx_i' = nx_i + 1
    /\ UNCHANGED <<kill_switch, tls, bg, table, hookvars, sm, work>>

\* The loop of the constructor: launch a background thread, then wait until it
\* has taken its thread id.
nexus_launch ==
    /\ nx_pc = "launch" /\ nx_i < num_bg_threads
    /\ bg_pc' = [bg_pc EXCEPT ![nx_i] = "start"] /\ nx_pc' = "wait"
    /\ UNCHANGED <<nx_i, kill_switch, tls, bg_cur, bg_req_queue, table, hookvars, sm, work>>
nexus_wait ==
    /\ nx_pc = "wait" /\ cur_etid # nx_i
    /\ nx_pc' = "launch" /\ nx_i' = nx_i + 1
    /\ UNCHANGED <<kill_switch, tls, bg, table, hookvars, sm, work>>
nexus_launch_sm ==
    /\ nx_pc = "launch" /\ nx_i = num_bg_threads
    /\ sm_pc' = "recv" /\ nx_pc' = "up"
    /\ UNCHANGED <<nx_i, kill_switch, tls, bg, table, hookvars, sm_hook, work>>

\* TlsRegistry::init
tls_init(t) == etid' = [etid EXCEPT ![t] = cur_etid] /\ cur_etid' = cur_etid + 1

bg_start(b) ==
    /\ bg_pc[b] = "start" /\ tls_init(b)
    /\ bg_pc' = [bg_pc EXCEPT ![b] = "loop"]
    /\ UNCHANGED <<main, bg_cur, bg_req_queue, table, hookvars, sm, work>>

\* register_req_func, by any thread of the application, as long as no Rpc has
\* registered its hook; afterwards the call fails.
register_req_func(h) ==
    /\ nx_pc = "up" /\ h \notin req_func_arr
    /\ registration_allowed
    /\ req_func_arr' = req_func_arr \cup {h}
    /\ UNCHANGED <<main, tls, bg, registration_allowed, hookvars, sm, work>>

\* The Rpc constructor copies the handlers, checks under the lock that its id
\* is free, and takes a thread id.
rpc_ctor(f) ==
    /\ nx_pc = "up" /\ rpc_pc[f] = "none" /\ ~hooks_lock
    /\ \/ /\ hook_arr[rpc_id(f)] # NoThread          \* rt_assert throws
          /\ rpc_pc' = [rpc_pc EXCEPT ![f] = "gone"]
          /\ UNCHANGED <<tls, rpc_funcs>>
       \/ /\ hook_arr[rpc_id(f)] = NoThread
          /\ rpc_pc' = [rpc_pc EXCEPT ![f] = "checked"]
          /\ rpc_funcs' = [rpc_funcs EXCEPT ![f] = req_func_arr]
          /\ tls_init(f)
    /\ UNCHANGED <<main, bg, table, hook_arr, hooks_lock, sm, work>>

\* The transport, the allocator and the wheel later, it registers its hook.
register_hook(f) ==
    /\ rpc_pc[f] = "checked" /\ ~hooks_lock
    /\ registration_allowed' = FALSE
    /\ hook_arr' = [hook_arr EXCEPT ![rpc_id(f)] = f]
    /\ rpc_pc' = [rpc_pc EXCEPT ![f] = "live"]
    /\ UNCHANGED <<main, tls, bg, req_func_arr, hooks_lock, rpc_funcs, sm, work>>

\* The items of foreground thread f's Rpc in the queues Q of background threads.
ItemsOf(Q, f) == UNION {{<<b, i>> : i \in {j \in 1 .. Len(Q[b]) : Q[b][j].rpc = f}} : b \in Bg}

\* No work of an Rpc is unfinished.
RpcIdle(f) ==
    /\ ItemsOf(bg_req_queue, f) = {} /\ ItemsOf(bg_cur, f) = {}
    /\ rpc_req_q[f] = <<>> /\ rpc_resp_q[f] = <<>> /\ in_flight[f] = <<>>

\* ~Rpc first deletes sessions, allocator and transport, whatever work there is:
\* what was in the Rpc's own queues is lost, what is with background threads
\* stays there and refers to sessions that are gone.
rpc_dtor(f) ==
    /\ rpc_pc[f] = "live"
    /\ rpc_pc' = [rpc_pc EXCEPT ![f] = "closing"]
    /\ died_busy' = IF RpcIdle(f) THEN died_busy ELSE died_busy \cup {f}
    /\ work_lost' = [work_lost EXCEPT ![f] =
                        @ + (Len(rpc_req_q[f]) + Len(rpc_resp_q[f]) + Len(in_flight[f]))]
    /\ rpc_req_q' = [rpc_req_q EXCEPT ![f] = <<>>]
    /\ rpc_resp_q' = [rpc_resp_q EXCEPT ![f] = <<>>]
    /\ in_flight' = [in_flight EXCEPT ![f] = <<>>]
    /\ UNCHANGED <<main, tls, bg, table, hook_arr, hooks_lock, rpc_funcs, sm, work_submitted,
                   work_open, cont_moved>>
\* Variant that does not take the lock.
unregister_hook_unlocked(f) ==
    /\ rpc_pc[f] = "closing"
    /\ hook_arr' = [hook_arr EXCEPT ![rpc_id(f)] = NoThread]
    /\ rpc_pc' = [rpc_pc EXCEPT ![f] = "gone"]
    /\ UNCHANGED <<main, tls, bg, table, hooks_lock, rpc_funcs, sm, work>>
unregister_hook(f) ==
    /\ rpc_pc[f] = "closing" /\ ~hooks_lock
    /\ hook_arr' = [hook_arr EXCEPT ![rpc_id(f)] = NoThread]
    /\ rpc_pc' = [rpc_pc EXCEPT ![f] = "gone"]
    /\ UNCHANGED <<main, tls, bg, table, hooks_lock, rpc_funcs, sm, work>>

\* The SM thread: a packet for Rpc r arrives, the hook is looked up under the
\* lock, and the packet is pushed to its queue or answered with an error.
sm_lookup(r) ==
    /\ sm_pc = "recv" /\ ~kill_switch /\ ~hooks_lock
    /\ hooks_lock' = TRUE /\ sm_hook' = hook_arr[r] /\ sm_pc' = "push"
    /\ UNCHANGED <<main, tls, bg, table, hook_arr, rpc_pc, rpc_funcs, work>>
sm_push ==
    /\ sm_pc = "push"
    /\ hooks_lock' = FALSE /\ sm_hook' = NoThread /\ sm_pc' = "recv"
    /\ UNCHANGED <<main, tls, bg, table, hook_arr, rpc_pc, rpc_funcs, work>>
\* Variant that looks at the kill switch only after a packet.
sm_exit_late ==
    /\ sm_pc = "push" /\ kill_switch /\ sm_pc' = "exited"
    /\ hooks_lock' = FALSE /\ sm_hook' = NoThread
    /\ UNCHANGED <<main, tls, bg, table, hook_arr, rpc_pc, rpc_funcs, work>>
\* recv_blocking returns at the unblock packet, or after its time.
sm_exit ==
    /\ sm_pc = "recv" /\ kill_switch /\ sm_pc' = "exited"
    /\ UNCHANGED <<main, tls, bg, table, hookvars, sm_hook, work>>

\* submit_bg_req_st: a request whose handler runs in the background goes to a
\* random background thread.
submit_bg_req_st(f, b) ==
    /\ rpc_pc[f] = "live" /\ work_submitted < MaxWork
    /\ bg_req_queue' = [bg_req_queue EXCEPT ![b] =
                           Append(@, [kind |-> "req", rpc |-> f, origin |-> NoThread])]
    /\ work_submitted' = work_submitted + 1
    /\ work_open' = [work_open EXCEPT ![f] = @ + 1]
    /\ UNCHANGED <<main, tls, bg_pc, bg_cur, table, hookvars, sm, rpcqs, lost, cont_moved>>

\* bg_thread_func: the outer loop looks at the kill switch, the inner loop at
\* nothing but the queue.
bg_pop(b) ==
    /\ bg_pc[b] = "drain" \/ (bg_pc[b] = "loop" /\ ~kill_switch)
    /\ bg_req_queue[b] # <<>>
    /\ bg_cur' = [bg_cur EXCEPT ![b] = <<Head(bg_req_queue[b])>>]
    /\ bg_req_queue' = [bg_req_queue EXCEPT ![b] = Tail(@)]
    /\ bg_pc' = [bg_pc EXCEPT ![b] = "run"]
    /\ UNCHANGED <<main, tls, table, hookvars, sm, work>>
bg_drained(b) ==
    /\ bg_pc[b] = "drain" /\ bg_req_queue[b] = <<>>
    /\ bg_pc' = [bg_pc EXCEPT ![b] = "loop"]
    /\ UNCHANGED <<main, tls, bg_cur, bg_req_queue, table, hookvars, sm, work>>
bg_exit(b) ==
    /\ bg_pc[b] = "loop" /\ kill_switch
    /\ bg_pc' = [bg_pc EXCEPT ![b] = "exited"]
    /\ UNCHANGED <<main, tls, bg_cur, bg_req_queue, table, hookvars, sm, work>>

\* A request handler may issue a request of its own, whose continuation is to
\* run on this thread; it ends with enqueue_response.  Both go through the
\* queues of the Rpc, whose thread this is not.
bg_enqueue_request(b) ==
    /\ bg_pc[b] = "run" /\ bg_cur[b][1].kind = "req" /\ work_submitted < MaxWork
    /\ LET f == bg_cur[b][1].rpc
       IN  /\ rpc_pc[f] = "live"
           /\ rpc_req_q' = [rpc_req_q EXCEPT ![f] = Append(@, [cont_etid |-> etid[b],
                                                               origin |-> b])]
           /\ work_open' = [work_open EXCEPT ![f] = @ + 1]
    /\ work_submitted' = work_submitted + 1
    /\ UNCHANGED <<main, tls, bg, table, hookvars, sm, rpc_resp_q, in_flight, lost, cont_moved>>
ItemDone(b) == bg_cur' = [bg_cur EXCEPT ![b] = <<>>] /\ bg_pc' = [bg_pc EXCEPT ![b] = "drain"]
bg_enqueue_response(b) ==
    /\ bg_pc[b] = "run" /\ bg_cur[b][1].kind = "req"
    /\ LET f == bg_cur[b][1].rpc
       IN  /\ rpc_pc[f] = "live"
           /\ rpc_resp_q' = [rpc_resp_q EXCEPT ![f] = Append(@, b)]
    /\ ItemDone(b)
    /\ UNCHANGED <<main, tls, bg_req_queue, table, hookvars, sm, rpc_req_q, in_flight,
                   work_submitted, work_open, lost, cont_moved>>
\* A handler that runs for an Rpc which is being destroyed works on sessions and
\* queues that are gone.  The outcome is undefined: the process may die, or the
\* response goes nowhere.
bg_run_stale(b) ==
    /\ bg_pc[b] = "run" /\ bg_cur[b][1].kind = "req"
    /\ LET f == bg_cur[b][1].rpc
       IN  /\ rpc_pc[f] # "live"
           /\ work_lost' = [work_lost EXCEPT ![f] = @ + 1]
    /\ ItemDone(b)
    /\ UNCHANGED <<main, tls, bg_req_queue, table, hookvars, sm, rpcqs, work_submitted,
                   work_open, died_busy, cont_moved>>
\* A continuation needs nothing of its Rpc.
bg_run_cont(b) ==
    /\ bg_pc[b] = "run" /\ bg_cur[b][1].kind = "cont"
    /\ cont_moved' = (cont_moved \/ bg_cur[b][1].origin # b)
    /\ LET f == bg_cur[b][1].rpc IN work_open' = [work_open EXCEPT ![f] = @ - 1]
    /\ ItemDone(b)
    /\ UNCHANGED <<main, tls, bg_req_queue, table, hookvars, sm, rpcqs, work_submitted, lost>>

\* The event loop empties the queues that background threads fill.
process_bg_queues_enqueue_request_st(f) ==
    /\ rpc_req_q[f] # <<>>
    /\ in_flight' = [in_flight EXCEPT ![f] = @ \o rpc_req_q[f]]
    /\ rpc_req_q' = [rpc_req_q EXCEPT ![f] = <<>>]
    /\ UNCHANGED <<main, tls, bg, table, hookvars, sm, rpc_resp_q, work_submitted, work_open,
                   lost, cont_moved>>
process_bg_queues_enqueue_response_st(f) ==
    /\ rpc_resp_q[f] # <<>>
    /\ work_open' = [work_open EXCEPT ![f] = @ - Len(rpc_resp_q[f])]
    /\ rpc_resp_q' = [rpc_resp_q EXCEPT ![f] = <<>>]
    /\ UNCHANGED <<main, tls, bg, table, hookvars, sm, rpc_req_q, in_flight, work_submitted,
                   lost, cont_moved>>

\* Variant that gives a continuation to any background thread.
submit_bg_resp_st_any(f) ==
    /\ in_flight[f] # <<>>
    /\ LET r == Head(in_flight[f])
       IN  \E b \in Bg : bg_req_queue' = [bg_req_queue EXCEPT ![b] =
                 Append(@, [kind |-> "cont", rpc |-> f, origin |-> r.origin])]
    /\ in_flight' = [in_flight EXCEPT ![f] = Tail(@)]
    /\ UNCHANGED <<main, tls, bg_pc, bg_cur, table, hookvars, sm, rpc_req_q, rpc_resp_q,
                   work_submitted, work_open, lost, cont_moved>>

\* A response to the request of a background thread: its continuation goes to
\* the queue with the number of that thread's id.
submit_bg_resp_st(f) ==
    /\ in_flight[f] # <<>>
    /\ LET r == Head(in_flight[f])
       IN  /\ r.cont_etid \in Bg
           /\ bg_req_queue' = [bg_req_queue EXCEPT ![r.cont_etid] =
                 Append(@, [kind |-> "cont", rpc |-> f, origin |-> r.origin])]
    /\ in_flight' = [in_flight EXCEPT ![f] = Tail(@)]
    /\ UNCHANGED <<main, tls, bg_pc, bg_cur, table, hookvars, sm, rpc_req_q, rpc_resp_q,
                   work_submitted, work_open, lost, cont_moved>>

\* ~Nexus, called when every Rpc is gone: it stops the background threads, then
\* the SM thread, and joins each.
nexus_dtor ==
    /\ nx_pc = "up" /\ \A f \in Fg : rpc_pc[f] = "gone"
    /\ kill_switch' = TRUE /\ nx_pc' = "join" /\ nx_i' = 0
    /\ UNCHANGED <<tls, bg, table, hookvars, sm, work>>
nexus_join ==
    /\ nx_pc = "join" /\ nx_i < num_bg_threads /\ bg_pc[nx_i] = "exited"
    /\ nx_i' = nx_i + 1
    /\ UNCHANGED <<nx_pc, kill_switch, tls, bg, table, hookvars, sm, work>>
\* TlsRegistry::reset lets the process create another Nexus.  What is left in the
\* queues of the background threads goes with the Nexus.
nexus_reset ==
    /\ nx_pc = "join" /\ nx_i = num_bg_threads /\ sm_pc = "exited"
    /\ nx_pc' = "launch" /\ nx_i' = 0 /\ kill_switch' = FALSE
    /\ cur_etid' = 0 /\ etid' = NexusStart.etid
    /\ bg_pc' = NexusStart.bg_pc /\ bg_req_queue' = NexusStart.bgq
    /\ req_func_arr' = {} /\ registration_allowed' = TRUE
    /\ rpc_pc' = NexusStart.none /\ rpc_funcs' = NexusStart.nofuncs
    /\ hook_arr' = NexusStart.hooks
    /\ sm_pc' = "off"
    /\ work_lost' = [f \in Fg |-> work_lost[f] + Cardinality(ItemsOf(bg_req_queue, f))]
    /\ UNCHANGED <<bg_cur, hooks_lock, sm_hook, rpcqs, work_submitted, work_open, died_busy,
                   cont_moved>>

MainThread == \/ nexus_launch \/ nexus_wait \/ nexus_launch_sm
              \/ nexus_join \/ nexus_reset
BgThread(b) == \/ bg_start(b) \/ bg_pop(b) \/ bg_drained(b) \/ bg_exit(b)
               \/ bg_enqueue_response(b) \/ bg_run_stale(b) \/ bg_run_cont(b)
SmThread == sm_push \/ sm_exit
EventLoop(f) == \/ process_bg_queues_enqueue_request_st(f) \/ submit_bg_resp_st(f)
                \/ process_bg_queues_enqueue_response_st(f)

NexusNext ==
    \/ MainThread \/ SmThread \/ nexus_dtor
    \/ \E h \in Handlers : register_req_func(h)
    \/ \E b \in Bg : BgThread(b) \/ bg_enqueue_request(b)
    \/ \E f \in Fg : \/ rpc_ctor(f) \/ register_hook(f) \/ rpc_dtor(f) \/ unregister_hook(f)
                     \/ EventLoop(f)
                     \/ \E b \in Bg : submit_bg_req_st(f, b)
    \/ \E r \in RpcIds : sm_lookup(r)

\* Every thread of the Nexus and every event loop runs.
NexusFairness ==
    /\ WF_nxvars(MainThread) /\ WF_nxvars(SmThread)
    /\ \A b \in Bg : WF_nxvars(BgThread(b))
    /\ \A f \in Fg : WF_nxvars(EventLoop(f))

NexusSpec == NexusInit /\ [][NexusNext]_nxvars /\ NexusFairness

NexusTypeOK ==
    /\ nx_pc \in {"launch", "wait", "up", "join"} /\ nx_i \in 0 .. num_bg_threads
    /\ kill_switch \in BOOLEAN /\ cur_etid \in 0 .. num_bg_threads + num_fg_threads
    /\ etid \in [Bg \cup Fg -> Bg \cup Fg \cup {NoThread}]
    /\ bg_pc \in [Bg -> {"off", "start", "loop", "drain", "run", "exited"}]
    /\ req_func_arr \subseteq Handlers /\ registration_allowed \in BOOLEAN
    /\ hook_arr \in [RpcIds -> Fg \cup {NoThread}] /\ hooks_lock \in BOOLEAN
    /\ rpc_pc \in [Fg -> {"none", "checked", "live", "closing", "gone"}]
    /\ rpc_funcs \in [Fg -> SUBSET Handlers]
    /\ sm_pc \in {"off", "recv", "push", "exited"} /\ sm_hook \in Fg \cup {NoThread}
    /\ \A b \in Bg : Len(bg_cur[b]) = IF bg_pc[b] = "run" THEN 1 ELSE 0
    /\ work_submitted \in 0 .. MaxWork /\ died_busy \subseteq Fg
    /\ work_open \in [Fg -> 0 .. MaxWork] /\ work_lost \in [Fg -> 0 .. MaxWork]

\* Thread ids: background thread i has id i, so that its id finds its queue
\* (the assertion at nexus_bg_thread.cc:15), and no two threads share one.
ThreadIds ==
    /\ \A b \in Bg : etid[b] \in {NoThread, b}
    /\ \A s, t \in Bg \cup Fg : s # t /\ etid[s] = etid[t] => etid[s] = NoThread

\* "All non-null hooks are valid" (nexus.h:182): the hook in the array, and the
\* one the SM thread pushes to, belong to an Rpc object whose destructor has not
\* come to unregister_hook (nexus_sm_thread.cc:35-63, rpc.cc:119).
HooksValid ==
    /\ \A r \in RpcIds : hook_arr[r] # NoThread => rpc_pc[hook_arr[r]] \in {"live", "closing"}
    /\ sm_hook # NoThread => rpc_pc[sm_hook] \in {"live", "closing"}

\* "Each Rpc object created by threads of one process must have a unique ID"
\* (rpc.h:97), which the constructor checks: the hook of a live Rpc is the one
\* under its id.  It fails when two threads ask for the same id.
RpcIdsUnique == \A f \in Fg : rpc_pc[f] = "live" => hook_arr[rpc_id(f)] = f

\* Every Rpc dispatches with the handlers that the background threads use:
\* "Request function registration is disallowed after any Rpc registers with
\* the Nexus and gets a copy of req_func_arr" (nexus.h:178-179).
TablesAgree == \A f \in Fg : rpc_pc[f] \in {"live", "closing"} => rpc_funcs[f] = req_func_arr

\* Work given to background threads is neither lost nor done twice, whatever
\* other Rpcs do: what is unfinished is in exactly one queue or is lost, and only
\* the work of an Rpc that was destroyed with work unfinished can be lost, so
\* that background threads which leave on the kill switch leave nothing else
\* behind; and a continuation runs on the thread that issued the request
\* (nexus_bg_thread.cc:19-38, rpc_queues.cc:55-79, rpc.cc:101-119).
WorkConserved ==
    /\ \A f \in Fg :
          /\ work_open[f]
               = Cardinality(ItemsOf(bg_req_queue, f)) + Cardinality(ItemsOf(bg_cur, f))
                 + Len(rpc_req_q[f]) + Len(rpc_resp_q[f]) + Len(in_flight[f]) + work_lost[f]
          /\ work_lost[f] > 0 => f \in died_busy
    /\ ~cont_moved

\* Destroying the Nexus ends: all its threads see the kill switch
\* (nexus.cc:77-90).
NexusStops == kill_switch ~> ~kill_switch
=============================================================================
