------------------------------ MODULE SessionMgmt ------------------------------
(***************************************************************************)
(* eRPC session management: src/peer/erpc/rpc_impl/rpc_sm_{api,helpers}.cc, *)
(* rpc_{connect,disconnect}_handlers.cc, the management half of            *)
(* pkt_loss_scan_st, and the Nexus SM thread that stands between the UDP   *)
(* socket and the Rpc objects.                                             *)
(*                                                                         *)
(* Every Rpc may be the client of some sessions and the server of others;  *)
(* both kinds live in its session_vec_, whose entries are never reused: a  *)
(* destroyed session leaves a null pointer.  Session numbers are positions *)
(* in that vector (from 1 here, from 0 in the code).  Management packets   *)
(* travel over UDP: they may be lost, duplicated and reordered.            *)
(*                                                                         *)
(* The SM thread's queue to an Rpc only delays a packet, which the network *)
(* may do as well, so the reception of a packet is one action: the handler *)
(* of the Rpc if its hook is registered, the SM thread's own answer if it  *)
(* is not.  A packet that is ignored changes nothing and has no action,    *)
(* except where ignoring it still erases a pending request.                *)
(*                                                                         *)
(* A session is taken to have no request in progress when it is destroyed  *)
(* (otherwise destroy_session returns EBUSY and changes nothing).          *)
(***************************************************************************)
EXTENDS Integers, Sequences, FiniteSets

CONSTANTS
    Rpcs,                  \* the Rpc objects, each with an id of its own
    transport_type,        \* per Rpc, the transport it was built for
    kInvalidSessionNum,    \* server_.session_num_ before the connect response
    Null,                  \* a null session pointer
    kNumRxRingEntries,     \* RX ring entries of an Rpc
    kSessionCredits,       \* RX ring entries one session takes
    retry_connect_on_invalid_rpc_id,
    MayFail,               \* which resource steps may fail
    Deleted,               \* the Rpcs that may be deleted and created again
    MaxSessions,           \* bound: sessions created in a behaviour
    MaxRpcs                \* bound: times an Rpc is constructed

\* The steps of a connection that depend on the rest of the machine.
Failures == {"server_resolve", "server_memory", "client_resolve"}

ASSUME SmAssumption ==
    /\ DOMAIN transport_type = Rpcs
    /\ kInvalidSessionNum \notin Nat
    /\ kSessionCredits \in Nat \ {0}
    /\ kNumRxRingEntries \in Nat
    /\ retry_connect_on_invalid_rpc_id \in BOOLEAN
    /\ MayFail \subseteq Failures
    /\ Deleted \subseteq Rpcs
    /\ MaxSessions \in Nat
    /\ MaxRpcs \in Nat

VARIABLES
    hook,      \* per Rpc: is its hook registered with the Nexus?
    built,     \* per Rpc: times it has been constructed
    vec,       \* session_vec_
    rings,     \* ring_entries_available_
    pending,   \* sm_pending_reqs_
    tokens,    \* conn_req_token_map_
    created,   \* number of sessions created; the next unique token
    events,    \* per token, the callbacks of the client's sm_handler_
    udp        \* management packets in the network

vars == <<hook, built, vec, rings, pending, tokens, created, events, udp>>

Token == 1..MaxSessions

-------------------------------------------------------------------------------
(***************************************************************************)
(* Packets.                                                                *)
(***************************************************************************)
Reqs  == {"kConnectReq", "kDisconnectReq"}
Resps == {"kConnectResp", "kDisconnectResp"}

Endpoint == [rpc : Rpcs, num : Nat \cup {kInvalidSessionNum}]

SmErrType == {"kNoError", "kRingExhausted", "kOutOfMemory",
              "kRoutingResolutionFailure", "kInvalidRemoteRpcId",
              "kInvalidTransport"}

SmPkt == [type : Reqs \cup Resps, err : SmErrType, token : Token,
          client : Endpoint, server : Endpoint]

Session == [role : {"kClient", "kServer"},
            state : {"kConnectInProgress", "kConnected", "kDisconnectInProgress"},
            token : Token, client : Endpoint, server : Endpoint]

ASSUME NullAssumption == Null \notin Session

\* The Rpc a packet is addressed to.
Target(m) == IF m.type \in Reqs THEN m.server.rpc ELSE m.client.rpc

\* The request send_sm_req_st() sends for session s.
SmReq(s) ==
    [type |-> IF s.state = "kConnectInProgress" THEN "kConnectReq" ELSE "kDisconnectReq",
     err |-> "kNoError", token |-> s.token, client |-> s.client, server |-> s.server]

\* The response to m; one that accepts a connection carries the endpoint of the
\* session the server created, any other the endpoint of the request.
sm_construct_resp(m, err, server) ==
    [type |-> IF m.type = "kConnectReq" THEN "kConnectResp" ELSE "kDisconnectResp",
     err |-> err, token |-> m.token, client |-> m.client, server |-> server]

-------------------------------------------------------------------------------
(***************************************************************************)
(* Helpers of one Rpc r.                                                   *)
(***************************************************************************)
have_ring_entries(r) == rings[r] >= kSessionCredits

alloc_ring_entries(r) == rings' = [rings EXCEPT ![r] = @ - kSessionCredits]

free_ring_entries(r) == rings' = [rings EXCEPT ![r] = @ + kSessionCredits]

bury_session_st(r, num) == vec' = [vec EXCEPT ![r][num] = Null]

\* sm_handler_ is called with event e for a session with token t.
Callback(t, e) == events' = [events EXCEPT ![t] = Append(@, e)]

\* A response erases the pending request of its session before it is handled.
Erase(r, m) == pending' = [pending EXCEPT ![r] = @ \ {m.client.num}]

Send(pkts) == udp' = udp \cup pkts

-------------------------------------------------------------------------------
(***************************************************************************)
(* The life of an Rpc object.                                              *)
(***************************************************************************)
Rpc_ctor(r) ==
    /\ ~hook[r]
    /\ built[r] < MaxRpcs
    /\ hook' = [hook EXCEPT ![r] = TRUE]
    /\ built' = [built EXCEPT ![r] = @ + 1]
    /\ vec' = [vec EXCEPT ![r] = <<>>]
    /\ rings' = [rings EXCEPT ![r] = kNumRxRingEntries]
    /\ pending' = [pending EXCEPT ![r] = {}]
    /\ tokens' = [tokens EXCEPT ![r] = <<>>]
    /\ UNCHANGED <<created, events, udp>>

\* The destructor deletes the sessions without disconnecting them.
Rpc_dtor(r) ==
    /\ r \in Deleted
    /\ hook[r]
    /\ hook' = [hook EXCEPT ![r] = FALSE]
    /\ vec' = [vec EXCEPT ![r] = <<>>]
    /\ pending' = [pending EXCEPT ![r] = {}]
    /\ UNCHANGED <<built, rings, tokens, created, events, udp>>

-------------------------------------------------------------------------------
(***************************************************************************)
(* Client.                                                                 *)
(***************************************************************************)
\* Variant that reuses the position of a buried session.
create_session_st_reuse(r, rem) ==
    LET buried == {n \in 1..Len(vec[r]) : vec[r][n] = Null}
        num == IF buried = {} THEN Len(vec[r]) + 1 ELSE CHOOSE n \in buried : TRUE
        s   == [role |-> "kClient", state |-> "kConnectInProgress",
                token |-> created + 1, client |-> [rpc |-> r, num |-> num],
                server |-> [rpc |-> rem, num |-> kInvalidSessionNum]]
    IN  /\ hook[r]
        /\ created < MaxSessions
        /\ rem # r
        /\ have_ring_entries(r)
        /\ alloc_ring_entries(r)
        /\ vec' = [vec EXCEPT ![r] = IF buried = {} THEN Append(@, s)
                                                    ELSE [@ EXCEPT ![num] = s]]
        /\ created' = created + 1
        /\ pending' = [pending EXCEPT ![r] = @ \cup {num}]
        /\ Send({SmReq(s)})
        /\ UNCHANGED <<hook, built, tokens, events>>

create_session_st(r, rem) ==
    LET num == Len(vec[r]) + 1
        s   == [role |-> "kClient", state |-> "kConnectInProgress",
                token |-> created + 1, client |-> [rpc |-> r, num |-> num],
                server |-> [rpc |-> rem, num |-> kInvalidSessionNum]]
    IN  /\ hook[r]
        /\ created < MaxSessions
        /\ rem # r
        /\ have_ring_entries(r)
        /\ alloc_ring_entries(r)
        /\ vec' = [vec EXCEPT ![r] = Append(@, s)]
        /\ created' = created + 1
        /\ pending' = [pending EXCEPT ![r] = @ \cup {num}]
        /\ Send({SmReq(s)})
        /\ UNCHANGED <<hook, built, tokens, events>>

\* Session num of r moves to kDisconnectInProgress, with server endpoint srv.
StartDisconnect(r, num, srv) ==
    LET s == [vec[r][num] EXCEPT !.state = "kDisconnectInProgress", !.server = srv]
    IN  /\ vec' = [vec EXCEPT ![r][num] = s]
        /\ pending' = [pending EXCEPT ![r] = @ \cup {num}]
        /\ Send({SmReq(s)})

destroy_session_st(r, num) ==
    /\ vec[r][num] # Null
    /\ vec[r][num].role = "kClient"
    /\ vec[r][num].state = "kConnected"
    /\ StartDisconnect(r, num, vec[r][num].server)
    /\ UNCHANGED <<hook, built, rings, tokens, created, events>>

\* The visit of a pending request by pkt_loss_scan_st() after kSMTimeoutMs.
pkt_loss_scan_st(r, num) ==
    /\ num \in pending[r]
    /\ vec[r][num] # Null
    /\ vec[r][num].state # "kConnected"
    /\ Send({SmReq(vec[r][num])})
    /\ UNCHANGED <<hook, built, vec, rings, pending, tokens, created, events>>

\* Connecting(s): the session still waits for a connect response.
Connecting(s) == s # Null /\ s.state = "kConnectInProgress"

\* A connect response the session does not wait for.
IgnoreConnectResp(r, m) ==
    /\ ~Connecting(vec[r][m.client.num])
    /\ Erase(r, m)
    /\ UNCHANGED <<vec, rings, events, udp>>

\* Variant that does not put the erased request back.
RetryConnect_erased(r, m) ==
    /\ Connecting(vec[r][m.client.num])
    /\ m.err = "kInvalidRemoteRpcId"
    /\ retry_connect_on_invalid_rpc_id
    /\ Erase(r, m)
    /\ UNCHANGED <<vec, rings, events, udp>>

\* The remote Rpc does not exist yet: the scan will retry.
RetryConnect(r, m) ==
    /\ Connecting(vec[r][m.client.num])
    /\ m.err = "kInvalidRemoteRpcId"
    /\ retry_connect_on_invalid_rpc_id
    /\ pending' = [pending EXCEPT ![r] = @ \cup {m.client.num}]
    /\ UNCHANGED <<vec, rings, events, udp>>

\* Variant that keeps the ring entries.
FailConnect_leaky(r, m) ==
    /\ Connecting(vec[r][m.client.num])
    /\ m.err # "kNoError"
    /\ ~(m.err = "kInvalidRemoteRpcId" /\ retry_connect_on_invalid_rpc_id)
    /\ Erase(r, m)
    /\ Callback(vec[r][m.client.num].token, "kConnectFailed")
    /\ bury_session_st(r, m.client.num)
    /\ UNCHANGED <<rings, udp>>

FailConnect(r, m) ==
    /\ Connecting(vec[r][m.client.num])
    /\ m.err # "kNoError"
    /\ ~(m.err = "kInvalidRemoteRpcId" /\ retry_connect_on_invalid_rpc_id)
    /\ Erase(r, m)
    /\ free_ring_entries(r)
    /\ Callback(vec[r][m.client.num].token, "kConnectFailed")
    /\ bury_session_st(r, m.client.num)
    /\ UNCHANGED udp

\* Variant that does not save the server's endpoint before disconnecting.
UnresolvedServer_unsaved(r, m) ==
    /\ Connecting(vec[r][m.client.num])
    /\ m.err = "kNoError"
    /\ "client_resolve" \in MayFail
    /\ StartDisconnect(r, m.client.num, vec[r][m.client.num].server)
    /\ UNCHANGED <<rings, events>>

\* The client cannot resolve the server's routing info: it disconnects.
UnresolvedServer(r, m) ==
    /\ Connecting(vec[r][m.client.num])
    /\ m.err = "kNoError"
    /\ "client_resolve" \in MayFail
    /\ StartDisconnect(r, m.client.num, m.server)
    /\ UNCHANGED <<rings, events>>

\* Variant that takes a duplicate response for a new one.
FinishConnect_again(r, m) ==
    /\ vec[r][m.client.num] # Null
    /\ m.err = "kNoError"
    /\ Erase(r, m)
    /\ vec' = [vec EXCEPT ![r][m.client.num] =
                            [@ EXCEPT !.state = "kConnected", !.server = m.server]]
    /\ Callback(vec[r][m.client.num].token, "kConnected")
    /\ UNCHANGED <<rings, udp>>

\* Variant that does not save the server's endpoint.
FinishConnect_unsaved(r, m) ==
    /\ Connecting(vec[r][m.client.num])
    /\ m.err = "kNoError"
    /\ Erase(r, m)
    /\ vec' = [vec EXCEPT ![r][m.client.num].state = "kConnected"]
    /\ Callback(vec[r][m.client.num].token, "kConnected")
    /\ UNCHANGED <<rings, udp>>

FinishConnect(r, m) ==
    /\ Connecting(vec[r][m.client.num])
    /\ m.err = "kNoError"
    /\ Erase(r, m)
    /\ vec' = [vec EXCEPT ![r][m.client.num] =
                            [@ EXCEPT !.state = "kConnected", !.server = m.server]]
    /\ Callback(vec[r][m.client.num].token, "kConnected")
    /\ UNCHANGED <<rings, udp>>

handle_connect_resp_st(r, m) ==
    /\ m.type = "kConnectResp"
    /\ m.client.num <= Len(vec[r])
    /\ \/ IgnoreConnectResp(r, m)
       \/ RetryConnect(r, m)
       \/ FailConnect(r, m)
       \/ UnresolvedServer(r, m)
       \/ FinishConnect(r, m)
    /\ UNCHANGED <<hook, built, tokens, created>>

\* The asserts on the session and on the error type are compiled out of a
\* release build, so they guard nothing.
handle_disconnect_resp_st(r, m) ==
    /\ m.type = "kDisconnectResp"
    /\ m.client.num <= Len(vec[r])
    /\ Erase(r, m)
    /\ IF vec[r][m.client.num] = Null
       THEN UNCHANGED <<vec, rings, events>>
       ELSE /\ free_ring_entries(r)
            /\ Callback(vec[r][m.client.num].token, "kDisconnected")
            /\ bury_session_st(r, m.client.num)
    /\ UNCHANGED <<hook, built, tokens, created, udp>>

-------------------------------------------------------------------------------
(***************************************************************************)
(* Server.                                                                 *)
(***************************************************************************)
\* The request was accepted before: its session's endpoint is sent again,
\* unless the session is gone.
RepeatConnect(r, m) ==
    /\ m.token \in DOMAIN tokens[r]
    /\ LET s == vec[r][tokens[r][m.token]]
       IN  /\ s # Null
           /\ s.state = "kConnected"
           /\ Send({sm_construct_resp(m, "kNoError", s.server)})
    /\ UNCHANGED <<vec, rings, tokens>>

SameTransport(r, m) == transport_type[m.client.rpc] = transport_type[r]

\* The errors handle_connect_req_st() may find, in the order it looks for them.
ConnectError(r, m, err) ==
    \/ /\ ~SameTransport(r, m)
       /\ err = "kInvalidTransport"
    \/ /\ SameTransport(r, m)
       /\ \/ /\ ~have_ring_entries(r)
             /\ err = "kRingExhausted"
          \/ /\ have_ring_entries(r)
             /\ \/ "server_resolve" \in MayFail /\ err = "kRoutingResolutionFailure"
                \/ "server_memory" \in MayFail /\ err = "kOutOfMemory"

\* Nothing of the refused request is remembered.
RefuseConnect(r, m) ==
    /\ m.token \notin DOMAIN tokens[r]
    /\ \E err \in SmErrType :
          ConnectError(r, m, err) /\ Send({sm_construct_resp(m, err, m.server)})
    /\ UNCHANGED <<vec, rings, tokens>>

\* Variant that does not look the token up.
AcceptConnect_again(r, m) ==
    LET num == Len(vec[r]) + 1
        s   == [role |-> "kServer", state |-> "kConnected", token |-> m.token,
                client |-> m.client, server |-> [m.server EXCEPT !.num = num]]
    IN  /\ SameTransport(r, m)
        /\ have_ring_entries(r)
        /\ alloc_ring_entries(r)
        /\ tokens' = [tokens EXCEPT ![r] =
                        [t \in DOMAIN @ \cup {m.token} |-> IF t = m.token THEN num ELSE @[t]]]
        /\ vec' = [vec EXCEPT ![r] = Append(@, s)]
        /\ Send({sm_construct_resp(m, "kNoError", s.server)})

AcceptConnect(r, m) ==
    LET num == Len(vec[r]) + 1
        s   == [role |-> "kServer", state |-> "kConnected", token |-> m.token,
                client |-> m.client, server |-> [m.server EXCEPT !.num = num]]
    IN  /\ m.token \notin DOMAIN tokens[r]
        /\ SameTransport(r, m)
        /\ have_ring_entries(r)
        /\ alloc_ring_entries(r)
        /\ tokens' = [tokens EXCEPT ![r] =
                        [t \in DOMAIN @ \cup {m.token} |-> IF t = m.token THEN num ELSE @[t]]]
        /\ vec' = [vec EXCEPT ![r] = Append(@, s)]
        /\ Send({sm_construct_resp(m, "kNoError", s.server)})

handle_connect_req_st(r, m) ==
    /\ m.type = "kConnectReq"
    /\ RepeatConnect(r, m) \/ RefuseConnect(r, m) \/ AcceptConnect(r, m)
    /\ UNCHANGED <<hook, built, pending, created, events>>

handle_disconnect_req_st(r, m) ==
    /\ m.type = "kDisconnectReq"
    /\ m.server.num <= Len(vec[r])
    /\ Send({sm_construct_resp(m, "kNoError", m.server)})
    /\ IF vec[r][m.server.num] = Null
       THEN UNCHANGED <<vec, rings>>
       ELSE free_ring_entries(r) /\ bury_session_st(r, m.server.num)
    /\ UNCHANGED <<hook, built, pending, tokens, created, events>>

-------------------------------------------------------------------------------
(***************************************************************************)
(* SM thread and network.                                                  *)
(***************************************************************************)
\* The SM thread receives a request for an Rpc that is not registered.
sm_thread_func(m) ==
    /\ ~hook[Target(m)]
    /\ m.type \in Reqs
    /\ Send({sm_construct_resp(m, "kInvalidRemoteRpcId", m.server)})
    /\ UNCHANGED <<hook, built, vec, rings, pending, tokens, created, events>>

\* It hands a packet for a registered Rpc to the Rpc's event loop.
handle_sm_rx_st(m) ==
    LET r == Target(m)
    IN  /\ hook[r]
        /\ \/ handle_connect_req_st(r, m)
           \/ handle_connect_resp_st(r, m)
           \/ handle_disconnect_req_st(r, m)
           \/ handle_disconnect_resp_st(r, m)

Lose(m) ==
    /\ udp' = udp \ {m}
    /\ UNCHANGED <<hook, built, vec, rings, pending, tokens, created, events>>

Init ==
    /\ hook = [r \in Rpcs |-> FALSE]
    /\ built = [r \in Rpcs |-> 0]
    /\ vec = [r \in Rpcs |-> <<>>]
    /\ rings = [r \in Rpcs |-> kNumRxRingEntries]
    /\ pending = [r \in Rpcs |-> {}]
    /\ tokens = [r \in Rpcs |-> <<>>]
    /\ created = 0
    /\ events = [t \in Token |-> <<>>]
    /\ udp = {}

Next ==
    \/ \E r \in Rpcs : Rpc_ctor(r) \/ Rpc_dtor(r)
    \/ \E r, rem \in Rpcs : create_session_st(r, rem)
    \/ \E r \in Rpcs : \E num \in 1..Len(vec[r]) :
          destroy_session_st(r, num) \/ pkt_loss_scan_st(r, num)
    \/ \E m \in udp : sm_thread_func(m) \/ handle_sm_rx_st(m) \/ Lose(m)

Spec == Init /\ [][Next]_vars

-------------------------------------------------------------------------------
(***************************************************************************)
(* Safety.                                                                 *)
(***************************************************************************)
\* Every variable has the type of the C++ field it stands for; the number of
\* ring entries available never leaves 0..kNumRxRingEntries (the asserts of
\* alloc_ring_entries and free_ring_entries, rpc.h:541, 548).
TypeOK ==
    /\ hook \in [Rpcs -> BOOLEAN]
    /\ built \in [Rpcs -> 0..MaxRpcs]
    /\ vec \in [Rpcs -> Seq(Session \cup {Null})]
    /\ rings \in [Rpcs -> 0..kNumRxRingEntries]
    /\ pending \in [Rpcs -> SUBSET Nat]
    /\ DOMAIN tokens = Rpcs
    /\ \A r \in Rpcs : DOMAIN tokens[r] \subseteq Token
                       /\ \A t \in DOMAIN tokens[r] : tokens[r][t] \in Nat
    /\ created \in 0..MaxSessions
    /\ events \in [Token -> Seq({"kConnected", "kConnectFailed", "kDisconnected"})]
    /\ udp \subseteq SmPkt

\* The numbers of the sessions of r that are not destroyed.
Live(r) == {n \in 1..Len(vec[r]) : vec[r][n] # Null}

\* Ring entries are neither leaked nor returned twice, whichever way a session
\* ends and however often its packets arrive: every session that is not buried,
\* of either role, holds kSessionCredits entries, and the rest is available.  A
\* client session that waits for its disconnect response is one of them, although
\* the comment at rpc_disconnect_handlers.cc:59-60 says that its entries are freed
\* before the disconnect request is sent: they are freed below it, at :90.
RingsConserved ==
    \A r \in Rpcs :
        hook[r] => rings[r] + kSessionCredits * Cardinality(Live(r)) = kNumRxRingEntries

\* A pending request belongs to a live client session with a request in
\* flight, which answers the question in the scan ("XXX: Can this happen?",
\* rpc_pkt_loss.cc:66): no.  And a connecting session always is pending, so
\* its request is retransmitted until it is answered.
PendingLive ==
    \A r \in Rpcs :
        /\ \A n \in pending[r] :
             n \in Live(r) /\ vec[r][n].role = "kClient" /\ vec[r][n].state # "kConnected"
        /\ \A n \in Live(r) : vec[r][n].state = "kConnectInProgress" => n \in pending[r]

\* Session n of r is matched by session k of its server: the same token and
\* the same two endpoints.
Matched(r, n, k) ==
    LET s == vec[r][n]
        srv == s.server.rpc
    IN  /\ k \in Live(srv)
        /\ vec[srv][k] = [s EXCEPT !.role = "kServer", !.state = "kConnected"]

\* A connected client session has its counterpart at the server, however the
\* handshake's packets were delayed and repeated: data packets sent on it reach
\* the session that was created for it, and the server does not destroy it
\* before the client asks.
PeersAgree ==
    \A r \in Rpcs : \A n \in Live(r) :
        vec[r][n].role = "kClient" /\ vec[r][n].state = "kConnected"
            => Matched(r, n, vec[r][n].server.num)

\* The session a packet would be applied to, or Null.
Addressed(m) ==
    LET n == IF m.type = "kDisconnectReq" THEN m.server.num ELSE m.client.num
    IN  IF n \in Live(Target(m)) THEN vec[Target(m)][n] ELSE Null

\* The packets that a handler looks up by session number.
ByNumber == {m \in udp : hook[Target(m)] /\ m.type # "kConnectReq"}

\* The asserts of the handlers that look a session up by its number: the number
\* is in range (rpc_connect_handlers.cc:139, rpc_disconnect_handlers.cc:22, 75)
\* and the session found has the role, the state and the endpoints the packet
\* implies (rpc_connect_handlers.cc:149-155, rpc_disconnect_handlers.cc:33-35,
\* 84-87).
SmAsserts ==
    \A m \in ByNumber :
        LET s == Addressed(m)
        IN  /\ (IF m.type = "kDisconnectReq" THEN m.server.num ELSE m.client.num)
                  \in 1..Len(vec[Target(m)])
            /\ m.type = "kConnectResp" /\ Connecting(s) =>
                 /\ s.role = "kClient" /\ s.client = m.client
                 /\ s.server.rpc = m.server.rpc /\ s.server.num = kInvalidSessionNum
            /\ m.type = "kDisconnectReq" /\ s # Null =>
                 /\ s.role = "kServer" /\ s.state = "kConnected"
                 /\ s.client = m.client /\ s.server = m.server
            /\ m.type = "kDisconnectResp" /\ s # Null =>
                 /\ s.role = "kClient" /\ s.state = "kDisconnectInProgress"
                 /\ s.client = m.client /\ s.server = m.server

\* "Handle reordering. We don't need the session token for this."
\* (rpc_connect_handlers.cc:141, rpc_disconnect_handlers.cc:24, 77): a packet
\* that is looked up by number is never applied to another session than the
\* one it was sent for.
TokenUnneeded ==
    \A m \in ByNumber :
        LET s == Addressed(m)
        IN  s # Null /\ (m.type = "kConnectResp" => Connecting(s)) => s.token = m.token

\* A server session always has its client session, which can disconnect it,
\* unless the client was told that the connection failed: duplicates of a
\* connect request never create a second session, and a session given up by its
\* client after a failed resolution is given back.
Owned ==
    \A r \in Rpcs : \A n \in Live(r) :
        LET s == vec[r][n]
            c == s.client
        IN  s.role = "kServer" /\ events[s.token] # <<"kConnectFailed">> =>
              c.num \in Live(c.rpc) /\ vec[c.rpc][c.num].token = s.token

\* "The server didn't allocate session resources, so we can just destroy"
\* (rpc_connect_handlers.cc:168): no server session belongs to a session whose
\* client was told that the connection failed.
ServerDidntAllocate ==
    \A r \in Rpcs : \A n \in Live(r) :
        vec[r][n].role = "kServer" => events[vec[r][n].token] # <<"kConnectFailed">>

\* "A session management callback of type kConnected or kConnectFailed will be
\* invoked after session creation completes or fails" (rpc.h:192): once a
\* session is no longer connecting, its first callback was one of the two, it
\* got no second one of them, and kDisconnected only after kConnected.
CreateCalledBack ==
    \A t \in 1..created :
        /\ events[t] \in {<<>>, <<"kConnected">>, <<"kConnectFailed">>,
                          <<"kConnected", "kDisconnected">>}
        /\ \A r \in Rpcs : \A n \in Live(r) :
             LET s == vec[r][n]
             IN  s.role = "kClient" /\ s.token = t =>
                   events[t] = (IF s.state = "kConnectInProgress" THEN <<>>
                                                                  ELSE <<"kConnected">>)

-------------------------------------------------------------------------------
(***************************************************************************)
(* Liveness.                                                               *)
(***************************************************************************)
\* A packet of type ty of the session with token t is received.
Receive(ty, t) ==
    \E m \in udp : m.type = ty /\ m.token = t /\ (sm_thread_func(m) \/ handle_sm_rx_st(m))

\* Rpcs are constructed, the event loops run their scans, and a packet sent
\* again and again is received again and again.
FairSpec ==
    /\ Spec
    /\ \A r \in Rpcs :
         /\ WF_vars(Rpc_ctor(r))
         /\ \A n \in 1..MaxSessions : WF_vars(n <= Len(vec[r]) /\ pkt_loss_scan_st(r, n))
    /\ \A t \in Token : \A ty \in Reqs \cup Resps : SF_vars(Receive(ty, t))

\* Nobody is left to be called back about the session with token t: its client
\* Rpc was deleted with it, or keeps asking an Rpc that was deleted for good.
Abandoned(t) ==
    \A r \in Rpcs : \A n \in Live(r) :
        LET s == vec[r][n]
        IN  s.role = "kClient" /\ s.token = t =>
              ~hook[s.server.rpc] /\ built[s.server.rpc] = MaxRpcs

\* Every session that is created gets a callback, although any packet may be
\* lost any number of times and the remote Rpc may not exist yet, or be deleted
\* and created again in the middle of the handshake.
CreateCompletes == \A t \in Token : created >= t ~> events[t] # <<>> \/ Abandoned(t)

Disconnecting(t) ==
    \E r \in Rpcs : \E n \in Live(r) :
        vec[r][n].token = t /\ vec[r][n].state = "kDisconnectInProgress"

\* destroy_session returns 0 "if the session disconnect packet was sent, and
\* the disconnect callback will be invoked later" (rpc.h:221).
DestroyCompletes == \A t \in Token : Disconnecting(t) ~> ~Disconnecting(t)
===============================================================================
