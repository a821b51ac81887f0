------------------------------ MODULE RpcDatapath ------------------------------
(***************************************************************************)
(* The eRPC datapath between the client end and the server end of one      *)
(* connected session: src/peer/erpc/rpc_impl/rpc_{req,resp,cr,rfr,kick,    *)
(* pkt_loss,queues,rx}.cc with the helpers of rpc.h, sslot.h, session.h.   *)
(*                                                                         *)
(* A session has kSessionReqWindow slots; each carries one request at a    *)
(* time.  Packets are numbered per request: 0 .. ReqPkts-1 are the request *)
(* packets, acknowledged by explicit credit returns (CRs) except for the   *)
(* last, which the first response packet acknowledges; packets ReqPkts ..  *)
(* are requests-for-response (RFRs), each answered by one response packet. *)
(* The client counts packets sent (num_tx) and packets acknowledged        *)
(* (num_rx) and spends one credit for each packet in between.              *)
(*                                                                         *)
(* The two Rpc objects are single-threaded event loops, so one call of a   *)
(* handler is one action; the order of the calls within a loop iteration   *)
(* is left open.  The network may lose, reorder and duplicate packets: a   *)
(* delivered packet stays in net, and Lose removes it.  A handler that     *)
(* drops a packet changes nothing, so it is a stuttering step and has no   *)
(* action of its own: the drop conditions of the code are the negations    *)
(* of the guards below.                                                    *)
(***************************************************************************)
EXTENDS Integers, Sequences, FiniteSets

CONSTANTS
    Req,                \* the requests the client application may issue
    NoReq,              \* a null MsgBuffer pointer / an invalid request type
    ReqPkts,            \* number of packets of each request MsgBuffer
    RespPkts,           \* number of packets of each response MsgBuffer
    MaxPkts,            \* bound on both
    kSessionReqWindow,  \* number of slots of a session
    kSessionCredits,    \* number of credits of a session
    kCcPacing           \* is the timing wheel compiled in?

ASSUME ReqAssumption == NoReq \notin Req

ASSUME PktsAssumption ==
    /\ MaxPkts \in Nat
    /\ ReqPkts \in [Req -> 1..MaxPkts]
    /\ RespPkts \in [Req -> 1..MaxPkts]

ASSUME SessionAssumption ==
    /\ kSessionReqWindow \in Nat \ {0}
    /\ kSessionCredits \in Nat \ {0}
    /\ kCcPacing \in BOOLEAN

VARIABLES
    (* What the two applications see. *)
    issued,      \* requests given to enqueue_request()
    execs,       \* per request, the buffers its handler was invoked on
    responded,   \* requests answered with enqueue_response()
    conts,       \* per request, the buffers its continuation was invoked on
    (* The client's session. *)
    credits,     \* credits_
    free,        \* sslot_free_vec_, as a set
    backlog,     \* enq_req_backlog_
    stallq,      \* stallq_
    (* The client's slots. *)
    cReq,        \* tx_msgbuf_: the active request, or NoReq
    cCur,        \* cur_req_num_
    num_tx,      \* num_tx_
    num_rx,      \* num_rx_
    respN,       \* resp_msgbuf_->num_pkts_
    respBuf,     \* pieces copied into resp_msgbuf_
    reqNum,      \* the req_num_ in the header of each request MsgBuffer
    (* The client's timing wheel. *)
    wheel,       \* entries <<slot, packet number>> of wheel_
    in_wheel,    \* per slot, the indexes i with in_wheel_[i] = true
    wheel_count, \* wheel_count_
    (* The server's slots. *)
    sTx,         \* tx_msgbuf_: the request whose response is held, or NoReq
    sCur,        \* cur_req_num_
    sNumRx,      \* num_rx_
    req_type,    \* the request awaiting enqueue_response(), or NoReq
    reqN,        \* req_msgbuf_.num_pkts_
    reqBuf,      \* pieces copied into req_msgbuf_, {} when it is buried
    sav,         \* sav_num_req_pkts_
    (* Packets. *)
    txq,         \* data packets in a TX batch or DMA queue, not yet read by a NIC
    net          \* packets in the network

appVars    == <<issued, execs, responded, conts>>
sessVars   == <<credits, free, backlog, stallq>>
slotVars   == <<cReq, cCur, num_tx, num_rx, respN, respBuf, reqNum>>
wheelVars  == <<wheel, in_wheel, wheel_count>>
clientVars == <<sessVars, slotVars, wheelVars>>
serverVars == <<sTx, sCur, sNumRx, req_type, reqN, reqBuf, sav>>
vars == <<appVars, clientVars, serverVars, txq, net>>

Slots == 0..(kSessionReqWindow - 1)

SlotOf(n) == n % kSessionReqWindow

Minimum(a, b) == IF a < b THEN a ELSE b

-------------------------------------------------------------------------------
(***************************************************************************)
(* Packets.  num_pkts stands for msg_size_, from which the receiver        *)
(* computes the number of packets of the message; <<msg, idx>> is the      *)
(* piece of data the packet carries.                                       *)
(***************************************************************************)
PktType == {"req", "resp", "cr", "rfr"}

Pkt == [type : PktType, req_num : Nat, pkt_num : Nat, num_pkts : Nat,
        msg : Req \cup {NoReq}, idx : Nat]

\* Packet i of the request MsgBuffer of r, whose header holds req_num n.
ReqPkt(r, n, i) ==
    [type |-> "req", req_num |-> n, pkt_num |-> i,
     num_pkts |-> ReqPkts[r], msg |-> r, idx |-> i]

\* Response packet with index i of the response held by server slot s.
RespPkt(s, r, reqPkts, i) ==
    [type |-> "resp", req_num |-> sCur[s], pkt_num |-> reqPkts - 1 + i,
     num_pkts |-> RespPkts[r], msg |-> r, idx |-> i]

CtrlPkt(type, n, i) ==
    [type |-> type, req_num |-> n, pkt_num |-> i,
     num_pkts |-> 0, msg |-> NoReq, idx |-> 0]

ClientTx == {m \in txq : m.type = "req"}
ServerTx == {m \in txq : m.type = "resp"}

\* Data packets join the TX batch; header-only packets do not refer to a
\* slot's MsgBuffer, so they count as sent.
Post(data, ctrl) ==
    /\ txq' = txq \cup data
    /\ net' = net \cup ctrl

\* The same, followed by drain_tx_batch_and_dma_queue() at the end whose
\* pending packets are mine.
PostAndDrain(mine, data, ctrl) ==
    /\ txq' = txq \ mine
    /\ net' = net \cup mine \cup data \cup ctrl

-------------------------------------------------------------------------------
(***************************************************************************)
(* Client: sending.                                                        *)
(***************************************************************************)
\* Variants that miscount: one packet too many, one too few.
wire_pkts_long(r, n) == ReqPkts[r] + n
wire_pkts_short(r, n) == ReqPkts[r] + n - 2

wire_pkts(r, n) == ReqPkts[r] + n - 1

req_pkts_pending(s) == num_tx[s] < ReqPkts[cReq[s]]

\* can_bypass_wheel() of an uncongested session.  Timely's rate is left open, so
\* with pacing any session may be congested and use the wheel instead.
can_bypass_wheel(s) == kCcPacing => wheel_count[s] = 0

\* kick_req_st() for slot s and request r, numbered num, with num_tx_ = from and
\* credits_ = crd; drain tells whether the caller drains the TX queue next.
kick_req_st(s, r, num, from, crd, drain) ==
    LET sending == Minimum(crd, ReqPkts[r] - from)
        nums    == from..(from + sending - 1)
        Send(data) == IF drain THEN PostAndDrain(ClientTx, data, {})
                               ELSE Post(data, {})
    IN  /\ num_tx' = [num_tx EXCEPT ![s] = from + sending]
        /\ credits' = crd - sending
        /\ \/ /\ can_bypass_wheel(s)
              /\ Send({ReqPkt(r, num, i) : i \in nums})
              /\ UNCHANGED wheelVars
           \/ /\ kCcPacing
              /\ Send({})
              /\ wheel' = wheel \cup {<<s, i>> : i \in nums}
              /\ in_wheel' = [in_wheel EXCEPT ![s] =
                                @ \cup {i % kSessionCredits : i \in nums}]
              /\ wheel_count' = [wheel_count EXCEPT ![s] = @ + sending]

\* kick_rfr_st() for slot s whose response has n packets.
kick_rfr_st(s, n, from, crd, drain) ==
    LET sending == Minimum(crd, wire_pkts(cReq[s], n) - from)
        rfrs    == {CtrlPkt("rfr", cCur[s], i) : i \in from..(from + sending - 1)}
    IN  /\ num_tx' = [num_tx EXCEPT ![s] = from + sending]
        /\ credits' = crd - sending
        /\ IF drain THEN PostAndDrain(ClientTx, {}, rfrs) ELSE Post({}, rfrs)

\* Variant that never queues a slot for credits.
StartRequest_unqueued(s, r, crd) ==
    LET num == cCur[s] + kSessionReqWindow
    IN  /\ cReq' = [cReq EXCEPT ![s] = r]
        /\ cCur' = [cCur EXCEPT ![s] = num]
        /\ reqNum' = [reqNum EXCEPT ![r] = num]
        /\ num_rx' = [num_rx EXCEPT ![s] = 0]
        /\ respN' = [respN EXCEPT ![s] = MaxPkts]
        /\ respBuf' = [respBuf EXCEPT ![s] = {}]
        /\ kick_req_st(s, r, num, 0, crd, FALSE)
        /\ UNCHANGED stallq

\* The part of enqueue_request() that follows the choice of the free slot s,
\* with crd credits available.
StartRequest(s, r, crd) ==
    LET num == cCur[s] + kSessionReqWindow
    IN  /\ cReq' = [cReq EXCEPT ![s] = r]
        /\ cCur' = [cCur EXCEPT ![s] = num]
        /\ reqNum' = [reqNum EXCEPT ![r] = num]
        /\ num_rx' = [num_rx EXCEPT ![s] = 0]
        /\ respN' = [respN EXCEPT ![s] = MaxPkts]
        /\ respBuf' = [respBuf EXCEPT ![s] = {}]
        /\ IF crd > 0
           THEN /\ kick_req_st(s, r, num, 0, crd, FALSE)
                /\ UNCHANGED stallq
           ELSE /\ num_tx' = [num_tx EXCEPT ![s] = 0]
                /\ credits' = crd
                /\ stallq' = Append(stallq, s)
                /\ UNCHANGED <<wheelVars, txq, net>>

enqueue_request(r) ==
    /\ r \notin issued
    /\ issued' = issued \cup {r}
    /\ \/ /\ free = {}
          /\ backlog' = Append(backlog, r)
          /\ UNCHANGED <<credits, free, stallq, slotVars, wheelVars, txq, net>>
       \/ \E s \in free :
             /\ free' = free \ {s}
             /\ StartRequest(s, r, credits)
             /\ UNCHANGED backlog
    /\ UNCHANGED <<execs, responded, conts, serverVars>>

\* One slot of the loop in process_credit_stall_queue_st().
process_credit_stall_queue_st ==
    /\ stallq # <<>>
    /\ credits > 0
    /\ LET s == Head(stallq)
       IN  IF req_pkts_pending(s)
           THEN kick_req_st(s, cReq[s], reqNum[cReq[s]], num_tx[s], credits, FALSE)
           ELSE /\ kick_rfr_st(s, respN[s], num_tx[s], credits, FALSE)
                /\ UNCHANGED wheelVars
    /\ stallq' = Tail(stallq)
    /\ UNCHANGED <<appVars, free, backlog, cReq, cCur, num_rx, respN, respBuf,
                   reqNum, serverVars>>

\* One ready entry of the loop in process_wheel_st().  Only request packets
\* enter the wheel (RFRs are not paced), so its RFR branch is dead code.
process_wheel_st(s, i) ==
    /\ <<s, i>> \in wheel
    /\ wheel' = wheel \ {<<s, i>>}
    /\ in_wheel' = [in_wheel EXCEPT ![s] = @ \ {i % kSessionCredits}]
    /\ wheel_count' = [wheel_count EXCEPT ![s] = @ - 1]
    /\ IF i < ReqPkts[cReq[s]]
       THEN Post({ReqPkt(cReq[s], reqNum[cReq[s]], i)}, {})
       ELSE Post({}, {CtrlPkt("rfr", cCur[s], num_tx[s])})
    /\ UNCHANGED <<appVars, sessVars, slotVars, serverVars>>

\* Variant that does not wait for the wheel to drain.
pkt_loss_scan_st_in_wheel(s) ==
    /\ cReq[s] # NoReq
    /\ num_tx[s] # num_rx[s]
    /\ num_rx[s] < ReqPkts[cReq[s]]
    /\ kick_req_st(s, cReq[s], reqNum[cReq[s]], num_rx[s],
                   credits + (num_tx[s] - num_rx[s]), TRUE)
    /\ UNCHANGED <<appVars, free, backlog, stallq, cReq, cCur, num_rx, respN,
                   respBuf, reqNum, serverVars>>

\* Variant that does not drain the TX batch and DMA queue.
pkt_loss_scan_st_undrained(s) ==
    /\ cReq[s] # NoReq
    /\ num_tx[s] # num_rx[s]
    /\ wheel_count[s] = 0
    /\ num_rx[s] < ReqPkts[cReq[s]]
    /\ kick_req_st(s, cReq[s], reqNum[cReq[s]], num_rx[s],
                   credits + (num_tx[s] - num_rx[s]), FALSE)
    /\ UNCHANGED <<appVars, free, backlog, stallq, cReq, cCur, num_rx, respN,
                   respBuf, reqNum, serverVars>>

\* The visit of an active slot by pkt_loss_scan_st() when its RTO has expired:
\* pkt_loss_retransmit_st(), then drain_tx_batch_and_dma_queue().
pkt_loss_scan_st(s) ==
    /\ cReq[s] # NoReq
    /\ num_tx[s] # num_rx[s]
    /\ \/ /\ wheel_count[s] > 0
          /\ PostAndDrain(ClientTx, {}, {})
          /\ UNCHANGED <<num_tx, credits, wheelVars>>
       \/ /\ wheel_count[s] = 0
          /\ LET crd == credits + (num_tx[s] - num_rx[s])
             IN  IF num_rx[s] < ReqPkts[cReq[s]]
                 THEN kick_req_st(s, cReq[s], reqNum[cReq[s]], num_rx[s], crd, TRUE)
                 ELSE /\ kick_rfr_st(s, respN[s], num_rx[s], crd, TRUE)
                      /\ UNCHANGED wheelVars
    /\ UNCHANGED <<appVars, free, backlog, stallq, cReq, cCur, num_rx, respN,
                   respBuf, reqNum, serverVars>>

-------------------------------------------------------------------------------
(***************************************************************************)
(* Client: receiving.                                                      *)
(***************************************************************************)
\* Variants without one of the checks.
in_order_client_any_pkt(s, m) ==
    /\ m.req_num = cCur[s]
    /\ m.pkt_num < num_tx[s]
    /\ kCcPacing => (m.pkt_num % kSessionCredits) \notin in_wheel[s]

in_order_client_any_req(s, m) ==
    /\ m.pkt_num = num_rx[s]
    /\ m.pkt_num < num_tx[s]
    /\ kCcPacing => (m.pkt_num % kSessionCredits) \notin in_wheel[s]

in_order_client(s, m) ==
    /\ m.req_num = cCur[s]
    /\ m.pkt_num = num_rx[s]
    /\ m.pkt_num < num_tx[s]
    /\ kCcPacing => (m.pkt_num % kSessionCredits) \notin in_wheel[s]

\* Variant that forgets bump_credits().
process_expl_cr_st_unbumped(m) ==
    LET s == SlotOf(m.req_num)
    IN  /\ m.type = "cr"
        /\ in_order_client(s, m)
        /\ num_rx' = [num_rx EXCEPT ![s] = @ + 1]
        /\ IF req_pkts_pending(s) /\ credits > 0
           THEN kick_req_st(s, cReq[s], reqNum[cReq[s]], num_tx[s], credits, FALSE)
           ELSE UNCHANGED <<credits, num_tx, wheelVars, txq, net>>
        /\ UNCHANGED <<appVars, free, backlog, stallq, cReq, cCur, respN,
                       respBuf, reqNum, serverVars>>

process_expl_cr_st(m) ==
    LET s == SlotOf(m.req_num)
    IN  /\ m.type = "cr"
        /\ in_order_client(s, m)
        /\ num_rx' = [num_rx EXCEPT ![s] = @ + 1]
        /\ IF req_pkts_pending(s)
           THEN kick_req_st(s, cReq[s], reqNum[cReq[s]], num_tx[s],
                            credits + 1, FALSE)
           ELSE /\ credits' = credits + 1
                /\ UNCHANGED <<num_tx, wheelVars, txq, net>>
        /\ UNCHANGED <<appVars, free, backlog, stallq, cReq, cCur, respN,
                       respBuf, reqNum, serverVars>>

resp_ntoi(pkt_num, reqPkts) == pkt_num - (reqPkts - 1)

\* Variant that frees the slot even when a request waits in the backlog.
CompleteRequest_idle(s, buf) ==
    /\ conts' = [conts EXCEPT ![cReq[s]] = Append(@, buf)]
    /\ cReq' = [cReq EXCEPT ![s] = NoReq]
    /\ num_rx' = [num_rx EXCEPT ![s] = @ + 1]
    /\ respBuf' = [respBuf EXCEPT ![s] = {}]
    /\ credits' = credits + 1
    /\ free' = free \cup {s}
    /\ UNCHANGED <<issued, execs, responded, backlog, stallq, cCur, num_tx, respN,
                   reqNum, wheelVars, txq, net>>

\* The tail of process_resp_one_st(): the whole response is in buf.  The freed
\* slot is the only free one if there is a backlog, so it is the one reused.
CompleteRequest(s, buf) ==
    /\ conts' = [conts EXCEPT ![cReq[s]] = Append(@, buf)]
    /\ \/ /\ backlog = <<>>
          /\ cReq' = [cReq EXCEPT ![s] = NoReq]
          /\ num_rx' = [num_rx EXCEPT ![s] = @ + 1]
          /\ respBuf' = [respBuf EXCEPT ![s] = {}]
          /\ credits' = credits + 1
          /\ free' = free \cup {s}
          /\ UNCHANGED <<backlog, stallq, cCur, num_tx, respN, reqNum,
                         wheelVars, txq, net>>
       \/ /\ backlog # <<>>
          /\ backlog' = Tail(backlog)
          /\ StartRequest(s, Head(backlog), credits + 1)
          /\ UNCHANGED free
    /\ UNCHANGED <<issued, execs, responded>>

\* A response packet that completes the response.
RespLast(s, m) ==
    LET single == m.num_pkts = 1
        first  == m.pkt_num = ReqPkts[cReq[s]] - 1
        n      == IF single \/ first THEN m.num_pkts ELSE respN[s]
        pos    == IF single THEN 0 ELSE resp_ntoi(m.pkt_num, ReqPkts[cReq[s]])
        kept   == IF single THEN {} ELSE respBuf[s]
    IN  /\ single \/ num_rx[s] + 1 = wire_pkts(cReq[s], n)
        /\ CompleteRequest(s, kept \cup {<<pos, m.msg, m.idx>>})

\* A response packet after which more are to come; the remaining RFRs go out.
RespMore(s, m) ==
    LET first == m.pkt_num = ReqPkts[cReq[s]] - 1
        n     == IF first THEN m.num_pkts ELSE respN[s]
        pos   == resp_ntoi(m.pkt_num, ReqPkts[cReq[s]])
    IN  /\ m.num_pkts > 1
        /\ num_rx[s] + 1 # wire_pkts(cReq[s], n)
        /\ num_rx' = [num_rx EXCEPT ![s] = @ + 1]
        /\ respN' = [respN EXCEPT ![s] = n]
        /\ respBuf' = [respBuf EXCEPT ![s] = @ \cup {<<pos, m.msg, m.idx>>}]
        /\ IF num_tx[s] # wire_pkts(cReq[s], n)
           THEN kick_rfr_st(s, n, num_tx[s], credits + 1, FALSE)
           ELSE credits' = credits + 1 /\ UNCHANGED <<num_tx, txq, net>>
        /\ UNCHANGED <<appVars, free, backlog, stallq, cReq, cCur, reqNum,
                       wheelVars>>

process_resp_one_st(m) ==
    LET s == SlotOf(m.req_num)
    IN  /\ m.type = "resp"
        /\ in_order_client(s, m)
        /\ RespLast(s, m) \/ RespMore(s, m)
        /\ UNCHANGED serverVars

-------------------------------------------------------------------------------
(***************************************************************************)
(* Server.                                                                 *)
(***************************************************************************)
\* The handler of request r is invoked, in the foreground or submitted to a
\* background thread, on the pieces in buf.
InvokeHandler(s, r, buf) ==
    /\ req_type' = [req_type EXCEPT ![s] = r]
    /\ execs' = [execs EXCEPT ![r] = Append(@, buf)]
    /\ UNCHANGED <<issued, responded, conts>>

\* Variant that does not drain the TX batch and DMA queue.
ResendResp_undrained(s, i) ==
    /\ Post({RespPkt(s, sTx[s], sav[s], i)}, {})
    /\ UNCHANGED <<appVars, clientVars, serverVars>>

\* Re-send packet i of the response held by slot s, then drain.
ResendResp(s, i) ==
    /\ PostAndDrain(ServerTx, {RespPkt(s, sTx[s], sav[s], i)}, {})
    /\ UNCHANGED <<appVars, clientVars, serverVars>>

\* Variant that treats a retransmission as a new request.
process_small_req_st_again(m) ==
    LET s == SlotOf(m.req_num)
    IN  /\ m.type = "req" /\ m.num_pkts = 1
        /\ m.req_num >= sCur[s]
        /\ sTx' = [sTx EXCEPT ![s] = NoReq]
        /\ sCur' = [sCur EXCEPT ![s] = m.req_num]
        /\ sNumRx' = [sNumRx EXCEPT ![s] = 1]
        /\ reqN' = [reqN EXCEPT ![s] = 1]
        /\ reqBuf' = [reqBuf EXCEPT ![s] = {<<0, m.msg, m.idx>>}]
        /\ InvokeHandler(s, m.msg, {<<0, m.msg, m.idx>>})
        /\ UNCHANGED <<sav, clientVars, txq, net>>

process_small_req_st(m) ==
    LET s == SlotOf(m.req_num)
    IN  /\ m.type = "req" /\ m.num_pkts = 1
        /\ \/ m.req_num = sCur[s] /\ sTx[s] # NoReq /\ ResendResp(s, 0)
           \/ /\ m.req_num > sCur[s]
              /\ sTx' = [sTx EXCEPT ![s] = NoReq]
              /\ sCur' = [sCur EXCEPT ![s] = m.req_num]
              /\ sNumRx' = [sNumRx EXCEPT ![s] = 1]
              /\ reqN' = [reqN EXCEPT ![s] = 1]
              /\ reqBuf' = [reqBuf EXCEPT ![s] = {<<0, m.msg, m.idx>>}]
              /\ InvokeHandler(s, m.msg, {<<0, m.msg, m.idx>>})
              /\ UNCHANGED <<sav, clientVars, txq, net>>

\* An in-order packet of a multi-packet request.
LargeReqInOrder(s, m) ==
    LET n   == IF m.pkt_num = 0 THEN m.num_pkts ELSE reqN[s]
        got == IF m.pkt_num = 0 THEN 1 ELSE sNumRx[s] + 1
        buf == (IF m.pkt_num = 0 THEN {} ELSE reqBuf[s])
                  \cup {<<m.pkt_num, m.msg, m.idx>>}
    IN  /\ \/ m.req_num = sCur[s] /\ m.pkt_num = sNumRx[s]
           \/ m.req_num = sCur[s] + kSessionReqWindow /\ m.pkt_num = 0
        /\ sTx' = IF m.pkt_num = 0 THEN [sTx EXCEPT ![s] = NoReq] ELSE sTx
        /\ sCur' = IF m.pkt_num = 0 THEN [sCur EXCEPT ![s] = m.req_num] ELSE sCur
        /\ sNumRx' = [sNumRx EXCEPT ![s] = got]
        /\ reqN' = [reqN EXCEPT ![s] = n]
        /\ reqBuf' = [reqBuf EXCEPT ![s] = buf]
        /\ Post({}, IF m.pkt_num # n - 1
                    THEN {CtrlPkt("cr", m.req_num, m.pkt_num)} ELSE {})
        /\ IF got = n
           THEN InvokeHandler(s, m.msg, buf)
           ELSE UNCHANGED <<appVars, req_type>>
        /\ UNCHANGED <<sav, clientVars>>

\* A packet of the current request that was received before.
LargeReqPast(s, m) ==
    /\ m.req_num = sCur[s]
    /\ m.pkt_num < sNumRx[s]
    /\ \/ /\ m.pkt_num # m.num_pkts - 1
          /\ Post({}, {CtrlPkt("cr", m.req_num, m.pkt_num)})
          /\ UNCHANGED <<appVars, clientVars, serverVars>>
       \/ /\ m.pkt_num = m.num_pkts - 1
          /\ sTx[s] # NoReq
          /\ ResendResp(s, 0)

process_large_req_one_st(m) ==
    LET s == SlotOf(m.req_num)
    IN  /\ m.type = "req" /\ m.num_pkts > 1
        /\ LargeReqInOrder(s, m) \/ LargeReqPast(s, m)

\* The handler of the request in slot s answers, in the foreground or through
\* the background queue.
enqueue_response(s) ==
    LET r == req_type[s]
    IN  /\ r # NoReq
        /\ responded' = responded \cup {r}
        /\ sav' = [sav EXCEPT ![s] = reqN[s]]
        /\ reqBuf' = [reqBuf EXCEPT ![s] = {}]
        /\ sTx' = [sTx EXCEPT ![s] = r]
        /\ req_type' = [req_type EXCEPT ![s] = NoReq]
        /\ Post({RespPkt(s, r, reqN[s], 0)}, {})
        /\ UNCHANGED <<issued, execs, conts, clientVars, sCur, sNumRx, reqN>>

\* Variant that drops the RFR of a packet it has already sent.
process_rfr_st_once(m) ==
    LET s == SlotOf(m.req_num)
        i == resp_ntoi(m.pkt_num, sav[s])
    IN  /\ m.type = "rfr"
        /\ m.req_num = sCur[s]
        /\ m.pkt_num = sNumRx[s]
        /\ sNumRx' = [sNumRx EXCEPT ![s] = @ + 1]
        /\ Post({RespPkt(s, sTx[s], sav[s], i)}, {})
        /\ UNCHANGED <<appVars, clientVars, sTx, sCur, req_type, reqN, reqBuf, sav>>

process_rfr_st(m) ==
    LET s == SlotOf(m.req_num)
        i == resp_ntoi(m.pkt_num, sav[s])
    IN  /\ m.type = "rfr"
        /\ m.req_num = sCur[s]
        /\ \/ /\ m.pkt_num = sNumRx[s]
              /\ sNumRx' = [sNumRx EXCEPT ![s] = @ + 1]
              /\ Post({RespPkt(s, sTx[s], sav[s], i)}, {})
              /\ UNCHANGED <<appVars, clientVars, sTx, sCur, req_type, reqN,
                             reqBuf, sav>>
           \/ /\ m.pkt_num < sNumRx[s]
              /\ ResendResp(s, i)

-------------------------------------------------------------------------------
(***************************************************************************)
(* NICs and network.                                                       *)
(***************************************************************************)
\* A NIC reads a posted data packet from memory and transmits it.
NicTx(m) ==
    /\ txq' = txq \ {m}
    /\ net' = net \cup {m}
    /\ UNCHANGED <<appVars, clientVars, serverVars>>

Lose(m) ==
    /\ net' = net \ {m}
    /\ UNCHANGED <<appVars, clientVars, serverVars, txq>>

\* process_comps_st() hands a received packet to the handler of its type.
process_comps_st(m) ==
    \/ process_small_req_st(m)
    \/ process_large_req_one_st(m)
    \/ process_resp_one_st(m)
    \/ process_rfr_st(m)
    \/ process_expl_cr_st(m)

Init ==
    /\ issued = {}
    /\ execs = [r \in Req |-> <<>>]
    /\ responded = {}
    /\ conts = [r \in Req |-> <<>>]
    /\ credits = kSessionCredits
    /\ free = Slots
    /\ backlog = <<>>
    /\ stallq = <<>>
    /\ cReq = [s \in Slots |-> NoReq]
    /\ cCur = [s \in Slots |-> s]
    /\ num_tx = [s \in Slots |-> 0]
    /\ num_rx = [s \in Slots |-> 0]
    /\ respN = [s \in Slots |-> 0]
    /\ respBuf = [s \in Slots |-> {}]
    /\ reqNum = [r \in Req |-> 0]
    /\ wheel = {}
    /\ in_wheel = [s \in Slots |-> {}]
    /\ wheel_count = [s \in Slots |-> 0]
    /\ sTx = [s \in Slots |-> NoReq]
    /\ sCur = [s \in Slots |-> s]
    /\ sNumRx = [s \in Slots |-> 0]
    /\ req_type = [s \in Slots |-> NoReq]
    /\ reqN = [s \in Slots |-> 0]
    /\ reqBuf = [s \in Slots |-> {}]
    /\ sav = [s \in Slots |-> 0]
    /\ txq = {}
    /\ net = {}

Step ==
    \/ \E r \in Req : enqueue_request(r)
    \/ process_credit_stall_queue_st
    \/ \E e \in wheel : process_wheel_st(e[1], e[2])
    \/ \E s \in Slots : enqueue_response(s)
    \/ \E m \in net : process_comps_st(m)
    \/ \E m \in txq : NicTx(m)
    \/ \E m \in net : Lose(m)

Next == Step \/ \E s \in Slots : pkt_loss_scan_st(s)

Spec == Init /\ [][Next]_vars

-------------------------------------------------------------------------------
(***************************************************************************)
(* Safety.                                                                 *)
(***************************************************************************)
Pieces == SUBSET (Nat \X Req \X Nat)

\* Every variable has the type the C++ field it stands for has; in particular
\* credits_ never leaves 0..kSessionCredits and every header-field arithmetic
\* (resp_ntoi, pkt_num_ of a response) stays non-negative.
TypeOK ==
    /\ issued \subseteq Req
    /\ execs \in [Req -> Seq(Pieces)]
    /\ responded \subseteq Req
    /\ conts \in [Req -> Seq(Pieces)]
    /\ credits \in 0..kSessionCredits
    /\ free \subseteq Slots
    /\ backlog \in Seq(Req)
    /\ stallq \in Seq(Slots)
    /\ cReq \in [Slots -> Req \cup {NoReq}]
    /\ cCur \in [Slots -> Nat]
    /\ num_tx \in [Slots -> Nat]
    /\ num_rx \in [Slots -> Nat]
    /\ respN \in [Slots -> Nat]
    /\ respBuf \in [Slots -> Pieces]
    /\ reqNum \in [Req -> Nat]
    /\ wheel \subseteq Slots \X Nat
    /\ in_wheel \in [Slots -> SUBSET (0..(kSessionCredits - 1))]
    /\ wheel_count \in [Slots -> Nat]
    /\ sTx \in [Slots -> Req \cup {NoReq}]
    /\ sCur \in [Slots -> Nat]
    /\ sNumRx \in [Slots -> Nat]
    /\ req_type \in [Slots -> Req \cup {NoReq}]
    /\ reqN \in [Slots -> Nat]
    /\ reqBuf \in [Slots -> Pieces]
    /\ sav \in [Slots -> Nat]
    /\ txq \subseteq Pkt
    /\ net \subseteq Pkt

\* The client slot holds an active request: tx_msgbuf_ is not null.
Active(s) == cReq[s] # NoReq

\* Packets sent and not yet acknowledged, given num_rx and num_tx.
Outstanding(rx, tx) ==
    {e \in Slots \X (0..(2 * MaxPkts)) : rx[e[1]] <= e[2] /\ e[2] < tx[e[1]]}

\* Every credit of the session is either available or spent on a packet that
\* is not acknowledged yet, through losses, rollbacks and slot reuse: the
\* asserts of bump_credits (rpc.h:826) and pkt_loss_retransmit_st
\* (rpc_pkt_loss.cc:99), and no credit is ever leaked.
CreditConservation ==
    credits + Cardinality(Outstanding(num_rx, num_tx)) = kSessionCredits

\* A slot is in sslot_free_vec_ exactly when it has no request, and requests
\* wait in the backlog only while there is no free slot (the assert at
\* rpc_resp.cc:156): a freed slot never idles while a request waits.
SlotBookkeeping ==
    /\ free = {s \in Slots : ~Active(s)}
    /\ backlog # <<>> => free = {}

\* The loss scan skips a slot with num_tx_ = num_rx_ as "just stalled on
\* credits" (rpc_pkt_loss.cc:18), so such a slot must be in stallq_, once, or
\* nothing would ever send for it; a slot with packets outstanding must not
\* (the assert at rpc_pkt_loss.cc:107).
StalledIffIdle ==
    /\ \A s \in Slots :
         (\E i \in 1..Len(stallq) : stallq[i] = s)
            <=> Active(s) /\ num_tx[s] = num_rx[s]
    /\ \A i, j \in 1..Len(stallq) : stallq[i] = stallq[j] => i = j

WheelEntries(s) == {e \in wheel : e[1] = s}

\* in_wheel_[n % kSessionCredits] is true iff packet n is in the wheel
\* (sslot.h:77), wheel_count_ counts the entries, no two entries share an
\* index, and an entry never outlives the transmission it stands for: its
\* request is active and its packet unacknowledged, so process_wheel_st never
\* dereferences a null tx_msgbuf_.
WheelTracking ==
    \A s \in Slots :
        /\ in_wheel[s] = {e[2] % kSessionCredits : e \in WheelEntries(s)}
        /\ wheel_count[s] = Cardinality(WheelEntries(s))
        /\ \A e, f \in WheelEntries(s) :
             e[2] % kSessionCredits = f[2] % kSessionCredits => e = f
        /\ \A e \in WheelEntries(s) :
             Active(s) /\ num_rx[s] <= e[2] /\ e[2] < num_tx[s]

\* The ordering asserts of the packet handlers: a request packet is at most one
\* window ahead of the server slot (rpc_req.cc:111), and CRs, responses and
\* RFRs are never ahead of the slot they reach (rpc_cr.cc:30, rpc_resp.cc:76,
\* rpc_rfr.cc:35).
ReqNumAsserts ==
    \A m \in net \cup txq :
        LET s == SlotOf(m.req_num)
        IN  /\ m.type = "req" => m.req_num <= sCur[s] + kSessionReqWindow
            /\ m.type \in {"resp", "cr"} => m.req_num <= cCur[s]
            /\ m.type = "rfr" => m.req_num <= sCur[s]

\* process_rfr_st answers an RFR of the current request without checking that
\* it still holds the response ("we still have the response, and we saved
\* request packet count", rpc_rfr.cc:56): it does, and the packet index it
\* computes lies within the response.
RfrHasResponse ==
    \A m \in net :
        LET s == SlotOf(m.req_num)
        IN  m.type = "rfr" /\ m.req_num = sCur[s] /\ m.pkt_num <= sNumRx[s]
              => /\ sTx[s] # NoReq
                 /\ resp_ntoi(m.pkt_num, sav[s]) \in 0..(RespPkts[sTx[s]] - 1)

\* in_order_client accepts a packet only for a slot whose request is active: a
\* late duplicate never reaches the code that dereferences tx_msgbuf_ after it
\* was set to null (rpc_resp.cc:140).
AcceptOnlyActive ==
    \A m \in net :
        LET s == SlotOf(m.req_num)
        IN  m.type \in {"resp", "cr"} /\ in_order_client(s, m) => Active(s)

\* The client has finished with the request server slot s is at.
Done(s) == ~Active(s) \/ sCur[s] # cCur[s]

\* When the client has finished with a request the server slot has buried its
\* MsgBuffer, awaits no enqueue_response() and, if it holds a response, has
\* finished sending it: what the handlers assert of the slot when the next
\* request arrives (rpc_req.cc:114, 129, 213, 245) and handle_disconnect_req_st
\* of every slot (rpc_disconnect_handlers.cc:38-49).
ServerQuiesced ==
    \A s \in Slots :
        Done(s) =>
            /\ reqBuf[s] = {}
            /\ req_type[s] = NoReq
            /\ sTx[s] # NoReq => sNumRx[s] = sav[s] + RespPkts[sTx[s]] - 1

\* "The TX batch or DMA queue cannot contain a reference because we drain it
\* after retransmission" (rpc_resp.cc:133): a queued request packet belongs to
\* the active request of its slot, so the NIC never reads a request MsgBuffer
\* that the continuation has given back to the application.
NoClientTxReference ==
    \A m \in ClientTx :
        LET s == SlotOf(m.req_num)
        IN  cReq[s] = m.msg /\ cCur[s] = m.req_num

\* The same at the server: a queued response packet belongs to the response its
\* slot holds, so the NIC never reads a response MsgBuffer that was buried and
\* freed when the next request arrived (rpc.h:499).
NoServerTxReference ==
    \A m \in ServerTx :
        LET s == SlotOf(m.req_num)
        IN  sTx[s] = m.msg /\ sCur[s] = m.req_num

\* The service's variables are history variables of the datapath.
Service == INSTANCE RpcService WITH
                  Req <- Req, ReqPkts <- ReqPkts, RespPkts <- RespPkts,
                  issued <- issued, execs <- execs, responded <- responded, conts <- conts

\* The datapath implements RpcService: exactly the request's bytes reach the
\* handler, at most once, and exactly the response's bytes reach the
\* continuation, at most once and only after enqueue_response().
ServiceSpec == Service!Spec

-------------------------------------------------------------------------------
(***************************************************************************)
(* Liveness.                                                               *)
(***************************************************************************)
\* A packet of the current request of slot s is received.
DeliverToServer(s, i) ==
    \E m \in net : /\ m.type \in {"req", "rfr"} /\ m.pkt_num = i
                   /\ SlotOf(m.req_num) = s /\ m.req_num = cCur[s]
                   /\ process_comps_st(m)
DeliverToClient(s) ==
    \E m \in net : /\ m.type \in {"resp", "cr"}
                   /\ SlotOf(m.req_num) = s /\ m.req_num = cCur[s]
                   /\ process_comps_st(m)

\* The event loops keep running, NICs transmit, handlers respond, and a packet
\* sent again and again is received again and again.
Fairness ==
    /\ WF_vars(process_credit_stall_queue_st)
    /\ WF_vars(\E m \in txq : NicTx(m))
    /\ \A s \in Slots :
         /\ WF_vars(\E e \in wheel : e[1] = s /\ process_wheel_st(s, e[2]))
         /\ WF_vars(enqueue_response(s))
         /\ SF_vars(DeliverToClient(s))
         /\ \A i \in 0..(2 * MaxPkts - 2) : SF_vars(DeliverToServer(s, i))

FairSpec == Spec /\ Fairness /\ \A s \in Slots : WF_vars(pkt_loss_scan_st(s))

\* Neither the packet slot s waits for nor the one that provokes it is on its
\* way: a timeout now is not premature.
Quiet(s) ==
    /\ wheel_count[s] = 0
    /\ \A m \in net \cup txq : ~(m.req_num = cCur[s] /\ m.pkt_num = num_rx[s])

\* kRpcRTOUs exceeds the round-trip time, the time in the wheel included.
TimelySpec ==
    /\ Init /\ [][Step \/ \E s \in Slots : Quiet(s) /\ pkt_loss_scan_st(s)]_vars
    /\ Fairness
    /\ \A s \in Slots : WF_vars(Quiet(s) /\ pkt_loss_scan_st(s))

\* Every request given to enqueue_request(), backlogged and stalled ones
\* included, eventually gets its continuation, although any packet may be lost
\* any number of times.
AllComplete == \A r \in Req : r \in issued ~> conts[r] # <<>>
===============================================================================
