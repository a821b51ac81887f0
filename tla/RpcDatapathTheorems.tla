-------------------------- MODULE RpcDatapathTheorems --------------------------
(***************************************************************************)
(* The theorems about the datapath of a session, for every number of       *)
(* requests, packets, slots and credits, with and without pacing: IInv is  *)
(* an invariant, the safety properties follow from it, the datapath        *)
(* implements RpcService, and neither end's TX queue holds a packet that   *)
(* refers to a buffer handed back to the application (at the client this   *)
(* is true only without pacing, as DpDmaPaced shows).                      *)
(***************************************************************************)
EXTENDS RpcDatapathClientProofs

\* A packet given to process_comps_st leads from IInv to IInv, whichever handler
\* takes it.
LEMMA process_comps_st_IInv ==
    ASSUME IInv, NEW m \in net, process_comps_st(m)
    PROVE  IInv'
<1>1. CASE process_small_req_st(m)
  BY <1>1, process_small_req_st_IInv
<1>2. CASE process_large_req_one_st(m)
  BY <1>2, process_large_req_one_st_IInv
<1>3. CASE process_resp_one_st(m)
  BY <1>3, process_resp_one_st_IInv
<1>4. CASE process_rfr_st(m)
  BY <1>4, process_rfr_st_IInv
<1>5. CASE process_expl_cr_st(m)
  BY <1>5, process_expl_cr_st_IInv DEF CreditReturn
<1> QED BY <1>1, <1>2, <1>3, <1>4, <1>5 DEF process_comps_st

\* Every step of the datapath leads from IInv to IInv.
LEMMA NextIInv == IInv /\ [Next]_vars => IInv'
<1> SUFFICES ASSUME IInv, [Next]_vars PROVE IInv'
  OBVIOUS
<1>1. ASSUME NEW r \in Req, enqueue_request(r) PROVE IInv'
  BY <1>1, enqueue_request_IInv
<1>2. CASE process_credit_stall_queue_st
  BY <1>2, process_credit_stall_queue_st_IInv
<1>3. ASSUME NEW e \in wheel, process_wheel_st(e[1], e[2]) PROVE IInv'
  BY <1>3, process_wheel_st_IInv
<1>4. ASSUME NEW s \in Slots, enqueue_response(s) PROVE IInv'
  BY <1>4, enqueue_response_IInv
<1>5. ASSUME NEW m \in net, process_comps_st(m) PROVE IInv'
  BY <1>5, process_comps_st_IInv
<1>6. ASSUME NEW m \in txq, NicTx(m) PROVE IInv'
  BY <1>6, NicTxIInv
<1>7. ASSUME NEW m \in net, Lose(m) PROVE IInv'
  BY <1>7, LoseIInv
<1>8. ASSUME NEW s \in Slots, pkt_loss_scan_st(s) PROVE IInv'
  BY <1>8, pkt_loss_scan_st_IInv
<1>9. CASE UNCHANGED vars
  <2>1. UNCHANGED <<appVars, clientVars, serverVars>> /\ txq' = txq /\ net' = net
    BY <1>9 DEF vars
  <2>2. txq' \subseteq Pkt /\ net' \subseteq Pkt
    BY <2>1 DEF IInv, TypeOK
  <2> QED BY <2>1, <2>2, OnlyPackets
<1> QED BY <1>1, <1>2, <1>3, <1>4, <1>5, <1>6, <1>7, <1>8, <1>9 DEF Next, Step

\* The inductive invariant holds of every reachable state of the datapath: the
\* two ends of each slot agree about the request in it, through loss,
\* reordering, duplication, retransmission and reuse of the slot.
THEOREM Invariance == Spec => []IInv
<1>1. Init => IInv
  BY InitIInv
<1>2. IInv /\ [Next]_vars => IInv'
  BY NextIInv
<1> QED BY <1>1, <1>2, PTL DEF Spec

\* Every field of both ends keeps its type: credits_ stays within
\* 0..kSessionCredits and no header field underflows.
THEOREM TypeCorrect == Spec => []TypeOK
<1>1. IInv => TypeOK
  BY DEF IInv
<1> QED BY <1>1, Invariance, PTL

\* No credit of a session is ever lost or created (bump_credits,
\* pkt_loss_retransmit_st).
THEOREM CreditsConserved == Spec => []CreditConservation
<1>1. IInv => CreditConservation
  BY DEF IInv
<1> QED BY <1>1, Invariance, PTL

\* The wheel's bookkeeping in a slot is exact and no entry outlives the
\* request it stands for.
THEOREM WheelTracked == Spec => []WheelTracking
<1>1. IInv => WheelTracking
  BY DEF IInv
<1> QED BY <1>1, Invariance, PTL

\* A freed slot never idles while requests wait in the backlog.
THEOREM SlotsBooked == Spec => []SlotBookkeeping
<1>1. IInv => SlotBookkeeping
  BY DEF IInv
<1> QED BY <1>1, Invariance, PTL

\* A slot is in stallq_, once, exactly when it has a request and nothing
\* outstanding, so the slots the loss scan skips are not forgotten.
THEOREM StalledQueued == Spec => []StalledIffIdle
<1>1. IInv => StalledIffIdle
  BY DEF IInv
<1> QED BY <1>1, Invariance, PTL

\* The ordering asserts of the packet handlers never fail.
THEOREM AssertsHold == Spec => []ReqNumAsserts
<1>1. ASSUME IInv, NEW m \in net \cup txq, NEW s, s = SlotOf(m.req_num)
      PROVE  /\ m.type = "req" => m.req_num <= sCur[s] + kSessionReqWindow
             /\ m.type \in {"resp", "cr"} => m.req_num <= cCur[s]
             /\ m.type = "rfr" => m.req_num <= sCur[s]
  <2>1. s \in Slots /\ m.req_num \in Nat
    BY <1>1, SlotOfType DEF IInv, TypeOK, Pkt
  <2>2. /\ sCur[s] \in Nat /\ cCur[s] \in Nat /\ sCur[s] <= cCur[s]
        /\ cCur[s] <= sCur[s] + kSessionReqWindow
    BY <1>1, <2>1 DEF IInv, TypeOK, Numbering
  <2>3. PacketOK(m)
    BY <1>1 DEF IInv, Packets
  <2>4. CASE m.type = "req"
    <3>1. m.msg \in Req /\ Started(m.msg) /\ m.req_num = reqNum[m.msg]
      BY <2>3, <2>4 DEF PacketOK
    <3>2. m.req_num <= cCur[s]
      BY <1>1, <3>1 DEF IInv, Numbering
    <3> QED BY <2>1, <2>2, <2>4, <3>2, SessionAssumption
  <2>5. CASE m.type \in {"resp", "cr", "rfr"}
    <3>1. m.req_num <= sCur[s]
      BY <1>1, <2>3, <2>5 DEF PacketOK
    <3> QED BY <2>1, <2>2, <2>5, <3>1
  <2> QED BY <2>4, <2>5
<1>2. IInv => ReqNumAsserts
  BY <1>1 DEF ReqNumAsserts
<1> QED BY <1>2, Invariance, PTL

\* process_rfr_st always holds the response an acceptable RFR asks for, and the
\* packet it asks for exists.
THEOREM RfrAnswerable == Spec => []RfrHasResponse
<1>1. ASSUME IInv, NEW m \in net, NEW s, s = SlotOf(m.req_num),
             m.type = "rfr", m.req_num = sCur[s]
      PROVE  /\ sTx[s] # NoReq
             /\ resp_ntoi(m.pkt_num, sav[s]) \in 0..(RespPkts[sTx[s]] - 1)
  <2>1. s \in Slots /\ m.req_num \in Nat /\ m.pkt_num \in Nat
    BY <1>1, SlotOfType DEF IInv, TypeOK, Pkt
  <2>2. PacketOK(m)
    BY <1>1 DEF IInv, Packets
  <2>3. PICK r \in Req : /\ Started(r) /\ reqNum[r] = m.req_num
                         /\ ReqPkts[r] <= m.pkt_num /\ m.pkt_num < Wire(r)
                         /\ r \in responded
    BY <1>1, <2>2 DEF PacketOK
  <2>4. Serving(s, r)
    BY <1>1, <2>1, <2>3, ServedBy
  <2>5. Answering(s, r)
    BY <2>3, <2>4 DEF Serving, Receiving, Handling
  <2>6. sTx[s] = r /\ sav[s] = ReqPkts[r]
    BY <2>5 DEF Answering
  <2>7. ReqPkts[r] \in Nat /\ ReqPkts[r] >= 1 /\ RespPkts[r] \in Nat
    BY PktsType
  <2> QED BY <2>1, <2>3, <2>6, <2>7, ReqAssumption DEF Wire, resp_ntoi
<1>2. IInv => RfrHasResponse
  BY <1>1 DEF RfrHasResponse
<1> QED BY <1>2, Invariance, PTL

\* A late duplicate never reaches the code that dereferences the null
\* tx_msgbuf_ of a completed request.
THEOREM AcceptsOnlyActive == Spec => []AcceptOnlyActive
<1>1. ASSUME IInv, NEW m \in net, NEW s, s = SlotOf(m.req_num),
             m.type \in {"resp", "cr"}, in_order_client(s, m)
      PROVE  Active(s)
  <2>1. s \in Slots
    BY <1>1, SlotOfType DEF IInv, TypeOK, Pkt
  <2> QED BY <1>1, <2>1, InOrder
<1>2. IInv => AcceptOnlyActive
  BY <1>1 DEF AcceptOnlyActive
<1> QED BY <1>2, Invariance, PTL

\* When the client is done with a request, the server slot is in the state the
\* next request and a disconnect assert.
THEOREM Quiescence == Spec => []ServerQuiesced
<1>1. ASSUME IInv, NEW s \in Slots, Done(s)
      PROVE  /\ reqBuf[s] = {} /\ req_type[s] = NoReq
             /\ sTx[s] # NoReq => sNumRx[s] = sav[s] + RespPkts[sTx[s]] - 1
  <2>1. CASE Fresh(s)
    BY <2>1 DEF Fresh
  <2>2. CASE \E r \in Req : Serving(s, r) /\ Answering(s, r) /\ sNumRx[s] = Wire(r)
    BY <2>2 DEF Answering, Wire
  <2> QED BY <1>1, <2>1, <2>2 DEF IInv, ServerSlots
<1>2. IInv => ServerQuiesced
  BY <1>1 DEF ServerQuiesced
<1> QED BY <1>2, Invariance, PTL

-------------------------------------------------------------------------------
(***************************************************************************)
(* Refinement.  Which values execs and conts take is in IInv', so a step   *)
(* is a step of the service as soon as it appends to the buffers of one    *)
(* request.                                                                *)
(***************************************************************************)
\* Appending to a sequence that ends up with one element started from none.
LEMMA AppendOnce ==
    ASSUME NEW S, NEW q \in Seq(S), NEW x, NEW y, Append(q, x) = <<y>>
    PROVE  q = <<>>
<1>1. Len(Append(q, x)) = Len(q) + 1
  OBVIOUS
<1>2. Len(<<y>>) = 1
  OBVIOUS
<1> QED BY <1>1, <1>2

\* The sequence that results is never empty.
LEMMA AppendNonempty ==
    ASSUME NEW S, NEW q \in Seq(S), NEW x PROVE Append(q, x) # <<>>
<1>1. Len(Append(q, x)) = Len(q) + 1 /\ Len(q) \in Nat
  OBVIOUS
<1>2. Len(<<>>) = 0
  OBVIOUS
<1> QED BY <1>1, <1>2

\* A step that invokes the handler of one request is Execute.
LEMMA ExecuteStep ==
    ASSUME IInv, IInv', NEW r \in Req, Started(r), NEW buf,
           execs' = [execs EXCEPT ![r] = Append(@, buf)],
           UNCHANGED <<issued, responded, conts>>
    PROVE  Service!Next
<1>1. execs \in [Req -> Seq(Pieces)] /\ r \in issued
  BY DEF IInv, TypeOK, Numbering
<1>2. execs'[r] = Append(execs[r], buf) /\ execs' = [execs EXCEPT ![r] = execs'[r]]
  BY <1>1
<1>3. execs'[r] = <<Prefix(r, ReqPkts[r])>>
  <2>1. execs'[r] \in {<<>>, <<Prefix(r, ReqPkts[r])>>}
    BY DEF IInv, Applications, Prefix
  <2>2. execs'[r] # <<>>
    <3>1. execs[r] \in Seq(Pieces)
      BY <1>1
    <3> QED BY <1>2, <3>1, AppendNonempty, Zenon
  <2> QED BY <2>1, <2>2
<1>4. execs[r] = <<>>
  <2>1. execs[r] \in Seq(Pieces)
    BY <1>1
  <2> QED BY <1>2, <1>3, <2>1, AppendOnce, Zenon
<1>5. Prefix(r, ReqPkts[r]) = Service!ReqData(r)
  BY DEF Prefix, Service!ReqData, Service!Message
<1>6. Service!Execute(r)
  BY <1>1, <1>2, <1>3, <1>4, <1>5 DEF Service!Execute
<1> QED BY <1>6 DEF Service!Next

\* A step that invokes the continuation of one request is Complete.
LEMMA CompleteStep ==
    ASSUME IInv, IInv', NEW r \in Req, r \in responded, NEW buf,
           conts' = [conts EXCEPT ![r] = Append(@, buf)],
           UNCHANGED <<issued, execs, responded>>
    PROVE  Service!Next
<1>1. conts \in [Req -> Seq(Pieces)]
  BY DEF IInv, TypeOK
<1>2. conts'[r] = Append(conts[r], buf) /\ conts' = [conts EXCEPT ![r] = conts'[r]]
  BY <1>1
<1>3. conts'[r] = <<Prefix(r, RespPkts[r])>>
  <2>1. conts'[r] \in {<<>>, <<Prefix(r, RespPkts[r])>>}
    BY DEF IInv, Applications, Prefix
  <2>2. conts'[r] # <<>>
    <3>1. conts[r] \in Seq(Pieces)
      BY <1>1
    <3> QED BY <1>2, <3>1, AppendNonempty, Zenon
  <2> QED BY <2>1, <2>2
<1>4. conts[r] = <<>>
  <2>1. conts[r] \in Seq(Pieces)
    BY <1>1
  <2> QED BY <1>2, <1>3, <2>1, AppendOnce, Zenon
<1>5. Prefix(r, RespPkts[r]) = Service!RespData(r)
  BY DEF Prefix, Service!RespData, Service!Message
<1>6. Service!Complete(r)
  BY <1>2, <1>3, <1>4, <1>5 DEF Service!Complete
<1> QED BY <1>6 DEF Service!Next

\* What a packet does to the application is a step of the service.
LEMMA process_comps_st_Service ==
    ASSUME IInv, IInv', NEW m \in net, process_comps_st(m)
    PROVE  Service!Next \/ UNCHANGED appVars
<1>1. m.type = "req" => m.msg \in Req /\ Started(m.msg)
  BY DEF IInv, Packets, PacketOK
<1>2. CASE process_small_req_st(m)
  <2>1. \/ UNCHANGED appVars
        \/ /\ m.type = "req"
           /\ execs' = [execs EXCEPT ![m.msg] = Append(@, {<<0, m.msg, m.idx>>})]
           /\ UNCHANGED <<issued, responded, conts>>
    BY <1>2, Zenon DEF process_small_req_st, ResendResp, InvokeHandler
  <2> QED BY <1>1, <2>1, ExecuteStep
<1>3. CASE process_large_req_one_st(m)
  <2>1. PICK s : LargeReqInOrder(s, m) \/ LargeReqPast(s, m)
    BY <1>3, Zenon DEF process_large_req_one_st
  <2>2. m.type = "req"
    BY <1>3 DEF process_large_req_one_st
  <2>3. CASE LargeReqPast(s, m)
    BY <2>3, Zenon DEF LargeReqPast, ResendResp
  <2>4. CASE LargeReqInOrder(s, m)
    <3>1. \/ UNCHANGED appVars
          \/ \E buf : /\ execs' = [execs EXCEPT ![m.msg] = Append(@, buf)]
                      /\ UNCHANGED <<issued, responded, conts>>
      BY <2>4 DEF LargeReqInOrder, InvokeHandler
    <3> QED BY <1>1, <2>2, <3>1, ExecuteStep
  <2> QED BY <2>1, <2>3, <2>4
<1>4. CASE process_resp_one_st(m)
  <2>1. PICK s : s = SlotOf(m.req_num)
    OBVIOUS
  <2>2. m.type = "resp" /\ in_order_client(s, m) /\ (RespLast(s, m) \/ RespMore(s, m))
    BY <1>4, <2>1, Zenon DEF process_resp_one_st
  <2>3. PICK r \in Req, i \in Nat : Accepted(s, m, r, i)
    BY <2>1, <2>2, RespPacket
  <2>4. r = cReq[s] /\ r \in responded
    BY <2>3, Zenon DEF Accepted
  <2>5. CASE RespMore(s, m)
    BY <2>5, Zenon DEF RespMore
  <2>6. CASE RespLast(s, m)
    <3>1. PICK buf : CompleteRequest(s, buf)
      BY <2>6, Zenon DEF RespLast
    <3>2. /\ conts' = [conts EXCEPT ![r] = Append(@, buf)]
          /\ UNCHANGED <<issued, execs, responded>>
      BY <2>4, <3>1, Zenon DEF CompleteRequest
    <3> QED BY <2>4, <3>2, CompleteStep
  <2> QED BY <2>2, <2>5, <2>6
<1>5. CASE process_rfr_st(m)
  BY <1>5, Zenon DEF process_rfr_st, ResendResp
<1>6. CASE process_expl_cr_st(m)
  BY <1>6, Zenon DEF process_expl_cr_st
<1> QED BY <1>2, <1>3, <1>4, <1>5, <1>6 DEF process_comps_st

\* Every step of the datapath is a step of the service or invisible to both
\* applications.
LEMMA ServiceStep ==
    IInv /\ IInv' /\ [Next]_vars => [Service!Next]_(Service!serviceVars)
<1> SUFFICES ASSUME IInv, IInv', [Next]_vars
             PROVE  Service!Next \/ UNCHANGED appVars
  BY DEF Service!serviceVars, appVars
<1>1. ASSUME NEW r \in Req, enqueue_request(r) PROVE Service!Next
  <2>1. Service!Issue(r)
    BY <1>1 DEF enqueue_request, Service!Issue
  <2> QED BY <2>1 DEF Service!Next
<1>2. CASE process_credit_stall_queue_st
  BY <1>2, Zenon DEF process_credit_stall_queue_st
<1>3. ASSUME NEW e \in wheel, process_wheel_st(e[1], e[2]) PROVE UNCHANGED appVars
  BY <1>3, Zenon DEF process_wheel_st
<1>4. ASSUME NEW s \in Slots, enqueue_response(s) PROVE Service!Next \/ UNCHANGED appVars
  <2>1. PICK r : r = req_type[s]
    OBVIOUS
  <2>2. r # NoReq /\ responded' = responded \cup {r} /\ UNCHANGED <<issued, execs, conts>>
    BY <1>4, <2>1 DEF enqueue_response
  <2>3. r \in Req
    BY <1>4, <2>1, <2>2 DEF IInv, TypeOK
  <2>4. execs[r] # <<>>
    BY <2>2, <2>3 DEF IInv, Applications
  <2>5. CASE r \in responded
    BY <2>2, <2>5 DEF appVars
  <2>6. CASE r \notin responded
    BY <2>2, <2>3, <2>4, <2>6 DEF Service!Next, Service!Respond
  <2> QED BY <2>5, <2>6
<1>5. ASSUME NEW m \in net, process_comps_st(m) PROVE Service!Next \/ UNCHANGED appVars
  BY <1>5, process_comps_st_Service
<1>6. ASSUME NEW m \in txq, NicTx(m) PROVE UNCHANGED appVars
  BY <1>6 DEF NicTx
<1>7. ASSUME NEW m \in net, Lose(m) PROVE UNCHANGED appVars
  BY <1>7 DEF Lose
<1>8. ASSUME NEW s \in Slots, pkt_loss_scan_st(s) PROVE UNCHANGED appVars
  BY <1>8, Zenon DEF pkt_loss_scan_st
<1>9. CASE UNCHANGED vars
  BY <1>9 DEF vars
<1> QED BY <1>1, <1>2, <1>3, <1>4, <1>5, <1>6, <1>7, <1>8, <1>9 DEF Next, Step

\* The datapath implements the service: at-most-once handlers and continuations
\* on exactly the bytes sent, over a network that loses, reorders and
\* duplicates packets.
THEOREM Implementation == Spec => ServiceSpec
<1>1. Init => Service!Init
  BY DEF Init, Service!Init
<1>2. IInv /\ IInv' /\ [Next]_vars => [Service!Next]_(Service!serviceVars)
  BY ServiceStep
<1>3. Spec => []IInv
  BY Invariance
<1> QED BY <1>1, <1>2, <1>3, PTL DEF Spec, ServiceSpec, Service!Spec

-------------------------------------------------------------------------------
(***************************************************************************)
(* The server's TX queue.                                                  *)
(***************************************************************************)
\* The client puts request packets into its TX queue, and request packets and
\* RFRs into the network.
ClientSends ==
    /\ \A m \in txq' : m \in txq \/ m.type = "req"
    /\ \A m \in net' : m \in net \/ m.type \in {"req", "rfr"}

\* kick_req_st does no more than that, through the wheel or not.
LEMMA KickReqSends ==
    ASSUME NEW s, NEW r, NEW num, NEW from, NEW crd, NEW drain,
           kick_req_st(s, r, num, from, crd, drain)
    PROVE  ClientSends
<1>1. PICK D : /\ \A m \in D : m.type = "req"
               /\ PostAndDrain(ClientTx, D, {}) \/ Post(D, {})
  <2> DEFINE D == {ReqPkt(r, num, i) : i \in from..(from + Minimum(crd, ReqPkts[r] - from) - 1)}
  <2>1. \/ PostAndDrain(ClientTx, D, {}) \/ Post(D, {})
        \/ PostAndDrain(ClientTx, {}, {}) \/ Post({}, {})
    BY Zenon DEF kick_req_st
  <2>2. \A m \in D : m.type = "req"
    BY DEF ReqPkt
  <2>3. \A m \in {} : m.type = "req"
    OBVIOUS
  <2> HIDE DEF D
  <2> QED BY <2>1, <2>2, <2>3
<1> QED BY <1>1 DEF ClientSends, Post, PostAndDrain, ClientTx

\* Neither does kick_rfr_st.
LEMMA KickRfrSends ==
    ASSUME NEW s, NEW n, NEW from, NEW crd, NEW drain, kick_rfr_st(s, n, from, crd, drain)
    PROVE  ClientSends
<1>1. PICK D : /\ \A m \in D : m.type = "rfr"
               /\ PostAndDrain(ClientTx, {}, D) \/ Post({}, D)
  <2> DEFINE D == {CtrlPkt("rfr", cCur[s], i) :
                     i \in from..(from + Minimum(crd, wire_pkts(cReq[s], n) - from) - 1)}
  <2>1. PostAndDrain(ClientTx, {}, D) \/ Post({}, D)
    BY Zenon DEF kick_rfr_st
  <2>2. \A m \in D : m.type = "rfr"
    BY DEF CtrlPkt
  <2> HIDE DEF D
  <2> QED BY <2>1, <2>2
<1> QED BY <1>1 DEF ClientSends, Post, PostAndDrain, ClientTx

\* Nor does a step that sends nothing.
LEMMA NothingSent == UNCHANGED <<txq, net>> => ClientSends
  BY DEF ClientSends

\* Nor StartRequest.
LEMMA StartSends ==
    ASSUME NEW s, NEW r, NEW crd, StartRequest(s, r, crd)
    PROVE  ClientSends
<1> DEFINE num == cCur[s] + kSessionReqWindow
<1>1. kick_req_st(s, r, num, 0, crd, FALSE) \/ UNCHANGED <<txq, net>>
  BY Zenon DEF StartRequest
<1> HIDE DEF num
<1> QED BY <1>1, KickReqSends, NothingSent

\* A step of the client preserves ServerTxInv if it keeps the requests whose
\* response packets are queued, and does not count those packets.
LEMMA ServerTxClientStep ==
    ASSUME ServerTxInv, ClientSends, UNCHANGED serverVars, Acknowledged',
           \A m \in ServerTx : /\ cReq'[SlotOf(m.req_num)] = cReq[SlotOf(m.req_num)]
                               /\ cCur'[SlotOf(m.req_num)] = cCur[SlotOf(m.req_num)]
                               /\ num_rx'[SlotOf(m.req_num)] <= m.pkt_num
    PROVE  ServerTxInv'
<1>1. sCur' = sCur
  BY DEF serverVars
<1> SUFFICES ASSUME NEW m \in ServerTx' PROVE ServerTxOK(m)'
  BY DEF ServerTxInv
<1>2. m \in ServerTx /\ m.type = "resp"
  BY DEF ServerTx, ClientSends
<1>3. ServerTxOK(m)
  BY <1>2 DEF ServerTxInv
<1>4. m \notin net'
  BY <1>2, <1>3 DEF ServerTxOK, ClientSends
<1>5. PICK s : s = SlotOf(m.req_num)
  OBVIOUS
<1>6. SlotOf(m.req_num)' = s
  BY <1>5 DEF SlotOf
<1> QED BY <1>1, <1>2, <1>3, <1>4, <1>5, <1>6 DEF ServerTxOK

\* In particular if it leaves requests and num_rx_ alone.
LEMMA ServerTxUncounted ==
    ASSUME ServerTxInv, ClientSends, UNCHANGED serverVars, UNCHANGED <<cReq, cCur, num_rx>>
    PROVE  ServerTxInv'
<1>1. Acknowledged'
  BY DEF ServerTxInv, Acknowledged, Active, serverVars
<1>2. \A m \in ServerTx : num_rx[SlotOf(m.req_num)] <= m.pkt_num
  BY DEF ServerTxInv, ServerTxOK
<1> QED BY <1>1, <1>2, ServerTxClientStep

\* A response packet is determined by its request and its number.
LEMMA RespUnique ==
    ASSUME IInv, NEW m \in net \cup txq, NEW x \in net \cup txq,
           m.type = "resp", x.type = "resp", m.msg = x.msg, m.pkt_num = x.pkt_num
    PROVE  m = x
<1>1. m \in Pkt /\ x \in Pkt
  BY DEF IInv, TypeOK
<1>2. PacketOK(m) /\ PacketOK(x)
  BY DEF IInv, Packets
<1>3. /\ m.req_num = x.req_num /\ m.num_pkts = x.num_pkts
      /\ m.msg \in Req
      /\ m.pkt_num = ReqPkts[m.msg] - 1 + m.idx /\ x.pkt_num = ReqPkts[m.msg] - 1 + x.idx
  BY <1>2 DEF PacketOK
<1>4. m.idx = x.idx
  <2>1. m.idx \in Nat /\ x.idx \in Nat /\ ReqPkts[m.msg] \in Nat
    BY <1>1, <1>3, PktsType DEF Pkt
  <2>2. ReqPkts[m.msg] - 1 + m.idx = ReqPkts[m.msg] - 1 + x.idx
    BY <1>3, Zenon
  <2>3. \A k, i, j \in Nat : k - 1 + i = k - 1 + j => i = j
    OBVIOUS
  <2> QED BY <2>1, <2>2, <2>3, Zenon
<1>5. \A p \in Pkt : p = [type |-> p.type, req_num |-> p.req_num, pkt_num |-> p.pkt_num,
                         num_pkts |-> p.num_pkts, msg |-> p.msg, idx |-> p.idx]
  BY DEF Pkt
<1> QED BY <1>1, <1>3, <1>4, <1>5, Zenon

\* The slot and the packet number of a queued response packet.
LEMMA QueuedResp ==
    ASSUME IInv, ServerTxInv, NEW m \in ServerTx, NEW s, s = SlotOf(m.req_num)
    PROVE  /\ s \in Slots /\ m \in txq /\ m.type = "resp" /\ m \notin net
           /\ m.msg \in Req /\ cReq[s] = m.msg /\ Active(s)
           /\ cCur[s] = m.req_num /\ sCur[s] = m.req_num
           /\ m.pkt_num \in Nat /\ num_rx[s] <= m.pkt_num
           /\ ReqPkts[m.msg] <= m.pkt_num + 1 /\ m.pkt_num < Wire(m.msg)
<1>1. m \in txq /\ m.type = "resp"
  BY DEF ServerTx
<1>2. m \in Pkt /\ PacketOK(m)
  BY <1>1 DEF IInv, TypeOK, Packets
<1>3. s \in Slots /\ m.pkt_num \in Nat /\ m.idx \in Nat
  BY <1>2, SlotOfType DEF Pkt
<1>4. ServerTxOK(m)
  BY DEF ServerTxInv
<1>5. /\ m.msg \in Req /\ m.idx < RespPkts[m.msg]
      /\ m.pkt_num = ReqPkts[m.msg] - 1 + m.idx
  BY <1>1, <1>2 DEF PacketOK
<1>6. /\ cReq[s] = m.msg /\ cCur[s] = m.req_num /\ sCur[s] = m.req_num
      /\ m \notin net /\ num_rx[s] <= m.pkt_num
  BY <1>4 DEF ServerTxOK
<1>7. ReqPkts[m.msg] <= m.pkt_num + 1 /\ m.pkt_num < Wire(m.msg)
  <2>1. ReqPkts[m.msg] \in Nat /\ RespPkts[m.msg] \in Nat
    BY <1>5, PktsType
  <2>2. PICK a \in Nat, b \in Nat, i \in Nat, k \in Nat :
          a = ReqPkts[m.msg] /\ b = RespPkts[m.msg] /\ i = m.idx /\ k = m.pkt_num
    BY <1>3, <2>1
  <2>3. k = a - 1 + i /\ i < b
    BY <1>5, <2>2, Zenon
  <2>4. a <= k + 1 /\ k < a + b - 1
    BY <2>3
  <2> QED BY <2>2, <2>4 DEF Wire
<1> QED BY <1>1, <1>3, <1>5, <1>6, <1>7, ReqAssumption DEF Active

\* Starting a request in slot s preserves ServerTxInv if no response packet of
\* that slot is queued.
LEMMA ServerTxStart ==
    ASSUME IInv, ServerTxInv, NEW s \in Slots, NEW r \in Req, NEW crd,
           StartRequest(s, r, crd), UNCHANGED serverVars,
           \A m \in ServerTx : SlotOf(m.req_num) # s
    PROVE  ServerTxInv'
<1>1. /\ cReq \in [Slots -> Req \cup {NoReq}] /\ cCur \in [Slots -> Nat]
      /\ num_rx \in [Slots -> Nat]
  BY DEF IInv, TypeOK
<1>2. /\ cReq' = [cReq EXCEPT ![s] = r] /\ num_rx' = [num_rx EXCEPT ![s] = 0]
      /\ cCur' = [cCur EXCEPT ![s] = cCur[s] + kSessionReqWindow]
  BY DEF StartRequest
<1>3. \A t \in Slots : t # s => cReq'[t] = cReq[t] /\ cCur'[t] = cCur[t] /\ num_rx'[t] = num_rx[t]
  BY <1>1, <1>2
<1>4. cReq'[s] = r /\ num_rx'[s] = 0
  BY <1>1, <1>2
<1>5. Acknowledged'
  <2> SUFFICES ASSUME NEW t \in Slots, Active(t)', num_rx'[t] > ReqPkts[cReq'[t]]
               PROVE  num_rx'[t] <= sNumRx'[t]
    BY DEF Acknowledged
  <2>1. t # s
    <3>1. ReqPkts[r] \in Nat
      BY PktsType
    <3> QED BY <1>4, <3>1
  <2>2. cReq'[t] = cReq[t] /\ num_rx'[t] = num_rx[t] /\ sNumRx'[t] = sNumRx[t]
    BY <1>3, <2>1 DEF serverVars
  <2> QED BY <2>2 DEF ServerTxInv, Acknowledged, Active
<1>6. ClientSends
  BY StartSends
<1>7. ASSUME NEW m \in ServerTx
      PROVE  /\ cReq'[SlotOf(m.req_num)] = cReq[SlotOf(m.req_num)]
             /\ cCur'[SlotOf(m.req_num)] = cCur[SlotOf(m.req_num)]
             /\ num_rx'[SlotOf(m.req_num)] <= m.pkt_num
  <2>1. PICK t : t = SlotOf(m.req_num)
    OBVIOUS
  <2>2. t \in Slots /\ t # s /\ num_rx[t] <= m.pkt_num
    BY <2>1, QueuedResp
  <2> QED BY <1>3, <2>1, <2>2
<1> QED BY <1>5, <1>6, <1>7, ServerTxClientStep

\* enqueue_request preserves ServerTxInv: a free slot has no request.
LEMMA enqueue_request_ServerTx ==
    ASSUME IInv, ServerTxInv, NEW r \in Req, enqueue_request(r)
    PROVE  ServerTxInv'
<1>1. UNCHANGED serverVars
  BY DEF enqueue_request
<1>2. CASE UNCHANGED <<credits, free, stallq, slotVars, wheelVars, txq, net>>
  BY <1>1, <1>2, NothingSent, ServerTxUncounted DEF slotVars
<1>3. ASSUME NEW s \in free, StartRequest(s, r, credits) PROVE ServerTxInv'
  <2>1. s \in Slots /\ ~Active(s)
    BY <1>3 DEF IInv, SlotBookkeeping
  <2>2. \A m \in ServerTx : SlotOf(m.req_num) # s
    BY <2>1, QueuedResp
  <2> QED BY <1>1, <1>3, <2>1, <2>2, ServerTxStart
<1> QED BY <1>2, <1>3 DEF enqueue_request

\* The steps of the client that transmit without having received anything do.
LEMMA process_credit_stall_queue_st_ServerTx ==
    ASSUME ServerTxInv, process_credit_stall_queue_st PROVE ServerTxInv'
<1>1. UNCHANGED serverVars /\ UNCHANGED <<cReq, cCur, num_rx>>
  BY DEF process_credit_stall_queue_st
<1>2. ClientSends
  <2>1. PICK s : IF req_pkts_pending(s)
                 THEN kick_req_st(s, cReq[s], reqNum[cReq[s]], num_tx[s], credits, FALSE)
                 ELSE /\ kick_rfr_st(s, respN[s], num_tx[s], credits, FALSE)
                      /\ UNCHANGED wheelVars
    BY Zenon DEF process_credit_stall_queue_st
  <2> QED BY <2>1, KickReqSends, KickRfrSends
<1> QED BY <1>1, <1>2, ServerTxUncounted

\* process_wheel_st preserves ServerTxInv.
LEMMA process_wheel_st_ServerTx ==
    ASSUME ServerTxInv, NEW s, NEW i, process_wheel_st(s, i) PROVE ServerTxInv'
<1>1. UNCHANGED serverVars /\ UNCHANGED <<cReq, cCur, num_rx>>
  BY DEF process_wheel_st, slotVars
<1>2. \/ Post({ReqPkt(cReq[s], reqNum[cReq[s]], i)}, {})
      \/ Post({}, {CtrlPkt("rfr", cCur[s], num_tx[s])})
  BY Zenon DEF process_wheel_st
<1>3. ClientSends
  BY <1>2 DEF Post, ClientSends, ReqPkt, CtrlPkt
<1> QED BY <1>1, <1>3, ServerTxUncounted

\* pkt_loss_scan_st preserves ServerTxInv.
LEMMA pkt_loss_scan_st_ServerTx ==
    ASSUME ServerTxInv, NEW s, pkt_loss_scan_st(s) PROVE ServerTxInv'
<1>1. UNCHANGED serverVars /\ UNCHANGED <<cReq, cCur, num_rx>>
  BY DEF pkt_loss_scan_st
<1> DEFINE crd == credits + (num_tx[s] - num_rx[s])
<1>2. \/ PostAndDrain(ClientTx, {}, {})
      \/ kick_req_st(s, cReq[s], reqNum[cReq[s]], num_rx[s], crd, TRUE)
      \/ kick_rfr_st(s, respN[s], num_rx[s], crd, TRUE)
  BY Zenon DEF pkt_loss_scan_st
<1> HIDE DEF crd
<1>3. PostAndDrain(ClientTx, {}, {}) => ClientSends
  BY DEF PostAndDrain, ClientSends, ClientTx
<1>4. ClientSends
  BY <1>2, <1>3, KickReqSends, KickRfrSends
<1> QED BY <1>1, <1>4, ServerTxUncounted

\* The client counts one more packet of slot s: the invariant survives if no
\* response packet with that number is queued.
LEMMA ServerTxCounted ==
    ASSUME IInv, ServerTxInv, ClientSends, UNCHANGED serverVars, UNCHANGED <<cReq, cCur>>,
           NEW s \in Slots, Active(s), num_rx' = [num_rx EXCEPT ![s] = @ + 1],
           num_rx[s] + 1 > ReqPkts[cReq[s]] => num_rx[s] + 1 <= sNumRx[s],
           \A m \in ServerTx : SlotOf(m.req_num) = s => m.pkt_num # num_rx[s]
    PROVE  ServerTxInv'
<1>1. num_rx \in [Slots -> Nat]
  BY DEF IInv, TypeOK
<1>2. num_rx'[s] = num_rx[s] + 1 /\ \A t \in Slots : t # s => num_rx'[t] = num_rx[t]
  BY <1>1
<1>3. Acknowledged'
  <2> SUFFICES ASSUME NEW t \in Slots, Active(t)', num_rx'[t] > ReqPkts[cReq'[t]]
               PROVE  num_rx'[t] <= sNumRx'[t]
    BY DEF Acknowledged
  <2>1. cReq'[t] = cReq[t] /\ sNumRx'[t] = sNumRx[t] /\ Active(t)
    BY DEF Active, serverVars
  <2>2. CASE t = s
    BY <1>2, <2>1, <2>2
  <2>3. CASE t # s
    BY <1>2, <2>1, <2>3 DEF ServerTxInv, Acknowledged
  <2> QED BY <2>2, <2>3
<1>4. ASSUME NEW m \in ServerTx PROVE num_rx'[SlotOf(m.req_num)] <= m.pkt_num
  <2>1. PICK t : t = SlotOf(m.req_num)
    OBVIOUS
  <2>2. t \in Slots /\ num_rx[t] <= m.pkt_num /\ m.pkt_num \in Nat /\ num_rx[t] \in Nat
    BY <1>1, <2>1, QueuedResp
  <2>3. CASE t = s
    <3>1. m.pkt_num # num_rx[s]
      BY <2>1, <2>3
    <3> QED BY <1>2, <2>1, <2>2, <2>3, <3>1
  <2>4. CASE t # s
    BY <1>2, <2>1, <2>2, <2>4
  <2> QED BY <2>3, <2>4
<1> QED BY <1>3, <1>4, ServerTxClientStep

\* What an accepted credit return acknowledges: a request packet that is not the
\* last.
LEMMA CrAccepted ==
    ASSUME IInv, NEW m \in net, m.type = "cr", NEW s, s = SlotOf(m.req_num),
           in_order_client(s, m)
    PROVE  /\ s \in Slots /\ Active(s) /\ cReq[s] \in Req
           /\ num_rx[s] \in Nat /\ num_rx[s] + 1 < ReqPkts[cReq[s]]
           /\ num_tx[s] \in Nat /\ num_rx[s] < num_tx[s]
<1>1. s \in Slots /\ m.req_num \in Nat
  BY SlotOfType DEF IInv, TypeOK, Pkt
<1>2. Active(s) /\ m.req_num = cCur[s] /\ m.pkt_num = num_rx[s] /\ num_rx[s] < num_tx[s]
  BY <1>1, InOrder
<1>3. PICK r \in Req : Started(r) /\ reqNum[r] = m.req_num /\ m.pkt_num + 1 < ReqPkts[r]
  BY DEF IInv, Packets, PacketOK
<1>4. cReq[s] \in Req /\ num_rx[s] \in Nat /\ num_tx[s] \in Nat
  BY <1>1, <1>2 DEF IInv, TypeOK, Active
<1>5. r = cReq[s]
  BY <1>1, <1>2, <1>3, <1>4 DEF IInv, Numbering
<1> QED BY <1>1, <1>2, <1>3, <1>4, <1>5

\* process_expl_cr_st preserves ServerTxInv: response packets have higher numbers.
LEMMA process_expl_cr_st_ServerTx ==
    ASSUME IInv, ServerTxInv, NEW m \in net, process_expl_cr_st(m)
    PROVE  ServerTxInv'
<1>1. PICK s : s = SlotOf(m.req_num)
  OBVIOUS
<1>2. /\ m.type = "cr" /\ in_order_client(s, m)
      /\ num_rx' = [num_rx EXCEPT ![s] = @ + 1]
      /\ UNCHANGED serverVars /\ UNCHANGED <<cReq, cCur>>
  BY <1>1 DEF process_expl_cr_st
<1>3. /\ s \in Slots /\ Active(s) /\ cReq[s] \in Req
      /\ num_rx[s] \in Nat /\ num_rx[s] + 1 < ReqPkts[cReq[s]]
  BY <1>1, <1>2, CrAccepted
<1>4. ClientSends
  <2>1. \/ kick_req_st(s, cReq[s], reqNum[cReq[s]], num_tx[s], credits + 1, FALSE)
        \/ UNCHANGED <<num_tx, wheelVars, txq, net>>
    BY <1>1, Zenon DEF process_expl_cr_st
  <2> QED BY <2>1, KickReqSends, NothingSent
<1>5. ReqPkts[cReq[s]] \in Nat
  BY <1>3, PktsType
<1>6. ASSUME NEW x \in ServerTx, SlotOf(x.req_num) = s PROVE x.pkt_num # num_rx[s]
  <2>1. cReq[s] = x.msg /\ x.pkt_num \in Nat /\ ReqPkts[x.msg] <= x.pkt_num + 1
    BY <1>6, QueuedResp
  <2> QED BY <1>3, <1>5, <2>1
<1>7. num_rx[s] + 1 > ReqPkts[cReq[s]] => num_rx[s] + 1 <= sNumRx[s]
  BY <1>3, <1>5
<1> QED BY <1>2, <1>3, <1>4, <1>6, <1>7, ServerTxCounted

\* process_resp_one_st preserves ServerTxInv: the packet it receives is in the
\* network, so it is not the queued one, and after the last packet none is left.
LEMMA process_resp_one_st_ServerTx ==
    ASSUME IInv, ServerTxInv, NEW m \in net, process_resp_one_st(m)
    PROVE  ServerTxInv'
<1>1. PICK s : s = SlotOf(m.req_num)
  OBVIOUS
<1>2. /\ m.type = "resp" /\ in_order_client(s, m) /\ (RespLast(s, m) \/ RespMore(s, m))
      /\ UNCHANGED serverVars
  BY <1>1, Zenon DEF process_resp_one_st
<1>3. PICK r \in Req, i \in Nat : Accepted(s, m, r, i)
  BY <1>1, <1>2, RespPacket
<1>4. s \in Slots
  BY <1>1, <1>2, RespPacket
<1>5. /\ Active(s) /\ r = cReq[s] /\ m.msg = r /\ m.pkt_num = num_rx[s]
      /\ num_rx[s] < sNumRx[s]
  BY <1>3, Zenon DEF Accepted
<1>6. num_rx[s] \in Nat /\ sNumRx[s] \in Nat
  BY <1>4 DEF IInv, TypeOK
<1>7. ASSUME NEW x \in ServerTx, SlotOf(x.req_num) = s PROVE x.pkt_num # num_rx[s]
  <2>1. x \in txq /\ x.type = "resp" /\ x \notin net /\ cReq[s] = x.msg
    BY <1>7, QueuedResp
  <2>2. x # m
    BY <2>1
  <2> QED BY <1>2, <1>5, <2>1, <2>2, RespUnique
<1>8. CASE RespMore(s, m)
  <2>1. num_rx' = [num_rx EXCEPT ![s] = @ + 1] /\ UNCHANGED <<cReq, cCur>>
    BY <1>8 DEF RespMore
  <2>2. ClientSends
    <3>1. (\E n : kick_rfr_st(s, n, num_tx[s], credits + 1, FALSE)) \/ UNCHANGED <<num_tx, txq, net>>
      BY <1>8, Zenon DEF RespMore
    <3> QED BY <3>1, KickRfrSends, NothingSent
  <2>3. num_rx[s] + 1 <= sNumRx[s]
    BY <1>5, <1>6
  <2> QED BY <1>2, <1>4, <1>5, <1>7, <2>1, <2>2, <2>3, ServerTxCounted
<1>9. CASE RespLast(s, m)
  <2>1. AtLast(s, r) /\ CompleteRequest(s, Prefix(r, RespPkts[r]))
    BY <1>2, <1>3, <1>4, <1>9, LastPacket DEF LastStep
  <2>2. num_rx[s] + 1 = Wire(r)
    BY <2>1 DEF AtLast
  <2>3. ASSUME NEW x \in ServerTx PROVE SlotOf(x.req_num) # s
    <3> SUFFICES ASSUME SlotOf(x.req_num) = s PROVE FALSE
      OBVIOUS
    <3>1. /\ cReq[s] = x.msg /\ x.pkt_num \in Nat /\ num_rx[s] <= x.pkt_num
          /\ x.pkt_num < Wire(x.msg)
      BY QueuedResp
    <3>2. x.pkt_num < num_rx[s] + 1
      BY <1>5, <2>2, <3>1, Zenon
    <3>3. x.pkt_num # num_rx[s]
      BY <1>7
    <3> QED BY <1>6, <3>1, <3>2, <3>3
  <2>4. CASE backlog # <<>> /\ StartRequest(s, Head(backlog), credits + 1)
    <3>1. Head(backlog) \in Req
      BY <2>4 DEF IInv, TypeOK
    <3> QED BY <1>2, <1>4, <2>3, <2>4, <3>1, ServerTxStart
  <2>5. CASE /\ cReq' = [cReq EXCEPT ![s] = NoReq]
             /\ num_rx' = [num_rx EXCEPT ![s] = @ + 1]
             /\ UNCHANGED <<backlog, stallq, cCur, num_tx, respN, reqNum,
                            wheelVars, txq, net>>
    <3>1. cReq \in [Slots -> Req \cup {NoReq}] /\ num_rx \in [Slots -> Nat]
      BY DEF IInv, TypeOK
    <3>2. /\ cReq'[s] = NoReq
          /\ \A t \in Slots : t # s => cReq'[t] = cReq[t] /\ num_rx'[t] = num_rx[t]
      BY <1>4, <2>5, <3>1
    <3>3. Acknowledged'
      BY <1>2, <3>2 DEF ServerTxInv, Acknowledged, Active, serverVars
    <3>4. ASSUME NEW x \in ServerTx
          PROVE  /\ cReq'[SlotOf(x.req_num)] = cReq[SlotOf(x.req_num)]
                 /\ num_rx'[SlotOf(x.req_num)] <= x.pkt_num
      <4>1. PICK t : t = SlotOf(x.req_num)
        OBVIOUS
      <4>2. t \in Slots /\ t # s /\ num_rx[t] <= x.pkt_num
        BY <2>3, <4>1, QueuedResp
      <4> QED BY <3>2, <4>1, <4>2
    <3>5. ClientSends /\ cCur' = cCur
      BY <2>5, NothingSent
    <3> QED BY <1>2, <3>3, <3>4, <3>5, ServerTxClientStep
  <2> QED BY <2>1, <2>4, <2>5, Zenon DEF CompleteRequest
<1> QED BY <1>2, <1>8, <1>9

\* A step of the server keeps Acknowledged if it keeps what it has of the
\* requests it shares with the client.
LEMMA AcknowledgedStep ==
    ASSUME IInv, ServerTxInv, UNCHANGED clientVars,
           sNumRx' \in [Slots -> Nat],
           \A t \in Slots : sCur[t] = cCur[t] => sNumRx[t] <= sNumRx'[t]
    PROVE  Acknowledged'
<1>1. cReq' = cReq /\ num_rx' = num_rx
  BY DEF clientVars, slotVars
<1> SUFFICES ASSUME NEW t \in Slots, Active(t), num_rx[t] > ReqPkts[cReq[t]]
             PROVE  num_rx[t] <= sNumRx'[t]
  BY <1>1 DEF Acknowledged, Active
<1>2. cReq[t] \in Req
  BY DEF IInv, TypeOK, Active
<1>3. PICK r \in Req : r = cReq[t]
  BY <1>2
<1>4. num_rx[t] \in Nat /\ ReqPkts[r] \in Nat
  BY <1>3, ActiveSlot, PktsType
<1>5. num_rx[t] >= ReqPkts[r]
  BY <1>3, <1>4
<1>6. sCur[t] = cCur[t]
  BY <1>3, <1>5, ActiveSlot
<1>7. num_rx[t] <= sNumRx[t] /\ sNumRx[t] \in Nat
  BY DEF ServerTxInv, Acknowledged, IInv, TypeOK
<1>8. sNumRx[t] <= sNumRx'[t] /\ sNumRx'[t] \in Nat
  BY <1>6
<1> QED BY <1>4, <1>7, <1>8

\* A step of the server preserves ServerTxInv if it leaves the slots with queued
\* packets at their requests.
LEMMA ServerTxServerStep ==
    ASSUME IInv, ServerTxInv, UNCHANGED clientVars, sNumRx' \in [Slots -> Nat],
           \A t \in Slots : sCur[t] = cCur[t] => sNumRx[t] <= sNumRx'[t],
           \A m \in ServerTx' :
              \/ ServerTxOK(m)'
              \/ /\ m \in ServerTx /\ m \notin net'
                 /\ sCur'[SlotOf(m.req_num)] = sCur[SlotOf(m.req_num)]
    PROVE  ServerTxInv'
<1>1. cReq' = cReq /\ cCur' = cCur /\ num_rx' = num_rx
  BY DEF clientVars, slotVars
<1>2. ASSUME NEW m \in ServerTx', m \in ServerTx, m \notin net',
             sCur'[SlotOf(m.req_num)] = sCur[SlotOf(m.req_num)]
      PROVE  ServerTxOK(m)'
  <2>1. ServerTxOK(m)
    BY <1>2 DEF ServerTxInv
  <2>2. PICK s : s = SlotOf(m.req_num)
    OBVIOUS
  <2>3. SlotOf(m.req_num)' = s
    BY <2>2 DEF SlotOf
  <2> QED BY <1>1, <1>2, <2>1, <2>2, <2>3 DEF ServerTxOK
<1>3. Acknowledged'
  BY AcknowledgedStep
<1> QED BY <1>2, <1>3 DEF ServerTxInv

\* A retransmission of the server drains its queue.
LEMMA ResendResp_ServerTx ==
    ASSUME IInv, ServerTxInv, NEW s, NEW i, ResendResp(s, i)
    PROVE  ServerTxInv'
<1>1. UNCHANGED clientVars /\ sNumRx' = sNumRx
  BY DEF ResendResp, serverVars
<1>2. ServerTx' = {}
  BY DEF ResendResp, PostAndDrain, ServerTx
<1>3. sNumRx \in [Slots -> Nat]
  BY DEF IInv, TypeOK
<1> QED BY <1>1, <1>2, <1>3, ServerTxServerStep

\* The first packet of the next request of slot s: nothing of the slot is queued.
LEMMA NextRequest_ServerTx ==
    ASSUME IInv, ServerTxInv, UNCHANGED clientVars, NEW s \in Slots, sCur[s] # cCur[s],
           txq' = txq, \A m \in net' : m \in net \/ m.type = "cr",
           NEW n, sCur' = [sCur EXCEPT ![s] = n],
           NEW k \in Nat, sNumRx' = [sNumRx EXCEPT ![s] = k]
    PROVE  ServerTxInv'
<1>1. sCur \in [Slots -> Nat] /\ sNumRx \in [Slots -> Nat]
  BY DEF IInv, TypeOK
<1>2. sNumRx' \in [Slots -> Nat]
  BY <1>1
<1>3. \A t \in Slots : t # s => sCur'[t] = sCur[t] /\ sNumRx'[t] = sNumRx[t]
  BY <1>1
<1>4. \A t \in Slots : sCur[t] = cCur[t] => sNumRx[t] <= sNumRx'[t]
  BY <1>1, <1>3
<1>5. ASSUME NEW m \in ServerTx'
      PROVE  /\ m \in ServerTx /\ m \notin net'
             /\ sCur'[SlotOf(m.req_num)] = sCur[SlotOf(m.req_num)]
  <2>1. m \in ServerTx /\ m.type = "resp"
    BY DEF ServerTx
  <2>2. PICK t : t = SlotOf(m.req_num)
    OBVIOUS
  <2>3. t \in Slots /\ m \notin net /\ cCur[t] = m.req_num /\ sCur[t] = m.req_num
    BY <2>1, <2>2, QueuedResp
  <2>4. t # s
    BY <2>3
  <2> QED BY <1>3, <2>1, <2>2, <2>3, <2>4
<1> QED BY <1>2, <1>4, <1>5, ServerTxServerStep

\* A step of the server that sends no response packet, stays at its request and
\* forgets nothing it received.
LEMMA SameRequest_ServerTx ==
    ASSUME IInv, ServerTxInv, UNCHANGED clientVars, sCur' = sCur,
           txq' = txq, \A m \in net' : m \in net \/ m.type = "cr",
           sNumRx' \in [Slots -> Nat], \A t \in Slots : sNumRx[t] <= sNumRx'[t]
    PROVE  ServerTxInv'
<1>1. ASSUME NEW m \in ServerTx' PROVE m \in ServerTx /\ m \notin net'
  <2>1. m \in ServerTx /\ m.type = "resp"
    BY DEF ServerTx
  <2>2. m \notin net
    BY <2>1, QueuedResp
  <2> QED BY <2>1, <2>2
<1> QED BY <1>1, ServerTxServerStep

\* process_small_req_st preserves ServerTxInv.
LEMMA process_small_req_st_ServerTx ==
    ASSUME IInv, ServerTxInv, NEW m \in net, process_small_req_st(m)
    PROVE  ServerTxInv'
<1>1. PICK s : s = SlotOf(m.req_num)
  OBVIOUS
<1>2. CASE ResendResp(s, 0)
  BY <1>2, ResendResp_ServerTx
<1>3. CASE /\ m.req_num > sCur[s]
           /\ sCur' = [sCur EXCEPT ![s] = m.req_num]
           /\ sNumRx' = [sNumRx EXCEPT ![s] = 1]
           /\ UNCHANGED <<sav, clientVars, txq, net>>
  <2>1. m.type = "req"
    BY DEF process_small_req_st
  <2>2. s \in Slots /\ m.req_num \in Nat /\ m.req_num = cCur[s]
    BY <1>1, <1>3, <2>1, ReqPacket
  <2>3. sCur[s] # cCur[s]
    BY <1>3, <2>2 DEF IInv, TypeOK
  <2> QED BY <1>3, <2>2, <2>3, NextRequest_ServerTx
<1> QED BY <1>1, <1>2, <1>3, Zenon DEF process_small_req_st

\* process_large_req_one_st preserves ServerTxInv.
LEMMA process_large_req_one_st_ServerTx ==
    ASSUME IInv, ServerTxInv, NEW m \in net, process_large_req_one_st(m)
    PROVE  ServerTxInv'
<1>1. PICK s : s = SlotOf(m.req_num)
  OBVIOUS
<1>2. m.type = "req" /\ (LargeReqInOrder(s, m) \/ LargeReqPast(s, m))
  BY <1>1, Zenon DEF process_large_req_one_st
<1>3. /\ s \in Slots /\ m.req_num \in Nat /\ m.pkt_num \in Nat
      /\ m.req_num > sCur[s] => m.req_num = cCur[s]
  BY <1>1, <1>2, ReqPacket
<1>4. sCur \in [Slots -> Nat] /\ sNumRx \in [Slots -> Nat]
  BY DEF IInv, TypeOK
<1>5. CASE LargeReqPast(s, m)
  <2>1. CASE ResendResp(s, 0)
    BY <2>1, ResendResp_ServerTx
  <2>2. CASE /\ Post({}, {CtrlPkt("cr", m.req_num, m.pkt_num)})
             /\ UNCHANGED <<appVars, clientVars, serverVars>>
    <3>1. txq' = txq /\ \A x \in net' : x \in net \/ x.type = "cr"
      BY <2>2 DEF Post, CtrlPkt
    <3>2. sCur' = sCur /\ sNumRx' = sNumRx
      BY <2>2 DEF serverVars
    <3> QED BY <1>4, <2>2, <3>1, <3>2, SameRequest_ServerTx
  <2> QED BY <1>5, <2>1, <2>2, Zenon DEF LargeReqPast
<1>6. CASE LargeReqInOrder(s, m)
  <2>1. UNCHANGED clientVars
    BY <1>6 DEF LargeReqInOrder
  <2>2. txq' = txq /\ \A x \in net' : x \in net \/ x.type = "cr"
    <3>1. PICK D : (\A x \in D : x.type = "cr") /\ Post({}, D)
      BY <1>6 DEF LargeReqInOrder, CtrlPkt
    <3> QED BY <3>1 DEF Post
  <2>3. PICK k \in Nat : /\ k = (IF m.pkt_num = 0 THEN 1 ELSE sNumRx[s] + 1)
                         /\ sNumRx' = [sNumRx EXCEPT ![s] = k]
    <3>1. sNumRx' = [sNumRx EXCEPT ![s] = IF m.pkt_num = 0 THEN 1 ELSE sNumRx[s] + 1]
      BY <1>6, Zenon DEF LargeReqInOrder
    <3>2. (IF m.pkt_num = 0 THEN 1 ELSE sNumRx[s] + 1) \in Nat
      BY <1>3, <1>4
    <3> QED BY <3>1, <3>2
  <2>4. CASE m.req_num = sCur[s] /\ m.pkt_num = sNumRx[s]
    <3>1. sCur' = sCur
      <4>1. sCur' = [sCur EXCEPT ![s] = m.req_num] \/ sCur' = sCur
        BY <1>6, Zenon DEF LargeReqInOrder
      <4> QED BY <1>3, <1>4, <2>4, <4>1
    <3>2. k = sNumRx[s] + 1
      BY <2>3, <2>4
    <3>3. sNumRx' \in [Slots -> Nat] /\ \A t \in Slots : sNumRx[t] <= sNumRx'[t]
      BY <1>3, <1>4, <2>3, <3>2
    <3> QED BY <2>1, <2>2, <3>1, <3>3, SameRequest_ServerTx
  <2>5. CASE m.req_num = sCur[s] + kSessionReqWindow /\ m.pkt_num = 0
    <3>1. sCur[s] # cCur[s]
      BY <1>3, <1>4, <2>5, SessionAssumption
    <3>2. sCur' = [sCur EXCEPT ![s] = m.req_num]
      BY <1>6, <2>5 DEF LargeReqInOrder
    <3> QED BY <1>3, <2>1, <2>2, <2>3, <3>1, <3>2, NextRequest_ServerTx
  <2> QED BY <1>6, <2>4, <2>5, Zenon DEF LargeReqInOrder
<1> QED BY <1>2, <1>5, <1>6

\* A response packet sent for the first time: the slots are at its request, and
\* the network has no packet with its number.
LEMMA FirstResp_ServerTx ==
    ASSUME IInv, ServerTxInv, UNCHANGED clientVars, sCur' = sCur, net' = net,
           sNumRx' \in [Slots -> Nat], \A t \in Slots : sNumRx[t] <= sNumRx'[t],
           NEW s \in Slots, NEW r \in Req, NEW i \in Nat, NEW p,
           p = RespPkt(s, r, ReqPkts[r], i), txq' = txq \cup {p},
           Active(s), cReq[s] = r, cCur[s] = sCur[s],
           num_rx[s] <= ReqPkts[r] - 1 + i, p \notin net
    PROVE  ServerTxInv'
<1>1. p = [type |-> "resp", req_num |-> sCur[s], pkt_num |-> ReqPkts[r] - 1 + i,
           num_pkts |-> RespPkts[r], msg |-> r, idx |-> i]
  BY RespPktType, Zenon DEF IInv
<1>2. p.req_num = sCur[s] /\ p.pkt_num = ReqPkts[r] - 1 + i /\ p.msg = r
  BY <1>1
<1>3. SlotOf(p.req_num) = s
  BY <1>2 DEF IInv, Numbering
<1>4. ServerTxOK(p)'
  <2>1. cReq' = cReq /\ cCur' = cCur /\ num_rx' = num_rx
    BY DEF clientVars, slotVars
  <2>2. SlotOf(p.req_num)' = s
    BY <1>3 DEF SlotOf
  <2> QED BY <1>2, <2>1, <2>2 DEF ServerTxOK
<1>5. ASSUME NEW m \in ServerTx', m # p PROVE m \in ServerTx /\ m \notin net'
  <2>1. m \in ServerTx
    BY <1>5 DEF ServerTx
  <2>2. m \notin net
    BY <2>1, QueuedResp
  <2> QED BY <2>1, <2>2
<1> QED BY <1>4, <1>5, ServerTxServerStep

\* enqueue_response preserves ServerTxInv: no packet of the response exists yet.
LEMMA enqueue_response_ServerTx ==
    ASSUME IInv, ServerTxInv, NEW s \in Slots, enqueue_response(s)
    PROVE  ServerTxInv'
<1>1. PICK r \in Req : r = req_type[s]
  BY DEF IInv, TypeOK, enqueue_response
<1>2. req_type[s] # NoReq
  BY <1>1, ReqAssumption
<1>3. Serving(s, r) /\ Handling(s, r)
  BY <1>1, <1>2 DEF IInv, ServerSlots, Fresh, Serving, Receiving, Handling, Answering
<1>4. Active(s) /\ sCur[s] = cCur[s]
  BY <1>2 DEF IInv, ServerSlots, Fresh, Answering, Done
<1>5. Started(r) /\ reqNum[r] = sCur[s] /\ reqN[s] = ReqPkts[r] /\ r \notin responded
  BY <1>3 DEF Serving, Handling
<1>6. cReq[s] = r
  <2>1. cReq[s] \in Req
    BY <1>4 DEF IInv, TypeOK, Active
  <2> QED BY <1>4, <1>5, <2>1 DEF IInv, Numbering
<1>7. num_rx[s] <= ReqPkts[r] - 1 + 0
  <2>1. num_rx[s] \in Nat /\ ~(num_rx[s] >= ReqPkts[r])
    BY <1>4, <1>5, <1>6, ActiveSlot
  <2>2. ReqPkts[r] \in Nat
    BY PktsType
  <2> QED BY <2>1, <2>2
<1>8. PICK p : p = RespPkt(s, r, ReqPkts[r], 0)
  OBVIOUS
<1>9. p \notin net
  <2>1. p.type = "resp" /\ p.msg = r
    BY <1>8 DEF RespPkt
  <2> QED BY <1>5, <2>1 DEF IInv, Packets, PacketOK
<1>10. /\ txq' = txq \cup {p} /\ net' = net /\ UNCHANGED clientVars
       /\ sCur' = sCur /\ sNumRx' = sNumRx
  BY <1>1, <1>5, <1>8 DEF enqueue_response, Post
<1>11. sNumRx \in [Slots -> Nat]
  BY DEF IInv, TypeOK
<1>12. sNumRx' \in [Slots -> Nat] /\ \A t \in Slots : sNumRx[t] <= sNumRx'[t]
  BY <1>10, <1>11
<1> QED BY <1>4, <1>6, <1>7, <1>8, <1>9, <1>10, <1>12, FirstResp_ServerTx

\* process_rfr_st preserves ServerTxInv: an RFR in order asks for a packet that
\* was never sent, any other is answered by a retransmission.
LEMMA process_rfr_st_ServerTx ==
    ASSUME IInv, ServerTxInv, NEW m \in net, process_rfr_st(m)
    PROVE  ServerTxInv'
<1>0. PICK s : s = SlotOf(m.req_num)
  OBVIOUS
<1>1. m.type = "rfr" /\ m.req_num = sCur[s]
  BY <1>0 DEF process_rfr_st
<1>2. PICK k \in Nat : k = m.pkt_num
  BY DEF IInv, TypeOK, Pkt
<1>3. s \in Slots /\ m.req_num \in Nat
  BY <1>0, SlotOfType DEF IInv, TypeOK, Pkt
<1>4. PICK r \in Req : /\ Started(r) /\ reqNum[r] = m.req_num
                       /\ ReqPkts[r] <= k /\ k < Wire(r) /\ r \in responded
  BY <1>1, <1>2 DEF IInv, Packets, PacketOK
<1>5. /\ ReqPkts[r] \in Nat /\ ReqPkts[r] >= 1 /\ RespPkts[r] \in Nat
      /\ Wire(r) \in Nat
  BY PktsType
<1>6. Serving(s, r) /\ Answering(s, r) /\ (Done(s) => sNumRx[s] = Wire(r))
  <2>1. Serving(s, r) /\ (Done(s) => sNumRx[s] = Wire(r))
    BY <1>1, <1>3, <1>4, ServedBy
  <2> QED BY <1>4, <2>1 DEF Serving, Receiving, Handling
<1>7. sTx[s] = r /\ sav[s] = ReqPkts[r] /\ sNumRx \in [Slots -> Nat]
  BY <1>6 DEF Answering, IInv, TypeOK
<1>8. PICK i \in Nat : i = resp_ntoi(m.pkt_num, sav[s]) /\ ReqPkts[r] - 1 + i = k
  BY <1>2, <1>4, <1>5, <1>7 DEF resp_ntoi
<1>9. CASE ResendResp(s, i)
  BY <1>9, ResendResp_ServerTx
<1>10. CASE /\ m.pkt_num = sNumRx[s]
            /\ sNumRx' = [sNumRx EXCEPT ![s] = @ + 1]
            /\ Post({RespPkt(s, sTx[s], sav[s], i)}, {})
            /\ UNCHANGED <<appVars, clientVars, sTx, sCur, req_type, reqN, reqBuf, sav>>
  <2>1. PICK p : p = RespPkt(s, r, ReqPkts[r], i)
    OBVIOUS
  <2>2. /\ txq' = txq \cup {p} /\ net' = net /\ sCur' = sCur /\ UNCHANGED clientVars
    BY <1>7, <1>10, <2>1 DEF Post
  <2>3. sNumRx' \in [Slots -> Nat] /\ \A t \in Slots : sNumRx[t] <= sNumRx'[t]
    BY <1>3, <1>7, <1>10
  <2>4. k = sNumRx[s]
    BY <1>2, <1>10
  <2>5. ~Done(s)
    BY <1>4, <1>5, <1>6, <2>4
  <2>6. Active(s) /\ sCur[s] = cCur[s]
    BY <2>5 DEF Done
  <2>7. cReq[s] = r
    <3>1. cReq[s] \in Req
      BY <1>3, <2>6 DEF IInv, TypeOK, Active
    <3> QED BY <1>1, <1>3, <1>4, <2>6, <3>1 DEF IInv, Numbering
  <2>8. num_rx[s] <= ReqPkts[r] - 1 + i
    <3>1. num_rx[s] \in Nat
      BY <1>3 DEF IInv, TypeOK
    <3>2. CASE num_rx[s] > ReqPkts[r]
      BY <1>3, <1>8, <2>4, <2>6, <2>7, <3>2 DEF ServerTxInv, Acknowledged
    <3>3. CASE ~(num_rx[s] > ReqPkts[r])
      BY <1>4, <1>5, <1>8, <3>1, <3>3
    <3> QED BY <3>2, <3>3
  <2>9. p \notin net
    <3>1. p = [type |-> "resp", req_num |-> sCur[s], pkt_num |-> ReqPkts[r] - 1 + i,
               num_pkts |-> RespPkts[r], msg |-> r, idx |-> i]
      BY <1>3, <2>1, RespPktType, Zenon DEF IInv
    <3>2. p.type = "resp" /\ p.req_num = sCur[s] /\ p.pkt_num = k
      BY <1>8, <3>1
    <3>3. SlotOf(p.req_num) = s
      BY <1>3, <3>2 DEF IInv, Numbering
    <3>4. ~(k < sNumRx[s])
      BY <2>4
    <3> QED BY <3>2, <3>3, <3>4 DEF IInv, Packets, PacketOK
  <2> QED BY <1>3, <2>1, <2>2, <2>3, <2>6, <2>7, <2>8, <2>9, FirstResp_ServerTx
<1> QED BY <1>0, <1>8, <1>9, <1>10, Zenon DEF process_rfr_st

\* The steps of NICs and network preserve ServerTxInv.
LEMMA Network_ServerTx ==
    ASSUME IInv, ServerTxInv, UNCHANGED <<appVars, clientVars, serverVars>>,
           NEW m, \/ txq' = txq \ {m} /\ net' = net \cup {m}
                  \/ txq' = txq /\ net' = net \ {m}
                  \/ txq' = txq /\ net' = net
    PROVE  ServerTxInv'
<1>1. sCur' = sCur /\ sNumRx' = sNumRx /\ sNumRx \in [Slots -> Nat]
  BY DEF serverVars, IInv, TypeOK
<1>2. ASSUME NEW x \in ServerTx' PROVE x \in ServerTx /\ x \notin net'
  <2>1. x \in ServerTx
    BY <1>2 DEF ServerTx
  <2>2. x \notin net
    BY <2>1, QueuedResp
  <2> QED BY <1>2, <2>1, <2>2 DEF ServerTx
<1> QED BY <1>1, <1>2, ServerTxServerStep

\* Every step preserves ServerTxInv.
LEMMA NextServerTx == IInv /\ ServerTxInv /\ [Next]_vars => ServerTxInv'
<1> SUFFICES ASSUME IInv, ServerTxInv, [Next]_vars PROVE ServerTxInv'
  OBVIOUS
<1>1. ASSUME NEW r \in Req, enqueue_request(r) PROVE ServerTxInv'
  BY <1>1, enqueue_request_ServerTx
<1>2. CASE process_credit_stall_queue_st
  BY <1>2, process_credit_stall_queue_st_ServerTx
<1>3. ASSUME NEW e \in wheel, process_wheel_st(e[1], e[2]) PROVE ServerTxInv'
  BY <1>3, process_wheel_st_ServerTx
<1>4. ASSUME NEW s \in Slots, enqueue_response(s) PROVE ServerTxInv'
  BY <1>4, enqueue_response_ServerTx
<1>5. ASSUME NEW m \in net, process_comps_st(m) PROVE ServerTxInv'
  BY <1>5, process_small_req_st_ServerTx, process_large_req_one_st_ServerTx,
     process_resp_one_st_ServerTx, process_rfr_st_ServerTx, process_expl_cr_st_ServerTx
     DEF process_comps_st
<1>6. ASSUME NEW m \in txq, NicTx(m) PROVE ServerTxInv'
  BY <1>6, Network_ServerTx DEF NicTx
<1>7. ASSUME NEW m \in net, Lose(m) PROVE ServerTxInv'
  BY <1>7, Network_ServerTx DEF Lose
<1>8. ASSUME NEW s \in Slots, pkt_loss_scan_st(s) PROVE ServerTxInv'
  BY <1>8, pkt_loss_scan_st_ServerTx
<1>9. CASE UNCHANGED vars
  BY <1>9, Network_ServerTx DEF vars
<1> QED BY <1>1, <1>2, <1>3, <1>4, <1>5, <1>6, <1>7, <1>8, <1>9 DEF Next, Step

\* Every queued response packet is one the client still waits for, through
\* retransmissions on both sides.
THEOREM ServerTxInvariance == Spec => []ServerTxInv
<1>1. Init => ServerTxInv
  BY DEF Init, ServerTxInv, ServerTx, Acknowledged, Active
<1>2. IInv /\ ServerTxInv /\ [Next]_vars => ServerTxInv'
  BY NextServerTx
<1> QED BY <1>1, <1>2, Invariance, PTL DEF Spec

\* The server's TX queue never refers to a response MsgBuffer that was buried: the
\* slot still holds the response every queued packet points into.
THEOREM ServerTxReferencesHold == Spec => []NoServerTxReference
<1>1. ASSUME IInv, ServerTxInv, NEW m \in ServerTx, NEW s, s = SlotOf(m.req_num)
      PROVE  sTx[s] = m.msg /\ sCur[s] = m.req_num
  <2>1. s \in Slots /\ m.type = "resp" /\ m \in txq /\ sCur[s] = m.req_num /\ m.msg \in Req
    BY <1>1, QueuedResp
  <2>2. Started(m.msg) /\ m.req_num = reqNum[m.msg] /\ m.msg \in responded
    BY <1>1, <2>1 DEF IInv, Packets, PacketOK
  <2>3. Serving(s, m.msg)
    BY <1>1, <2>1, <2>2, ServedBy
  <2>4. Answering(s, m.msg)
    BY <2>2, <2>3 DEF Serving, Receiving, Handling
  <2> QED BY <2>1, <2>4 DEF Answering
<1>2. IInv /\ ServerTxInv => NoServerTxReference
  BY <1>1 DEF NoServerTxReference
<1> QED BY <1>2, Invariance, ServerTxInvariance, PTL

-------------------------------------------------------------------------------
(***************************************************************************)
(* The client's TX queue, without pacing.                                  *)
(***************************************************************************)
\* A request packet is determined by its request and its number.
LEMMA ReqUnique ==
    ASSUME IInv, NEW m \in net \cup txq, NEW x \in net \cup txq,
           m.type = "req", x.type = "req", m.req_num = x.req_num, m.pkt_num = x.pkt_num
    PROVE  m = x
<1>1. m \in Pkt /\ x \in Pkt
  BY DEF IInv, TypeOK
<1>2. PacketOK(m) /\ PacketOK(x)
  BY DEF IInv, Packets
<1>3. /\ m.msg \in Req /\ x.msg \in Req /\ Started(m.msg)
      /\ reqNum[m.msg] = m.req_num /\ reqNum[x.msg] = x.req_num
      /\ m.num_pkts = ReqPkts[m.msg] /\ x.num_pkts = ReqPkts[x.msg]
      /\ m.idx = m.pkt_num /\ x.idx = x.pkt_num
  BY <1>2 DEF PacketOK
<1>4. m.msg = x.msg
  BY <1>3 DEF IInv, Numbering
<1>5. m.num_pkts = x.num_pkts /\ m.idx = x.idx
  BY <1>3, <1>4, Zenon
<1>6. \A p \in Pkt : p = [type |-> p.type, req_num |-> p.req_num, pkt_num |-> p.pkt_num,
                         num_pkts |-> p.num_pkts, msg |-> p.msg, idx |-> p.idx]
  BY DEF Pkt
<1> QED BY <1>1, <1>4, <1>5, <1>6, Zenon

\* What is known of a request packet.
LEMMA ReqKnown ==
    ASSUME IInv, NEW m \in net \cup txq, m.type = "req", NEW s, s = SlotOf(m.req_num)
    PROVE  /\ s \in Slots /\ m.req_num \in Nat /\ m.pkt_num \in Nat
           /\ m.req_num <= cCur[s]
           /\ Active(s) /\ m.req_num = cCur[s] =>
                cReq[s] = m.msg /\ m.msg \in Req /\ m.pkt_num < ReqPkts[cReq[s]]
<1>1. s \in Slots /\ m.req_num \in Nat /\ m.pkt_num \in Nat
  BY SlotOfType DEF IInv, TypeOK, Pkt
<1>2. /\ m.msg \in Req /\ Started(m.msg) /\ m.req_num = reqNum[m.msg]
      /\ m.pkt_num < ReqPkts[m.msg]
  BY DEF IInv, Packets, PacketOK
<1>3. m.req_num <= cCur[s]
  BY <1>2 DEF IInv, Numbering
<1>4. ASSUME Active(s), m.req_num = cCur[s] PROVE cReq[s] = m.msg
  <2>1. cReq[s] \in Req
    BY <1>1, <1>4 DEF IInv, TypeOK, Active
  <2>2. Started(cReq[s]) /\ reqNum[cReq[s]] = reqNum[m.msg]
    BY <1>1, <1>2, <1>4 DEF IInv, Numbering
  <2> QED BY <1>2, <2>1, <2>2 DEF IInv, Numbering
<1> QED BY <1>1, <1>2, <1>3, <1>4, Zenon

\* What is known of a queued request packet.
LEMMA QueuedReq ==
    ASSUME IInv, ClientTxInv, NEW m \in ClientTx, NEW s, s = SlotOf(m.req_num)
    PROVE  /\ s \in Slots /\ m \in txq /\ m.type = "req" /\ m \notin net
           /\ m.msg \in Req /\ cReq[s] = m.msg /\ Active(s) /\ cCur[s] = m.req_num
           /\ m.pkt_num \in Nat /\ m.pkt_num < ReqPkts[cReq[s]]
           /\ sCur[s] = cCur[s] => sNumRx[s] <= m.pkt_num
<1>1. m \in txq /\ m.type = "req"
  BY DEF ClientTx
<1>2. ClientTxOK(m)
  BY DEF ClientTxInv
<1>3. /\ cReq[s] = m.msg /\ cCur[s] = m.req_num /\ m \notin net
      /\ sCur[s] = cCur[s] => sNumRx[s] <= m.pkt_num
  BY <1>2 DEF ClientTxOK
<1>4. m.msg \in Req
  BY <1>1 DEF IInv, Packets, PacketOK
<1>5. Active(s)
  BY <1>3, <1>4, ReqAssumption DEF Active
<1> QED BY <1>1, <1>3, <1>4, <1>5, ReqKnown

\* A step of the client within its requests: it may raise num_tx_ of a slot, or
\* leave it at or above the number of request packets.
LEMMA ClientTxSameRequests ==
    ASSUME IInv, IInv', ClientTxInv, UNCHANGED serverVars, UNCHANGED <<cReq, cCur>>,
           \A t \in Slots : Active(t) => num_tx[t] <= num_tx'[t]
                                         \/ ReqPkts[cReq[t]] <= num_tx'[t],
           \A m \in net' \cup txq' : m \in net \cup txq \/ SentOK(m)',
           \A m \in ClientTx' : (m \in ClientTx /\ m \notin net') \/ ClientTxOK(m)'
    PROVE  ClientTxInv'
<1>1. sCur' = sCur /\ sNumRx' = sNumRx /\ \A t : Active(t)' <=> Active(t)
  BY DEF serverVars, Active
<1>2. Received'
  <2> SUFFICES ASSUME NEW t \in Slots, Active(t), sCur[t] = cCur[t]
               PROVE  sNumRx[t] <= num_tx'[t] \/ ReqPkts[cReq[t]] <= num_tx'[t]
    BY <1>1 DEF Received
  <2>1. PICK r \in Req : r = cReq[t]
    BY DEF IInv, TypeOK, Active
  <2>2. /\ num_tx[t] \in Nat /\ num_tx'[t] \in Nat /\ sNumRx[t] \in Nat
        /\ ReqPkts[r] \in Nat
    BY PktsType DEF IInv, TypeOK
  <2>3. sNumRx[t] <= num_tx[t] \/ ReqPkts[r] <= num_tx[t]
    BY <2>1 DEF ClientTxInv, Received
  <2>4. num_tx[t] <= num_tx'[t] \/ ReqPkts[r] <= num_tx'[t]
    BY <2>1
  <2> QED BY <2>1, <2>2, <2>3, <2>4
<1>3. ASSUME NEW m \in net' \cup txq', m \in net \cup txq PROVE SentOK(m)'
  <2>1. PICK t : t = SlotOf(m.req_num)
    OBVIOUS
  <2>2. SlotOf(m.req_num)' = t
    BY <2>1 DEF SlotOf
  <2> SUFFICES ASSUME m.type = "req", Active(t), m.req_num = cCur[t]
               PROVE  m.pkt_num < num_tx'[t]
    BY <1>1, <2>2 DEF SentOK
  <2>3. /\ t \in Slots /\ m.pkt_num \in Nat /\ m.msg \in Req /\ cReq[t] = m.msg
        /\ m.pkt_num < ReqPkts[cReq[t]]
    BY <1>3, <2>1, ReqKnown
  <2>4. m.pkt_num < num_tx[t]
    BY <1>3, <2>1 DEF ClientTxInv, SentOK
  <2>5. num_tx[t] \in Nat /\ num_tx'[t] \in Nat /\ ReqPkts[cReq[t]] \in Nat
    BY <2>3, PktsType DEF IInv, TypeOK
  <2>6. num_tx[t] <= num_tx'[t] \/ ReqPkts[cReq[t]] <= num_tx'[t]
    BY <2>3
  <2> QED BY <2>3, <2>4, <2>5, <2>6
<1>4. ASSUME NEW m \in ClientTx', m \in ClientTx, m \notin net' PROVE ClientTxOK(m)'
  <2>1. ClientTxOK(m)
    BY <1>4 DEF ClientTxInv
  <2>2. PICK t : t = SlotOf(m.req_num)
    OBVIOUS
  <2>3. SlotOf(m.req_num)' = t
    BY <2>2 DEF SlotOf
  <2> QED BY <1>1, <1>4, <2>1, <2>2, <2>3 DEF ClientTxOK
<1> QED BY <1>2, <1>3, <1>4 DEF ClientTxInv

\* What kick_req_st does without pacing: it posts the packets from .. to-1, as
\* many as there are, or as there are credits for.
Posted(s, r, num, from, crd, drain, to) ==
    /\ from <= to /\ to <= ReqPkts[r] /\ (to = ReqPkts[r] \/ to = from + crd)
    /\ num_tx' = [num_tx EXCEPT ![s] = to]
    /\ IF drain THEN PostAndDrain(ClientTx, {ReqPkt(r, num, i) : i \in from..(to - 1)}, {})
                ELSE Post({ReqPkt(r, num, i) : i \in from..(to - 1)}, {})

\* kick_req_st does so.
LEMMA KickReqUnpaced ==
    ASSUME ~kCcPacing, NEW s, NEW r \in Req, NEW num, NEW from \in Nat, from <= ReqPkts[r],
           NEW crd \in Nat, NEW drain, kick_req_st(s, r, num, from, crd, drain)
    PROVE  \E to \in Nat : Posted(s, r, num, from, crd, drain, to)
<1>1. ReqPkts[r] \in Nat
  BY PktsType
<1>2. PICK k \in Nat : k = Minimum(crd, ReqPkts[r] - from)
  BY <1>1 DEF Minimum
<1>3. PICK to \in Nat : to = from + k
  OBVIOUS
<1>4. from <= to /\ to <= ReqPkts[r] /\ (to = ReqPkts[r] \/ to = from + crd)
  BY <1>1, <1>2, <1>3 DEF Minimum
<1> DEFINE sending == Minimum(crd, ReqPkts[r] - from)
           nums    == from..(from + sending - 1)
           D       == {ReqPkt(r, num, i) : i \in nums}
<1>5. /\ num_tx' = [num_tx EXCEPT ![s] = from + sending]
      /\ IF drain THEN PostAndDrain(ClientTx, D, {}) ELSE Post(D, {})
  BY Zenon DEF kick_req_st
<1>6. sending = k /\ nums = from..(to - 1)
  BY <1>2, <1>3
<1> HIDE DEF sending, nums
<1>7. D = {ReqPkt(r, num, i) : i \in from..(to - 1)}
  BY <1>6, Zenon
<1> HIDE DEF D
<1>8. Posted(s, r, num, from, crd, drain, to)
  BY <1>3, <1>4, <1>5, <1>6, <1>7, Zenon DEF Posted
<1> QED BY <1>8

\* Packets of slot s sent for the first time preserve ClientTxInv: the network
\* has none of them and the server has received none of them.
LEMMA FirstReq_ClientTx ==
    ASSUME ~kCcPacing, IInv, IInv', ClientTxInv, UNCHANGED serverVars,
           UNCHANGED <<cReq, cCur>>,
           NEW s \in Slots, Active(s), req_pkts_pending(s), NEW crd \in Nat,
           kick_req_st(s, cReq[s], reqNum[cReq[s]], num_tx[s], crd, FALSE)
    PROVE  ClientTxInv'
<1>1. PICK r \in Req : r = cReq[s]
  BY DEF IInv, TypeOK, Active
<1>2. /\ num_tx \in [Slots -> Nat] /\ sNumRx[s] \in Nat /\ ReqPkts[r] \in Nat
      /\ SlotOf(cCur[s]) = s /\ cCur[s] \in Nat /\ reqNum[r] = cCur[s]
  BY <1>1, PktsType DEF IInv, TypeOK, Numbering
<1>3. PICK from \in Nat : from = num_tx[s]
  BY <1>2
<1>4. from < ReqPkts[r]
  BY <1>1, <1>3 DEF req_pkts_pending
<1>5. kick_req_st(s, r, reqNum[r], from, crd, FALSE)
  BY <1>1, <1>3, Zenon
<1>6. PICK to \in Nat : Posted(s, r, reqNum[r], from, crd, FALSE, to)
  <2>1. from <= ReqPkts[r]
    BY <1>2, <1>4
  <2> QED BY <1>5, <2>1, KickReqUnpaced
<1> DEFINE D == {ReqPkt(r, cCur[s], i) : i \in from..(to - 1)}
<1>7. txq' = txq \cup D /\ net' = net
  BY <1>2, <1>6 DEF Posted, Post
<1>8. num_tx'[s] = to /\ \A t \in Slots : t # s => num_tx'[t] = num_tx[t]
  BY <1>2, <1>6 DEF Posted
<1>9. \A t \in Slots : num_tx[t] <= num_tx'[t]
  BY <1>2, <1>3, <1>6, <1>8 DEF Posted
<1>10. ASSUME NEW m \in D
       PROVE  /\ m.type = "req" /\ m.req_num = cCur[s] /\ m.msg = r
              /\ m.pkt_num \in Nat /\ from <= m.pkt_num /\ m.pkt_num < to
  <2>1. PICK i \in from..(to - 1) : m = ReqPkt(r, cCur[s], i)
    OBVIOUS
  <2>2. /\ m.type = "req" /\ m.req_num = cCur[s] /\ m.msg = r /\ m.pkt_num = i
    BY <2>1 DEF ReqPkt
  <2> QED BY <2>2
<1> HIDE DEF D
<1>11. ASSUME NEW m \in net' \cup txq' PROVE m \in net \cup txq \/ SentOK(m)'
  <2>1. CASE m \in D
    <3>1. SlotOf(m.req_num)' = s
      BY <1>2, <1>10, <2>1 DEF SlotOf
    <3> QED BY <1>8, <1>10, <2>1, <3>1 DEF SentOK
  <2> QED BY <1>7, <2>1
<1>12. ASSUME NEW m \in ClientTx' PROVE (m \in ClientTx /\ m \notin net') \/ ClientTxOK(m)'
  <2>1. CASE m \in D
    <3>1. SlotOf(m.req_num) = s /\ SlotOf(m.req_num)' = s
      BY <1>2, <1>10, <2>1 DEF SlotOf
    <3>2. m \notin net
      <4> SUFFICES ASSUME m \in net PROVE FALSE
        OBVIOUS
      <4>1. m.pkt_num < num_tx[s]
        BY <1>10, <2>1, <3>1 DEF ClientTxInv, SentOK
      <4> QED BY <1>3, <1>10, <2>1, <4>1
    <3>3. sCur[s] = cCur[s] => sNumRx[s] <= m.pkt_num
      <4> SUFFICES ASSUME sCur[s] = cCur[s] PROVE sNumRx[s] <= m.pkt_num
        OBVIOUS
      <4>1. sNumRx[s] <= from \/ ReqPkts[r] <= from
        BY <1>1, <1>3 DEF ClientTxInv, Received
      <4>2. from <= m.pkt_num /\ m.pkt_num \in Nat
        BY <1>10, <2>1
      <4> QED BY <1>2, <1>4, <4>1, <4>2
    <3>4. cReq'[s] = m.msg /\ cCur'[s] = m.req_num
      BY <1>1, <1>10, <2>1
    <3>5. sCur' = sCur /\ sNumRx' = sNumRx
      BY DEF serverVars
    <3> QED BY <1>7, <3>1, <3>2, <3>3, <3>4, <3>5 DEF ClientTxOK
  <2>2. CASE m \notin D
    <3>1. m \in ClientTx
      BY <1>7, <2>2 DEF ClientTx
    <3> QED BY <1>7, <3>1, QueuedReq
  <2> QED BY <2>1, <2>2
<1> QED BY <1>9, <1>11, <1>12, ClientTxSameRequests

\* RFRs, and steps that send nothing, preserve it as long as num_tx_ stays.
LEMMA NoReq_ClientTx ==
    ASSUME IInv, IInv', ClientTxInv, UNCHANGED serverVars, UNCHANGED <<cReq, cCur>>,
           \A t \in Slots : Active(t) => num_tx[t] <= num_tx'[t]
                                         \/ ReqPkts[cReq[t]] <= num_tx'[t],
           \A m \in txq' : m \in txq \/ m.type # "req",
           \A m \in net' : m \in net \/ m.type # "req"
    PROVE  ClientTxInv'
<1>1. ASSUME NEW m \in net' \cup txq' PROVE m \in net \cup txq \/ SentOK(m)'
  BY DEF SentOK
<1>2. ASSUME NEW m \in ClientTx' PROVE m \in ClientTx /\ m \notin net'
  <2>1. m \in ClientTx /\ m.type = "req"
    BY DEF ClientTx
  <2>2. m \notin net
    BY <2>1, QueuedReq
  <2> QED BY <2>1, <2>2
<1> QED BY <1>1, <1>2, ClientTxSameRequests

\* A step that drains the client's queue preserves it.
LEMMA Drained_ClientTx ==
    ASSUME IInv, IInv', ClientTxInv, UNCHANGED serverVars, UNCHANGED <<cReq, cCur>>,
           \A t \in Slots : Active(t) => num_tx[t] <= num_tx'[t]
                                         \/ ReqPkts[cReq[t]] <= num_tx'[t],
           NEW D, NEW C, PostAndDrain(ClientTx, D, C),
           \A m \in D \cup C : SentOK(m)'
    PROVE  ClientTxInv'
<1>1. ASSUME NEW m \in net' \cup txq' PROVE m \in net \cup txq \/ SentOK(m)'
  BY DEF PostAndDrain, ClientTx
<1>2. ClientTx' = {}
  BY DEF PostAndDrain, ClientTx
<1> QED BY <1>1, <1>2, ClientTxSameRequests

\* process_credit_stall_queue_st preserves ClientTxInv.
LEMMA process_credit_stall_queue_st_ClientTx ==
    ASSUME ~kCcPacing, IInv, IInv', ClientTxInv, process_credit_stall_queue_st
    PROVE  ClientTxInv'
<1>1. stallq \in Seq(Slots) /\ stallq # <<>> /\ credits \in Nat
  BY SessionAssumption DEF IInv, TypeOK, process_credit_stall_queue_st
<1>2. PICK s \in Slots : s = Head(stallq)
  BY <1>1
<1>3. 1 \in 1..Len(stallq) /\ stallq[1] = s
  BY <1>1, <1>2
<1>4. Active(s) /\ num_tx[s] = 0
  BY <1>3 DEF IInv, StalledIffIdle, Stalled
<1>5. cReq[s] \in Req
  BY <1>4 DEF IInv, TypeOK, Active
<1>6. req_pkts_pending(s)
  <2>1. ReqPkts[cReq[s]] \in Nat /\ ReqPkts[cReq[s]] >= 1
    BY <1>5, PktsType
  <2> QED BY <1>4, <2>1 DEF req_pkts_pending
<1>7. kick_req_st(s, cReq[s], reqNum[cReq[s]], num_tx[s], credits, FALSE)
  BY <1>2, <1>6, Zenon DEF process_credit_stall_queue_st
<1>8. UNCHANGED serverVars /\ UNCHANGED <<cReq, cCur>>
  BY DEF process_credit_stall_queue_st
<1> QED BY <1>1, <1>4, <1>6, <1>7, <1>8, FirstReq_ClientTx

\* process_expl_cr_st preserves ClientTxInv.
LEMMA process_expl_cr_st_ClientTx ==
    ASSUME ~kCcPacing, IInv, IInv', ClientTxInv, NEW m \in net, process_expl_cr_st(m)
    PROVE  ClientTxInv'
<1>1. PICK s : s = SlotOf(m.req_num)
  OBVIOUS
<1>2. /\ m.type = "cr" /\ in_order_client(s, m)
      /\ UNCHANGED serverVars /\ UNCHANGED <<cReq, cCur>>
  BY <1>1 DEF process_expl_cr_st
<1>3. s \in Slots /\ Active(s)
  BY <1>1, <1>2, CrAccepted
<1>4. credits \in Nat /\ credits + 1 \in Nat
  BY SessionAssumption DEF IInv, TypeOK
<1>5. CASE /\ req_pkts_pending(s)
           /\ kick_req_st(s, cReq[s], reqNum[cReq[s]], num_tx[s], credits + 1, FALSE)
  BY <1>2, <1>3, <1>4, <1>5, FirstReq_ClientTx
<1>6. CASE UNCHANGED <<num_tx, wheelVars, txq, net>>
  <2>1. \A t \in Slots : num_tx[t] \in Nat /\ num_tx'[t] = num_tx[t]
    BY <1>6 DEF IInv, TypeOK
  <2>2. \A t \in Slots : num_tx[t] <= num_tx'[t]
    BY <2>1
  <2> QED BY <1>2, <1>6, <2>2, NoReq_ClientTx
<1> QED BY <1>1, <1>5, <1>6, Zenon DEF process_expl_cr_st

\* What kick_rfr_st sends, and that it changes num_tx_ of its slot only.
LEMMA KickRfrPosts ==
    ASSUME NEW s, NEW n, NEW from, NEW crd, NEW drain \in BOOLEAN,
           kick_rfr_st(s, n, from, crd, drain)
    PROVE  \E C, to : /\ \A m \in C : m.type = "rfr"
                      /\ num_tx' = [num_tx EXCEPT ![s] = to]
                      /\ IF drain THEN PostAndDrain(ClientTx, {}, C) ELSE Post({}, C)
<1> DEFINE sending == Minimum(crd, wire_pkts(cReq[s], n) - from)
           nums    == from..(from + sending - 1)
           C       == {CtrlPkt("rfr", cCur[s], i) : i \in nums}
<1>1. /\ num_tx' = [num_tx EXCEPT ![s] = from + sending]
      /\ IF drain THEN PostAndDrain(ClientTx, {}, C) ELSE Post({}, C)
  BY Zenon DEF kick_rfr_st
<1>2. \A m \in C : m.type = "rfr"
  BY DEF CtrlPkt
<1> HIDE DEF sending, C
<1> QED BY <1>1, <1>2

\* Once the client counts the last request packet as received, num_tx_ may move
\* as it likes.
LEMMA Answered_num_tx ==
    ASSUME IInv, IInv', NEW s \in Slots, Active(s), cReq' = cReq,
           ReqPkts[cReq[s]] <= num_rx'[s], NEW to, num_tx' = [num_tx EXCEPT ![s] = to]
    PROVE  \A t \in Slots : num_tx[t] <= num_tx'[t] \/ ReqPkts[cReq[t]] <= num_tx'[t]
<1>1. num_tx \in [Slots -> Nat] /\ num_tx' \in [Slots -> Nat] /\ num_rx' \in [Slots -> Nat]
  BY DEF IInv, TypeOK
<1>2. PICK r \in Req : r = cReq[s]
  BY DEF IInv, TypeOK, Active
<1>3. num_rx'[s] <= num_tx'[s]
  <2>1. Active(s)' /\ cReq'[s] = r
    BY <1>2 DEF Active
  <2> QED BY <2>1 DEF IInv, ClientSlots, ClientSlotOK
<1>4. ReqPkts[cReq[s]] <= num_tx'[s]
  BY <1>1, <1>2, <1>3, PktsType
<1>5. \A t \in Slots : t # s => num_tx'[t] = num_tx[t] /\ num_tx[t] \in Nat
  BY <1>1
<1>6. \A t \in Slots : t # s => num_tx[t] <= num_tx'[t]
  BY <1>5
<1> QED BY <1>4, <1>6

\* pkt_loss_scan_st preserves ClientTxInv: it drains the queue, and resending
\* request packets never lowers num_tx_.
LEMMA pkt_loss_scan_st_ClientTx ==
    ASSUME ~kCcPacing, IInv, IInv', ClientTxInv, NEW s \in Slots, pkt_loss_scan_st(s)
    PROVE  ClientTxInv'
<1>1. UNCHANGED serverVars /\ UNCHANGED <<cReq, cCur, num_rx>> /\ Active(s)
  BY DEF pkt_loss_scan_st, Active
<1>2. PICK r \in Req : r = cReq[s]
  BY <1>1 DEF IInv, TypeOK, Active
<1>3. /\ num_tx \in [Slots -> Nat] /\ num_rx[s] \in Nat /\ credits \in Nat
      /\ ReqPkts[r] \in Nat /\ num_rx[s] <= num_tx[s] /\ num_tx[s] \in Nat
      /\ SlotOf(cCur[s]) = s /\ reqNum[r] = cCur[s]
  BY <1>1, <1>2, PktsType, ActiveSlot DEF IInv, TypeOK
<1>4. PICK crd \in Nat : crd = credits + (num_tx[s] - num_rx[s])
  BY <1>3
<1>5. CASE PostAndDrain(ClientTx, {}, {}) /\ UNCHANGED <<num_tx, credits, wheelVars>>
  <2>1. \A t \in Slots : num_tx[t] <= num_tx'[t]
    BY <1>3, <1>5
  <2> QED BY <1>1, <1>5, <2>1, Drained_ClientTx
<1>6. CASE /\ num_rx[s] < ReqPkts[cReq[s]]
           /\ kick_req_st(s, cReq[s], reqNum[cReq[s]], num_rx[s], crd, TRUE)
  <2>1. kick_req_st(s, r, cCur[s], num_rx[s], crd, TRUE) /\ num_rx[s] <= ReqPkts[r]
    <3>1. kick_req_st(s, r, cCur[s], num_rx[s], crd, TRUE)
      BY <1>2, <1>3, <1>6, Zenon
    <3>2. num_rx[s] < ReqPkts[r]
      BY <1>2, <1>6, Zenon
    <3>3. num_rx[s] <= ReqPkts[r]
      BY <1>3, <3>2
    <3> QED BY <3>1, <3>3
  <2>2. PICK to \in Nat : Posted(s, r, cCur[s], num_rx[s], crd, TRUE, to)
    BY <1>3, <2>1, KickReqUnpaced
  <2>3. /\ to = ReqPkts[r] \/ to = num_rx[s] + crd
        /\ num_tx' = [num_tx EXCEPT ![s] = to]
    BY <2>2 DEF Posted
  <2>4. num_tx'[s] = to /\ \A t \in Slots : t # s => num_tx'[t] = num_tx[t]
    BY <1>3, <2>3
  <2>5. num_tx[s] <= to \/ ReqPkts[r] <= to
    <3>1. CASE to = ReqPkts[r]
      BY <1>3, <3>1
    <3>2. CASE to = num_rx[s] + crd
      BY <1>3, <1>4, <3>2
    <3> QED BY <2>3, <3>1, <3>2
  <2>6. \A t \in Slots : num_tx[t] <= num_tx'[t] \/ ReqPkts[cReq[t]] <= num_tx'[t]
    <3>1. \A t \in Slots : t # s => num_tx[t] <= num_tx'[t]
      BY <1>3, <2>4
    <3> QED BY <1>2, <2>4, <2>5, <3>1
  <2> DEFINE D == {ReqPkt(r, cCur[s], i) : i \in num_rx[s]..(to - 1)}
  <2>7. PostAndDrain(ClientTx, D, {})
    BY <2>2 DEF Posted
  <2>8. ASSUME NEW m \in D PROVE SentOK(m)'
    <3>1. PICK i \in num_rx[s]..(to - 1) : m = ReqPkt(r, cCur[s], i)
      OBVIOUS
    <3>2. m.req_num = cCur[s] /\ m.pkt_num = i
      BY <3>1 DEF ReqPkt
    <3>3. i < to
      BY <1>3
    <3>4. SlotOf(m.req_num)' = s
      BY <1>3, <3>2 DEF SlotOf
    <3> QED BY <2>4, <3>2, <3>3, <3>4 DEF SentOK
  <2> HIDE DEF D
  <2> QED BY <1>1, <2>6, <2>7, <2>8, Drained_ClientTx
<1>7. CASE ~(num_rx[s] < ReqPkts[cReq[s]]) /\ kick_rfr_st(s, respN[s], num_rx[s], crd, TRUE)
  <2>1. PICK C, to : /\ \A m \in C : m.type = "rfr"
                     /\ num_tx' = [num_tx EXCEPT ![s] = to]
                     /\ PostAndDrain(ClientTx, {}, C)
    BY <1>7, KickRfrPosts
  <2>2. ReqPkts[cReq[s]] <= num_rx'[s]
    BY <1>1, <1>2, <1>3, <1>7
  <2>3. \A t \in Slots : num_tx[t] <= num_tx'[t] \/ ReqPkts[cReq[t]] <= num_tx'[t]
    BY <1>1, <2>1, <2>2, Answered_num_tx
  <2>4. \A m \in {} \cup C : SentOK(m)'
    BY <2>1 DEF SentOK
  <2> QED BY <1>1, <2>1, <2>3, <2>4, Drained_ClientTx
<1> QED BY <1>4, <1>5, <1>6, <1>7, Zenon DEF pkt_loss_scan_st

\* A request that is not the last of its slot has left no packet behind it: once
\* the server is at it, has its last packet and the client is done, nothing of
\* the slot is queued.
LEMMA NothingQueued ==
    ASSUME IInv, ClientTxInv, NEW s \in Slots, sCur[s] = cCur[s], Finished(s),
           NEW m \in ClientTx
    PROVE  SlotOf(m.req_num) # s
<1> SUFFICES ASSUME SlotOf(m.req_num) = s PROVE FALSE
  OBVIOUS
<1>1. /\ cReq[s] \in Req /\ Active(s) /\ m.pkt_num \in Nat
      /\ m.pkt_num < ReqPkts[cReq[s]] /\ sNumRx[s] <= m.pkt_num
  BY QueuedReq
<1>2. PICK r \in Req : r = cReq[s]
  BY <1>1
<1>3. Started(r) /\ reqNum[r] = sCur[s]
  BY <1>1, <1>2, ActiveSlot
<1>4. Serving(s, r)
  BY <1>3, ServedBy
<1>5. ~Fresh(s)
  <2>1. sNumRx[s] # 0
    <3>1. ReqPkts[r] \in Nat /\ ReqPkts[r] >= 1
      BY PktsType
    <3> QED BY <1>4, <3>1 DEF Serving, Receiving, Handling, Answering
  <2> QED BY <2>1 DEF Fresh
<1>6. PICK q \in Req : Serving(s, q) /\ Answering(s, q)
  BY <1>5 DEF Finished
<1>7. q = r
  BY <1>3, <1>6 DEF Serving, IInv, Numbering
<1>8. sNumRx[s] >= ReqPkts[r] /\ sNumRx[s] \in Nat /\ ReqPkts[r] \in Nat
  <2>1. sNumRx[s] \in ReqPkts[r]..Wire(r)
    BY <1>6, <1>7, Zenon DEF Answering
  <2>2. ReqPkts[r] \in Nat /\ Wire(r) \in Nat
    BY PktsType
  <2> QED BY <2>1, <2>2
<1> QED BY <1>1, <1>2, <1>8

\* Starting a request in a slot with nothing queued preserves ClientTxInv.
LEMMA Start_ClientTx ==
    ASSUME ~kCcPacing, IInv, IInv', ClientTxInv, UNCHANGED serverVars,
           NEW s \in Slots, NEW r \in Req, NEW crd \in Nat, StartRequest(s, r, crd),
           sCur[s] = cCur[s], \A m \in ClientTx : SlotOf(m.req_num) # s
    PROVE  ClientTxInv'
<1>1. /\ cReq \in [Slots -> Req \cup {NoReq}] /\ cCur \in [Slots -> Nat]
      /\ num_tx \in [Slots -> Nat] /\ ReqPkts[r] \in Nat /\ ReqPkts[r] >= 1
      /\ SlotOf(cCur[s]) = s /\ kSessionReqWindow \in Nat /\ kSessionReqWindow > 0
  <2>1. ReqPkts[r] \in Nat /\ ReqPkts[r] >= 1
    BY PktsType
  <2>2. kSessionReqWindow \in Nat /\ kSessionReqWindow > 0
    BY SessionAssumption
  <2> QED BY <2>1, <2>2 DEF IInv, TypeOK, Numbering
<1>2. PICK num \in Nat : num = cCur[s] + kSessionReqWindow
  BY <1>1
<1>3. num > cCur[s] /\ SlotOf(num) = s
  <2>1. cCur[s] \in Nat
    BY <1>1
  <2>2. SlotOf(num) = s
    BY <1>1, <1>2, <2>1, SlotOfNext, Zenon
  <2> QED BY <1>1, <1>2, <2>1, <2>2
<1>4. cReq' = [cReq EXCEPT ![s] = r] /\ cCur' = [cCur EXCEPT ![s] = num]
  BY <1>2 DEF StartRequest
<1>5. /\ cReq'[s] = r /\ cCur'[s] = num
      /\ \A t \in Slots : t # s => cReq'[t] = cReq[t] /\ cCur'[t] = cCur[t]
  BY <1>1, <1>4
<1>6. sCur' = sCur /\ sNumRx' = sNumRx
  BY DEF serverVars
<1>7. PICK to \in Nat : /\ num_tx' = [num_tx EXCEPT ![s] = to]
                        /\ txq' = txq \cup {ReqPkt(r, num, i) : i \in 0..(to - 1)}
                        /\ net' = net
  <2>1. CASE crd > 0
    <3>1. kick_req_st(s, r, num, 0, crd, FALSE)
      BY <1>2, <2>1, Zenon DEF StartRequest
    <3>2. PICK to \in Nat : Posted(s, r, num, 0, crd, FALSE, to)
      <4>1. 0 \in Nat /\ 0 <= ReqPkts[r]
        BY <1>1
      <4> QED BY <3>1, <4>1, KickReqUnpaced
    <3> QED BY <3>2 DEF Posted, Post
  <2>2. CASE ~(crd > 0)
    <3>1. num_tx' = [num_tx EXCEPT ![s] = 0] /\ txq' = txq /\ net' = net
      BY <2>2, Zenon DEF StartRequest
    <3>2. 0..(0 - 1) = {}
      OBVIOUS
    <3>3. {ReqPkt(r, num, i) : i \in 0..(0 - 1)} = {}
      BY <3>2
    <3>4. txq' = txq \cup {ReqPkt(r, num, i) : i \in 0..(0 - 1)}
      BY <3>1, <3>3
    <3> QED BY <3>1, <3>4
  <2> QED BY <2>1, <2>2
<1> DEFINE D == {ReqPkt(r, num, i) : i \in 0..(to - 1)}
<1>8. num_tx'[s] = to /\ \A t \in Slots : t # s => num_tx'[t] = num_tx[t]
  BY <1>1, <1>7
<1>9. txq' = txq \cup D
  BY <1>7
<1>10. ASSUME NEW m \in D
       PROVE  m.req_num = num /\ m.msg = r /\ m.type = "req" /\ m.pkt_num < to
  <2>1. PICK i \in 0..(to - 1) : m = ReqPkt(r, num, i)
    OBVIOUS
  <2>2. m.req_num = num /\ m.msg = r /\ m.type = "req" /\ m.pkt_num = i
    BY <2>1 DEF ReqPkt
  <2> QED BY <2>2
<1> HIDE DEF D
<1>11. Received'
  <2> SUFFICES ASSUME NEW t \in Slots, Active(t)', sCur[t] = cCur'[t]
               PROVE  sNumRx[t] <= num_tx'[t] \/ ReqPkts[cReq'[t]] <= num_tx'[t]
    BY <1>6 DEF Received
  <2>1. t # s
    BY <1>1, <1>3, <1>5
  <2>2. /\ cReq'[t] = cReq[t] /\ cCur'[t] = cCur[t] /\ num_tx'[t] = num_tx[t]
        /\ Active(t)
    BY <1>5, <1>8, <2>1 DEF Active
  <2> QED BY <2>2 DEF ClientTxInv, Received
<1>12. ASSUME NEW m \in net' \cup txq' PROVE SentOK(m)'
  <2>1. CASE m \in D
    <3>1. SlotOf(m.req_num)' = s
      BY <1>3, <1>10, <2>1 DEF SlotOf
    <3> QED BY <1>8, <1>10, <2>1, <3>1 DEF SentOK
  <2>2. CASE m \in net \cup txq
    <3>1. PICK t : t = SlotOf(m.req_num)
      OBVIOUS
    <3>2. SlotOf(m.req_num)' = t
      BY <3>1 DEF SlotOf
    <3> SUFFICES ASSUME m.type = "req", Active(t)', m.req_num = cCur'[t]
                 PROVE  m.pkt_num < num_tx'[t]
      BY <3>2 DEF SentOK
    <3>3. t \in Slots /\ m.req_num \in Nat /\ m.req_num <= cCur[t]
      BY <2>2, <3>1, ReqKnown
    <3>4. t # s
      BY <1>1, <1>3, <1>5, <3>3
    <3>5. /\ cCur'[t] = cCur[t] /\ num_tx'[t] = num_tx[t] /\ Active(t)
      BY <1>5, <1>8, <3>3, <3>4 DEF Active
    <3> QED BY <2>2, <3>1, <3>5 DEF ClientTxInv, SentOK
  <2> QED BY <1>7, <1>9, <2>1, <2>2
<1>13. ASSUME NEW m \in ClientTx' PROVE ClientTxOK(m)'
  <2>1. CASE m \in D
    <3>1. SlotOf(m.req_num) = s /\ SlotOf(m.req_num)' = s
      BY <1>3, <1>10, <2>1 DEF SlotOf
    <3>2. m \notin net
      <4> SUFFICES ASSUME m \in net PROVE FALSE
        OBVIOUS
      <4>1. m.req_num <= cCur[s]
        BY <1>10, <2>1, <3>1, ReqKnown
      <4> QED BY <1>1, <1>3, <1>10, <2>1, <4>1
    <3>3. sCur'[s] # cCur'[s]
      BY <1>1, <1>3, <1>5, <1>6
    <3> QED BY <1>5, <1>7, <1>10, <2>1, <3>1, <3>2, <3>3 DEF ClientTxOK
  <2>2. CASE m \notin D
    <3>1. m \in ClientTx
      BY <1>9, <2>2 DEF ClientTx
    <3>2. PICK t : t = SlotOf(m.req_num)
      OBVIOUS
    <3>3. SlotOf(m.req_num)' = t
      BY <3>2 DEF SlotOf
    <3>4. t \in Slots /\ t # s
      BY <3>1, <3>2, QueuedReq
    <3>5. ClientTxOK(m)
      BY <3>1 DEF ClientTxInv
    <3> QED BY <1>5, <1>6, <1>7, <3>2, <3>3, <3>4, <3>5 DEF ClientTxOK
  <2> QED BY <2>1, <2>2
<1> QED BY <1>11, <1>12, <1>13 DEF ClientTxInv

\* enqueue_request preserves ClientTxInv.
LEMMA enqueue_request_ClientTx ==
    ASSUME ~kCcPacing, IInv, IInv', ClientTxInv, NEW r \in Req, enqueue_request(r)
    PROVE  ClientTxInv'
<1>1. UNCHANGED serverVars
  BY DEF enqueue_request
<1>2. CASE UNCHANGED <<credits, free, stallq, slotVars, wheelVars, txq, net>>
  <2>1. cReq' = cReq /\ cCur' = cCur /\ num_tx' = num_tx
    BY <1>2 DEF slotVars
  <2>2. \A t \in Slots : num_tx[t] <= num_tx'[t]
    BY <2>1 DEF IInv, TypeOK
  <2> QED BY <1>1, <1>2, <2>1, <2>2, NoReq_ClientTx
<1>3. ASSUME NEW s \in free, StartRequest(s, r, credits) PROVE ClientTxInv'
  <2>1. s \in Slots /\ ~Active(s) /\ credits \in Nat
    BY <1>3, SessionAssumption DEF IInv, SlotBookkeeping, TypeOK
  <2>2. sCur[s] = cCur[s]
    BY <2>1 DEF IInv, Numbering
  <2>3. \A m \in ClientTx : SlotOf(m.req_num) # s
    BY <2>1, QueuedReq
  <2> QED BY <1>1, <1>3, <2>1, <2>2, <2>3, Start_ClientTx
<1> QED BY <1>2, <1>3 DEF enqueue_request

\* process_resp_one_st preserves ClientTxInv: the server had every packet of the
\* request it answered.
LEMMA process_resp_one_st_ClientTx ==
    ASSUME ~kCcPacing, IInv, IInv', ClientTxInv, NEW m \in net, process_resp_one_st(m)
    PROVE  ClientTxInv'
<1>1. PICK s : s = SlotOf(m.req_num)
  OBVIOUS
<1>2. /\ m.type = "resp" /\ in_order_client(s, m) /\ (RespLast(s, m) \/ RespMore(s, m))
      /\ UNCHANGED serverVars
  BY <1>1, Zenon DEF process_resp_one_st
<1>3. PICK r \in Req, i \in Nat : Accepted(s, m, r, i)
  BY <1>1, <1>2, RespPacket
<1>4. s \in Slots
  BY <1>1, <1>2, RespPacket
<1>5. Active(s) /\ r = cReq[s] /\ num_rx[s] = ReqPkts[r] - 1 + i /\ sCur[s] = cCur[s]
  BY <1>3, Zenon DEF Accepted
<1>6. num_rx \in [Slots -> Nat] /\ num_tx \in [Slots -> Nat] /\ ReqPkts[r] \in Nat
  BY PktsType DEF IInv, TypeOK
<1>7. CASE RespMore(s, m)
  <2>1. num_rx' = [num_rx EXCEPT ![s] = @ + 1] /\ UNCHANGED <<cReq, cCur>>
    BY <1>7 DEF RespMore
  <2>2. PICK C, to : /\ \A x \in C : x.type = "rfr"
                     /\ num_tx' = [num_tx EXCEPT ![s] = to]
                     /\ txq' = txq /\ net' = net \cup C
    <3>1. CASE \E n : kick_rfr_st(s, n, num_tx[s], credits + 1, FALSE)
      <4>1. PICK C, to : /\ \A x \in C : x.type = "rfr"
                         /\ num_tx' = [num_tx EXCEPT ![s] = to]
                         /\ Post({}, C)
        BY <3>1, KickRfrPosts
      <4> QED BY <4>1 DEF Post
    <3>2. CASE UNCHANGED <<num_tx, txq, net>>
      <4>1. num_tx' = [num_tx EXCEPT ![s] = num_tx[s]]
        BY <1>4, <1>6, <3>2, ExceptSame, Zenon
      <4>2. \A x \in {} : x.type = "rfr"
        OBVIOUS
      <4>3. txq' = txq /\ net' = net \cup {}
        BY <3>2
      <4> QED BY <4>1, <4>2, <4>3
    <3> QED BY <1>7, <3>1, <3>2, Zenon DEF RespMore
  <2>3. ReqPkts[cReq[s]] <= num_rx'[s]
    BY <1>4, <1>5, <1>6, <2>1
  <2>4. \A t \in Slots : num_tx[t] <= num_tx'[t] \/ ReqPkts[cReq[t]] <= num_tx'[t]
    BY <1>4, <1>5, <2>1, <2>2, <2>3, Answered_num_tx
  <2>5. \A x \in net' : x \in net \/ x.type # "req"
    BY <2>2
  <2> QED BY <1>2, <2>1, <2>2, <2>4, <2>5, NoReq_ClientTx
<1>8. CASE RespLast(s, m)
  <2>1. AtLast(s, r) /\ CompleteRequest(s, Prefix(r, RespPkts[r]))
    BY <1>2, <1>3, <1>4, <1>8, LastPacket DEF LastStep
  <2>2. ASSUME NEW x \in ClientTx PROVE SlotOf(x.req_num) # s
    BY <1>4, <1>5, <2>1, NothingQueued DEF AtLast
  <2>3. CASE backlog # <<>> /\ StartRequest(s, Head(backlog), credits + 1)
    <3>1. Head(backlog) \in Req
      BY <2>3 DEF IInv, TypeOK
    <3>2. credits + 1 \in Nat
      BY <2>1 DEF AtLast
    <3> QED BY <1>2, <1>4, <1>5, <2>2, <2>3, <3>1, <3>2, Start_ClientTx
  <2>4. CASE /\ cReq' = [cReq EXCEPT ![s] = NoReq]
             /\ UNCHANGED <<backlog, stallq, cCur, num_tx, respN, reqNum,
                            wheelVars, txq, net>>
    <3>1. cReq \in [Slots -> Req \cup {NoReq}]
      BY DEF IInv, TypeOK
    <3>2. cReq'[s] = NoReq /\ \A t \in Slots : t # s => cReq'[t] = cReq[t]
      BY <1>4, <2>4, <3>1
    <3>3. sCur' = sCur /\ sNumRx' = sNumRx /\ cCur' = cCur /\ num_tx' = num_tx
          /\ txq' = txq /\ net' = net
      BY <1>2, <2>4 DEF serverVars
    <3>4. Received'
      BY <3>2, <3>3 DEF ClientTxInv, Received, Active
    <3>5. ASSUME NEW x \in net \cup txq PROVE SentOK(x)'
      <4>1. PICK t : t = SlotOf(x.req_num)
        OBVIOUS
      <4>2. SlotOf(x.req_num)' = t
        BY <4>1 DEF SlotOf
      <4> SUFFICES ASSUME x.type = "req", Active(t)', x.req_num = cCur[t]
                   PROVE  x.pkt_num < num_tx[t]
        BY <3>3, <4>2 DEF SentOK
      <4>3. t \in Slots /\ t # s
        BY <3>2, <4>1, ReqKnown DEF Active
      <4>4. Active(t)
        BY <3>2, <4>3 DEF Active
      <4> QED BY <4>1, <4>4 DEF ClientTxInv, SentOK
    <3>6. ASSUME NEW x \in ClientTx' PROVE ClientTxOK(x)'
      <4>1. x \in ClientTx
        BY <3>3 DEF ClientTx
      <4>2. PICK t : t = SlotOf(x.req_num)
        OBVIOUS
      <4>3. SlotOf(x.req_num)' = t
        BY <4>2 DEF SlotOf
      <4>4. t \in Slots /\ t # s
        BY <2>2, <4>1, <4>2, QueuedReq
      <4>5. ClientTxOK(x)
        BY <4>1 DEF ClientTxInv
      <4> QED BY <3>2, <3>3, <4>2, <4>3, <4>4, <4>5 DEF ClientTxOK
    <3> QED BY <3>3, <3>4, <3>5, <3>6 DEF ClientTxInv
  <2> QED BY <2>1, <2>3, <2>4, Zenon DEF CompleteRequest
<1> QED BY <1>2, <1>7, <1>8

\* A step of the server, a NIC or the network that sends no request packet for the
\* first time preserves ClientTxInv if the server still waits for what is queued.
LEMMA ClientTxServerStep ==
    ASSUME ClientTxInv, UNCHANGED clientVars, Received',
           \A m \in net' \cup txq' : m.type = "req" => m \in net \cup txq,
           \A m \in ClientTx' :
              /\ m \in ClientTx /\ m \notin net'
              /\ sCur'[SlotOf(m.req_num)] = cCur[SlotOf(m.req_num)]
                   => sNumRx'[SlotOf(m.req_num)] <= m.pkt_num
    PROVE  ClientTxInv'
<1>1. cReq' = cReq /\ cCur' = cCur /\ num_tx' = num_tx
  BY DEF clientVars, slotVars
<1>2. ASSUME NEW m \in net' \cup txq' PROVE SentOK(m)'
  <2>1. PICK t : t = SlotOf(m.req_num)
    OBVIOUS
  <2>2. SlotOf(m.req_num)' = t
    BY <2>1 DEF SlotOf
  <2> SUFFICES ASSUME m.type = "req", Active(t), m.req_num = cCur[t]
               PROVE  m.pkt_num < num_tx[t]
    BY <1>1, <2>2 DEF SentOK, Active
  <2>3. m \in net \cup txq
    BY <1>2
  <2> QED BY <2>1, <2>3 DEF ClientTxInv, SentOK
<1>3. ASSUME NEW m \in ClientTx' PROVE ClientTxOK(m)'
  <2>1. ClientTxOK(m)
    BY <1>3 DEF ClientTxInv
  <2>2. PICK t : t = SlotOf(m.req_num)
    OBVIOUS
  <2>3. SlotOf(m.req_num)' = t
    BY <2>2 DEF SlotOf
  <2>4. cReq[t] = m.msg /\ cCur[t] = m.req_num
    BY <2>1, <2>2 DEF ClientTxOK
  <2> QED BY <1>1, <1>3, <2>2, <2>3, <2>4 DEF ClientTxOK
<1> QED BY <1>2, <1>3 DEF ClientTxInv

\* In particular if it receives nothing.
LEMMA ServerIdle_ClientTx ==
    ASSUME IInv, ClientTxInv, UNCHANGED clientVars, UNCHANGED <<sCur, sNumRx>>,
           \A m \in txq' : m.type = "req" => m \in txq,
           \A m \in net' : m.type = "req" => m \in net \/ (m \in txq /\ m \notin txq')
    PROVE  ClientTxInv'
<1>1. Received'
  BY DEF ClientTxInv, Received, Active, clientVars, slotVars
<1>2. ASSUME NEW m \in ClientTx'
      PROVE  /\ m \in ClientTx /\ m \notin net'
             /\ sCur'[SlotOf(m.req_num)] = cCur[SlotOf(m.req_num)]
                  => sNumRx'[SlotOf(m.req_num)] <= m.pkt_num
  <2>1. m \in ClientTx /\ m.type = "req" /\ m \in txq'
    BY DEF ClientTx
  <2>2. PICK t : t = SlotOf(m.req_num)
    OBVIOUS
  <2>3. m \notin net /\ (sCur[t] = cCur[t] => sNumRx[t] <= m.pkt_num)
    BY <2>1, <2>2, QueuedReq
  <2> QED BY <2>1, <2>2, <2>3
<1> QED BY <1>1, <1>2, ClientTxServerStep

\* A retransmission of the server does not touch the client's queue.
LEMMA ResendResp_ClientTx ==
    ASSUME IInv, ClientTxInv, NEW s, NEW i, ResendResp(s, i)
    PROVE  ClientTxInv'
<1>1. UNCHANGED clientVars /\ sCur' = sCur /\ sNumRx' = sNumRx
  BY DEF ResendResp, serverVars
<1>2. PICK p : p.type = "resp" /\ PostAndDrain(ServerTx, {p}, {})
  BY DEF ResendResp, RespPkt
<1>3. /\ \A m \in txq' : m.type = "req" => m \in txq
      /\ \A m \in net' : m.type = "req" => m \in net
  BY <1>2 DEF PostAndDrain, ServerTx
<1> QED BY <1>1, <1>3, ServerIdle_ClientTx

\* The server receives request packet x, the one it expects or the first of the
\* next request: x came from the network, so it is not a queued one.
LEMMA ReqReceived_ClientTx ==
    ASSUME IInv, ClientTxInv, UNCHANGED clientVars, txq' = txq,
           \A m \in net' : m \in net \/ m.type = "cr",
           NEW x \in net, x.type = "req", NEW s, s = SlotOf(x.req_num),
           \/ x.req_num = sCur[s] /\ x.pkt_num = sNumRx[s] /\ sCur' = sCur
           \/ x.pkt_num = 0 /\ sCur' = [sCur EXCEPT ![s] = x.req_num],
           sNumRx' = [sNumRx EXCEPT ![s] = x.pkt_num + 1]
    PROVE  ClientTxInv'
<1>1. s \in Slots /\ x.req_num \in Nat /\ x.pkt_num \in Nat
  BY ReqKnown
<1>2. /\ sCur \in [Slots -> Nat] /\ sNumRx \in [Slots -> Nat] /\ num_tx \in [Slots -> Nat]
      /\ cCur \in [Slots -> Nat]
  BY DEF IInv, TypeOK
<1>3. /\ sCur'[s] = x.req_num /\ sNumRx'[s] = x.pkt_num + 1
      /\ \A t \in Slots : t # s => sCur'[t] = sCur[t] /\ sNumRx'[t] = sNumRx[t]
  BY <1>1, <1>2
<1>4. cReq' = cReq /\ cCur' = cCur /\ num_tx' = num_tx
  BY DEF clientVars, slotVars
<1>5. Received'
  <2> SUFFICES ASSUME NEW t \in Slots, Active(t), sCur'[t] = cCur[t]
               PROVE  sNumRx'[t] <= num_tx[t] \/ ReqPkts[cReq[t]] <= num_tx[t]
    BY <1>4 DEF Received, Active
  <2>1. CASE t = s
    <3>1. x.pkt_num < num_tx[s]
      BY <1>3, <2>1 DEF ClientTxInv, SentOK
    <3> QED BY <1>1, <1>2, <1>3, <2>1, <3>1
  <2>2. CASE t # s
    BY <1>3, <2>2 DEF ClientTxInv, Received
  <2> QED BY <2>1, <2>2
<1>6. ASSUME NEW m \in ClientTx'
      PROVE  /\ m \in ClientTx /\ m \notin net'
             /\ sCur'[SlotOf(m.req_num)] = cCur[SlotOf(m.req_num)]
                  => sNumRx'[SlotOf(m.req_num)] <= m.pkt_num
  <2>1. m \in ClientTx
    BY DEF ClientTx
  <2>2. PICK t : t = SlotOf(m.req_num)
    OBVIOUS
  <2>3. /\ t \in Slots /\ m \in txq /\ m.type = "req" /\ m \notin net /\ m.pkt_num \in Nat
        /\ cCur[t] = m.req_num /\ (sCur[t] = cCur[t] => sNumRx[t] <= m.pkt_num)
    BY <2>1, <2>2, QueuedReq
  <2>4. ASSUME sCur'[t] = cCur[t] PROVE sNumRx'[t] <= m.pkt_num
    <3>1. CASE t = s
      <4>1. m.req_num = x.req_num
        BY <1>3, <2>3, <2>4, <3>1
      <4>2. m # x
        BY <2>3
      <4>3. m.pkt_num # x.pkt_num
        BY <2>3, <4>1, <4>2, ReqUnique
      <4>4. x.pkt_num <= m.pkt_num
        <5>1. CASE x.pkt_num = 0
          BY <2>3, <5>1
        <5>2. CASE x.req_num = sCur[s] /\ x.pkt_num = sNumRx[s]
          BY <2>3, <3>1, <4>1, <5>2
        <5> QED BY <5>1, <5>2
      <4>5. x.pkt_num + 1 <= m.pkt_num
        BY <1>1, <2>3, <4>3, <4>4
      <4> QED BY <1>3, <3>1, <4>5
    <3>2. CASE t # s
      BY <1>3, <2>3, <2>4, <3>2
    <3> QED BY <3>1, <3>2
  <2> QED BY <2>1, <2>2, <2>3, <2>4
<1>7. \A m \in net' \cup txq' : m.type = "req" => m \in net \cup txq
  OBVIOUS
<1> QED BY <1>5, <1>6, <1>7, ClientTxServerStep

\* process_small_req_st preserves ClientTxInv.
LEMMA process_small_req_st_ClientTx ==
    ASSUME IInv, ClientTxInv, NEW m \in net, process_small_req_st(m)
    PROVE  ClientTxInv'
<1>1. PICK s : s = SlotOf(m.req_num)
  OBVIOUS
<1>2. CASE ResendResp(s, 0)
  BY <1>2, ResendResp_ClientTx
<1>3. CASE /\ sCur' = [sCur EXCEPT ![s] = m.req_num]
           /\ sNumRx' = [sNumRx EXCEPT ![s] = 1]
           /\ UNCHANGED <<sav, clientVars, txq, net>>
  <2>1. m.type = "req" /\ m.num_pkts = 1
    BY DEF process_small_req_st
  <2>2. m.pkt_num \in Nat /\ m.pkt_num < m.num_pkts
    BY <1>1, <2>1, ReqPacket
  <2>3. m.pkt_num = 0 /\ m.pkt_num + 1 = 1
    BY <2>1, <2>2
  <2> QED BY <1>1, <1>3, <2>1, <2>3, ReqReceived_ClientTx
<1> QED BY <1>1, <1>2, <1>3, Zenon DEF process_small_req_st

\* process_large_req_one_st preserves ClientTxInv.
LEMMA process_large_req_one_st_ClientTx ==
    ASSUME IInv, ClientTxInv, NEW m \in net, process_large_req_one_st(m)
    PROVE  ClientTxInv'
<1>1. PICK s : s = SlotOf(m.req_num)
  OBVIOUS
<1>2. m.type = "req" /\ (LargeReqInOrder(s, m) \/ LargeReqPast(s, m))
  BY <1>1, Zenon DEF process_large_req_one_st
<1>3. s \in Slots /\ m.req_num \in Nat /\ m.pkt_num \in Nat
  BY <1>1, <1>2, ReqPacket
<1>4. sCur \in [Slots -> Nat] /\ sNumRx \in [Slots -> Nat]
  BY DEF IInv, TypeOK
<1>5. CASE LargeReqPast(s, m)
  <2>1. CASE ResendResp(s, 0)
    BY <2>1, ResendResp_ClientTx
  <2>2. CASE /\ Post({}, {CtrlPkt("cr", m.req_num, m.pkt_num)})
             /\ UNCHANGED <<appVars, clientVars, serverVars>>
    <3>1. txq' = txq /\ \A x \in net' : x.type = "req" => x \in net
      BY <2>2 DEF Post, CtrlPkt
    <3>2. sCur' = sCur /\ sNumRx' = sNumRx
      BY <2>2 DEF serverVars
    <3> QED BY <2>2, <3>1, <3>2, ServerIdle_ClientTx
  <2> QED BY <1>5, <2>1, <2>2, Zenon DEF LargeReqPast
<1>6. CASE LargeReqInOrder(s, m)
  <2>1. UNCHANGED clientVars
    BY <1>6 DEF LargeReqInOrder
  <2>2. txq' = txq /\ \A x \in net' : x \in net \/ x.type = "cr"
    <3>1. PICK D : (\A x \in D : x.type = "cr") /\ Post({}, D)
      BY <1>6 DEF LargeReqInOrder, CtrlPkt
    <3> QED BY <3>1 DEF Post
  <2>3. sNumRx' = [sNumRx EXCEPT ![s] = IF m.pkt_num = 0 THEN 1 ELSE sNumRx[s] + 1]
    BY <1>6, Zenon DEF LargeReqInOrder
  <2>4. CASE m.pkt_num = 0
    <3>1. sCur' = [sCur EXCEPT ![s] = m.req_num]
      BY <1>6, <2>4 DEF LargeReqInOrder
    <3>2. m.pkt_num + 1 = 1
      BY <2>4
    <3>3. sNumRx' = [sNumRx EXCEPT ![s] = m.pkt_num + 1]
      BY <2>3, <2>4, <3>2, Zenon
    <3> QED BY <1>1, <1>2, <2>1, <2>2, <2>4, <3>1, <3>3, ReqReceived_ClientTx
  <2>5. CASE m.pkt_num # 0
    <3>1. m.req_num = sCur[s] /\ m.pkt_num = sNumRx[s] /\ sCur' = sCur
      BY <1>6, <2>5, Zenon DEF LargeReqInOrder
    <3>2. sNumRx' = [sNumRx EXCEPT ![s] = m.pkt_num + 1]
      BY <2>3, <2>5, <3>1, Zenon
    <3> QED BY <1>1, <1>2, <2>1, <2>2, <3>1, <3>2, ReqReceived_ClientTx
  <2> QED BY <2>4, <2>5
<1> QED BY <1>2, <1>5, <1>6

\* process_rfr_st preserves ClientTxInv: the server has the whole request.
LEMMA process_rfr_st_ClientTx ==
    ASSUME IInv, ClientTxInv, NEW m \in net, process_rfr_st(m)
    PROVE  ClientTxInv'
<1>1. PICK s : s = SlotOf(m.req_num)
  OBVIOUS
<1>2. m.type = "rfr" /\ m.req_num = sCur[s]
  BY <1>1 DEF process_rfr_st
<1>3. s \in Slots /\ m.req_num \in Nat /\ m.pkt_num \in Nat
  BY <1>1, SlotOfType DEF IInv, TypeOK, Pkt
<1>4. PICK r \in Req : Started(r) /\ reqNum[r] = m.req_num /\ ReqPkts[r] <= m.pkt_num
  BY <1>2 DEF IInv, Packets, PacketOK
<1>5. PICK i : i = resp_ntoi(m.pkt_num, sav[s])
  OBVIOUS
<1>6. CASE ResendResp(s, i)
  BY <1>6, ResendResp_ClientTx
<1>7. CASE /\ m.pkt_num = sNumRx[s]
           /\ sNumRx' = [sNumRx EXCEPT ![s] = @ + 1]
           /\ Post({RespPkt(s, sTx[s], sav[s], i)}, {})
           /\ UNCHANGED <<appVars, clientVars, sTx, sCur, req_type, reqN, reqBuf, sav>>
  <2>1. /\ cReq' = cReq /\ cCur' = cCur /\ num_tx' = num_tx /\ sCur' = sCur
        /\ UNCHANGED clientVars
    BY <1>7 DEF clientVars, slotVars
  <2>2. sNumRx \in [Slots -> Nat] /\ num_tx \in [Slots -> Nat] /\ ReqPkts[r] \in Nat
    BY PktsType DEF IInv, TypeOK
  <2>3. \A t \in Slots : t # s => sNumRx'[t] = sNumRx[t]
    BY <1>3, <1>7, <2>2
  <2>4. ReqPkts[r] <= sNumRx[s]
    BY <1>4, <1>7
  <2>5. ASSUME Active(s), sCur[s] = cCur[s] PROVE cReq[s] = r
    <3>1. cReq[s] \in Req
      BY <1>3, <2>5 DEF IInv, TypeOK, Active
    <3>2. reqNum[cReq[s]] = reqNum[r]
      BY <1>2, <1>3, <1>4, <2>5 DEF IInv, Numbering
    <3> QED BY <1>4, <3>1, <3>2 DEF IInv, Numbering
  <2>6. Received'
    <3> SUFFICES ASSUME NEW t \in Slots, Active(t), sCur[t] = cCur[t]
                 PROVE  sNumRx'[t] <= num_tx[t] \/ ReqPkts[cReq[t]] <= num_tx[t]
      BY <2>1 DEF Received, Active
    <3>1. sNumRx[t] <= num_tx[t] \/ ReqPkts[cReq[t]] <= num_tx[t]
      BY DEF ClientTxInv, Received
    <3>2. CASE t = s
      <4>1. cReq[t] = r
        BY <2>5, <3>2
      <4> QED BY <2>2, <2>4, <3>1, <3>2, <4>1
    <3>3. CASE t # s
      BY <2>3, <3>1, <3>3
    <3> QED BY <3>2, <3>3
  <2>7. /\ \A x \in txq' : x.type = "req" => x \in txq
        /\ net' = net
    BY <1>7 DEF Post, RespPkt
  <2>8. ASSUME NEW x \in ClientTx'
        PROVE  /\ x \in ClientTx /\ x \notin net'
               /\ sCur'[SlotOf(x.req_num)] = cCur[SlotOf(x.req_num)]
                    => sNumRx'[SlotOf(x.req_num)] <= x.pkt_num
    <3>1. x \in ClientTx
      BY <2>7 DEF ClientTx
    <3>2. PICK t : t = SlotOf(x.req_num)
      OBVIOUS
    <3>3. /\ t \in Slots /\ x \notin net /\ Active(t) /\ x.pkt_num \in Nat
          /\ x.pkt_num < ReqPkts[cReq[t]]
          /\ sCur[t] = cCur[t] => sNumRx[t] <= x.pkt_num
      BY <3>1, <3>2, QueuedReq
    <3>4. ASSUME sCur[t] = cCur[t] PROVE sNumRx'[t] <= x.pkt_num
      <4>1. t # s
        <5> SUFFICES ASSUME t = s PROVE FALSE
          OBVIOUS
        <5>1. cReq[s] = r
          BY <2>5, <3>3, <3>4
        <5>2. sNumRx[s] \in Nat
          BY <1>3, <2>2
        <5> QED BY <2>2, <2>4, <3>3, <3>4, <5>1, <5>2
      <4> QED BY <2>3, <3>3, <3>4, <4>1
    <3> QED BY <2>1, <2>7, <3>1, <3>2, <3>3, <3>4
  <2>9. \A x \in net' \cup txq' : x.type = "req" => x \in net \cup txq
    BY <2>7
  <2> QED BY <2>1, <2>6, <2>8, <2>9, ClientTxServerStep
<1> QED BY <1>1, <1>5, <1>6, <1>7, Zenon DEF process_rfr_st

\* enqueue_response preserves ClientTxInv.
LEMMA enqueue_response_ClientTx ==
    ASSUME IInv, ClientTxInv, NEW s \in Slots, enqueue_response(s)
    PROVE  ClientTxInv'
<1>1. UNCHANGED clientVars /\ sCur' = sCur /\ sNumRx' = sNumRx
  BY DEF enqueue_response
<1>2. (\A m \in txq' : m.type = "req" => m \in txq) /\ net' = net
  BY DEF enqueue_response, Post, RespPkt
<1> QED BY <1>1, <1>2, ServerIdle_ClientTx

\* The steps of NICs and network do.
LEMMA Network_ClientTx ==
    ASSUME IInv, ClientTxInv, UNCHANGED <<appVars, clientVars, serverVars>>,
           NEW m, \/ m \in txq /\ txq' = txq \ {m} /\ net' = net \cup {m}
                  \/ txq' = txq /\ net' = net \ {m}
                  \/ txq' = txq /\ net' = net
    PROVE  ClientTxInv'
<1>1. sCur' = sCur /\ sNumRx' = sNumRx
  BY DEF serverVars
<1> QED BY <1>1, ServerIdle_ClientTx

\* Without pacing, every step preserves ClientTxInv; the wheel stays empty.
LEMMA NextClientTx ==
    ASSUME ~kCcPacing PROVE IInv /\ ClientTxInv /\ [Next]_vars => ClientTxInv'
<1> SUFFICES ASSUME IInv, ClientTxInv, [Next]_vars PROVE ClientTxInv'
  OBVIOUS
<1>0. IInv'
  BY NextIInv
<1>1. ASSUME NEW r \in Req, enqueue_request(r) PROVE ClientTxInv'
  BY <1>0, <1>1, enqueue_request_ClientTx
<1>2. CASE process_credit_stall_queue_st
  BY <1>0, <1>2, process_credit_stall_queue_st_ClientTx
<1>3. ASSUME NEW e \in wheel, process_wheel_st(e[1], e[2]) PROVE ClientTxInv'
  BY DEF IInv, WheelPackets
<1>4. ASSUME NEW s \in Slots, enqueue_response(s) PROVE ClientTxInv'
  BY <1>4, enqueue_response_ClientTx
<1>5. ASSUME NEW m \in net, process_comps_st(m) PROVE ClientTxInv'
  BY <1>0, <1>5, process_small_req_st_ClientTx, process_large_req_one_st_ClientTx,
     process_resp_one_st_ClientTx, process_rfr_st_ClientTx, process_expl_cr_st_ClientTx
     DEF process_comps_st
<1>6. ASSUME NEW m \in txq, NicTx(m) PROVE ClientTxInv'
  BY <1>6, Network_ClientTx DEF NicTx
<1>7. ASSUME NEW m \in net, Lose(m) PROVE ClientTxInv'
  BY <1>7, Network_ClientTx DEF Lose
<1>8. ASSUME NEW s \in Slots, pkt_loss_scan_st(s) PROVE ClientTxInv'
  BY <1>0, <1>8, pkt_loss_scan_st_ClientTx
<1>9. CASE UNCHANGED vars
  BY <1>9, Network_ClientTx DEF vars
<1> QED BY <1>1, <1>2, <1>3, <1>4, <1>5, <1>6, <1>7, <1>8, <1>9 DEF Next, Step

\* Without pacing, the client's TX queue never refers to a request MsgBuffer that
\* the continuation gave back: every queued packet is of the active request of
\* its slot, and one the server still waits for.
THEOREM ClientTxReferencesHold ==
    ASSUME ~kCcPacing PROVE Spec => []NoClientTxReference
<1>1. Init => ClientTxInv
  BY DEF Init, ClientTxInv, ClientTx, Received, Active
<1>2. IInv /\ ClientTxInv /\ [Next]_vars => ClientTxInv'
  BY NextClientTx
<1>3. ClientTxInv => NoClientTxReference
  BY DEF ClientTxInv, ClientTxOK, NoClientTxReference
<1> QED BY <1>1, <1>2, <1>3, Invariance, PTL DEF Spec
===============================================================================
