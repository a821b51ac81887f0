---------------------------- MODULE RpcDatapathInv ----------------------------
(***************************************************************************)
(* The inductive invariant of RpcDatapath from which its safety properties *)
(* follow.                                                                 *)
(*                                                                         *)
(* The idea: a request number identifies one request for the life of the   *)
(* session (Numbering), so a packet whose number equals the one of a slot  *)
(* belongs to the request in that slot (Packets).  The client's counters   *)
(* (ClientSlots) and the server's phase (ServerSlots) are then statements  *)
(* about one request each, and the two agree because the server never      *)
(* runs ahead of the client and the client moves on only after the last    *)
(* response packet.                                                        *)
(***************************************************************************)
EXTENDS RpcDatapath

Prefix(r, n) == {<<i, r, i>> : i \in 0..(n - 1)}

Started(r) == reqNum[r] # 0

Wire(r) == ReqPkts[r] + RespPkts[r] - 1

\* Request numbers identify requests, and the two ends of a slot are at most
\* one request apart.
Numbering ==
    /\ \A s \in Slots :
         /\ SlotOf(cCur[s]) = s
         /\ SlotOf(sCur[s]) = s
         /\ sCur[s] <= cCur[s]
         /\ cCur[s] <= sCur[s] + kSessionReqWindow
         /\ Active(s) => reqNum[cReq[s]] = cCur[s] /\ Started(cReq[s])
         /\ ~Active(s) => sCur[s] = cCur[s]
    /\ \A r \in Req :
         Started(r) => /\ reqNum[r] >= kSessionReqWindow
                       /\ reqNum[r] <= cCur[SlotOf(reqNum[r])]
                       /\ r \in issued
    /\ \A q, r \in Req : Started(q) /\ reqNum[q] = reqNum[r] => q = r

\* What a packet of each type tells about the request it belongs to.
PacketOK(m) ==
    LET s == SlotOf(m.req_num)
    IN  /\ m.type = "req" =>
              /\ m.msg \in Req /\ Started(m.msg) /\ m.req_num = reqNum[m.msg]
              /\ m.num_pkts = ReqPkts[m.msg]
              /\ m.idx = m.pkt_num /\ m.pkt_num < ReqPkts[m.msg]
        /\ m.type = "resp" =>
              /\ m.msg \in Req /\ Started(m.msg) /\ m.req_num = reqNum[m.msg]
              /\ m.num_pkts = RespPkts[m.msg]
              /\ m.idx < RespPkts[m.msg] /\ m.pkt_num = ReqPkts[m.msg] - 1 + m.idx
              /\ m.msg \in responded
              /\ m.req_num <= sCur[s]
              /\ m.req_num = sCur[s] => m.pkt_num < sNumRx[s]
        /\ m.type = "cr" =>
              /\ m.req_num <= sCur[s]
              /\ \E r \in Req : /\ Started(r) /\ reqNum[r] = m.req_num
                                /\ m.pkt_num + 1 < ReqPkts[r]
        /\ m.type = "rfr" =>
              /\ m.req_num <= sCur[s]
              /\ \E r \in Req : /\ Started(r) /\ reqNum[r] = m.req_num
                                /\ ReqPkts[r] <= m.pkt_num /\ m.pkt_num < Wire(r)
                                /\ r \in responded

Packets == \A m \in net \cup txq : PacketOK(m)

\* The counters of a client slot that is serving request r.
ClientSlotOK(s, r) ==
    /\ num_rx[s] <= num_tx[s]
    /\ num_tx[s] <= Wire(r)
    /\ num_rx[s] < Wire(r)
    /\ num_tx[s] > ReqPkts[r] => num_rx[s] >= ReqPkts[r]
    /\ num_rx[s] >= ReqPkts[r] =>
         /\ respN[s] = RespPkts[r]
         /\ r \in responded
         /\ sCur[s] = cCur[s]
    /\ respBuf[s] = Prefix(r, num_rx[s] + 1 - ReqPkts[r])
    /\ conts[r] = <<>>

ClientSlots ==
    \A s \in Slots :
        /\ Active(s) => ClientSlotOK(s, cReq[s])
        /\ ~Active(s) => num_tx[s] = num_rx[s] /\ num_tx[s] <= 2 * MaxPkts

\* The phases of a server slot that is serving request r.
Receiving(s, r) ==
    /\ sNumRx[s] \in 1..(ReqPkts[r] - 1)
    /\ sTx[s] = NoReq /\ req_type[s] = NoReq
    /\ reqBuf[s] = Prefix(r, sNumRx[s])
    /\ execs[r] = <<>> /\ r \notin responded

Handling(s, r) ==
    /\ sNumRx[s] = ReqPkts[r]
    /\ sTx[s] = NoReq /\ req_type[s] = r
    /\ reqBuf[s] = Prefix(r, ReqPkts[r])
    /\ execs[r] # <<>> /\ r \notin responded

Answering(s, r) ==
    /\ sNumRx[s] \in ReqPkts[r]..Wire(r)
    /\ sTx[s] = r /\ req_type[s] = NoReq
    /\ reqBuf[s] = {} /\ sav[s] = ReqPkts[r]
    /\ execs[r] # <<>> /\ r \in responded

\* No request has reached the server slot yet.
Fresh(s) ==
    /\ sCur[s] = s /\ sNumRx[s] = 0
    /\ sTx[s] = NoReq /\ req_type[s] = NoReq /\ reqBuf[s] = {}

Serving(s, r) ==
    /\ Started(r) /\ reqNum[r] = sCur[s]
    /\ reqN[s] = ReqPkts[r]
    /\ Receiving(s, r) \/ Handling(s, r) \/ Answering(s, r)

ServerSlots ==
    \A s \in Slots :
        /\ Fresh(s) \/ \E r \in Req : Serving(s, r)
        /\ Done(s) => \/ Fresh(s)
                      \/ \E r \in Req : /\ Serving(s, r) /\ Answering(s, r)
                                        /\ sNumRx[s] = Wire(r)

\* What the applications have seen.
Applications ==
    \A r \in Req :
        /\ execs[r] \in {<<>>, <<Prefix(r, ReqPkts[r])>>}
        /\ conts[r] \in {<<>>, <<Prefix(r, RespPkts[r])>>}
        /\ r \in responded => execs[r] # <<>>
        /\ conts[r] # <<>> => r \in responded
        /\ ~Started(r) \/ reqNum[r] > sCur[SlotOf(reqNum[r])] => execs[r] = <<>>

\* The queues of the client.
Backlog ==
    /\ \A i \in 1..Len(backlog) : backlog[i] \in issued /\ ~Started(backlog[i])
    /\ \A i, j \in 1..Len(backlog) : backlog[i] = backlog[j] => i = j

Stalled == \A i \in 1..Len(stallq) : num_tx[stallq[i]] = 0

\* Entries of the wheel are request packets, and there are none without pacing.
WheelPackets ==
    \A e \in wheel : kCcPacing /\ Active(e[1]) /\ e[2] < ReqPkts[cReq[e[1]]]

\* The inductive invariant of the datapath.
IInv ==
    /\ TypeOK
    /\ Numbering
    /\ Packets
    /\ ClientSlots
    /\ ServerSlots
    /\ Applications
    /\ SlotBookkeeping /\ Backlog
    /\ StalledIffIdle /\ Stalled
    /\ CreditConservation
    /\ WheelTracking /\ WheelPackets
-------------------------------------------------------------------------------
(***************************************************************************)
(* Why the TX queues hold no stale references, on top of IInv.  A data     *)
(* packet in a queue has not been transmitted yet: the first transmission  *)
(* posts a packet that is in neither the queue nor the network, and a      *)
(* later one drains the queue.  So the other end is still waiting for it,  *)
(* and neither end can have moved on to another request.                   *)
(***************************************************************************)
\* A queued response packet: the client still waits for it.
ServerTxOK(m) ==
    LET s == SlotOf(m.req_num)
    IN  /\ cReq[s] = m.msg /\ cCur[s] = m.req_num /\ sCur[s] = m.req_num
        /\ m \notin net
        /\ num_rx[s] <= m.pkt_num

\* The client counts no response packet that the server has not sent.
Acknowledged ==
    \A s \in Slots :
        Active(s) /\ num_rx[s] > ReqPkts[cReq[s]] => num_rx[s] <= sNumRx[s]

\* The invariant about the server's TX queue.
ServerTxInv ==
    /\ Acknowledged
    /\ \A m \in ServerTx : ServerTxOK(m)

\* A queued request packet: the server still waits for it.
ClientTxOK(m) ==
    LET s == SlotOf(m.req_num)
    IN  /\ cReq[s] = m.msg /\ cCur[s] = m.req_num
        /\ m \notin net
        /\ sCur[s] = cCur[s] => sNumRx[s] <= m.pkt_num

\* Only packets that num_tx_ counts exist.
SentOK(m) ==
    LET s == SlotOf(m.req_num)
    IN  m.type = "req" /\ Active(s) /\ m.req_num = cCur[s] => m.pkt_num < num_tx[s]

\* The server has received no request packet that num_tx_ does not count.
Received ==
    \A s \in Slots :
        Active(s) /\ sCur[s] = cCur[s] =>
            sNumRx[s] <= num_tx[s] \/ ReqPkts[cReq[s]] <= num_tx[s]

\* The invariant about the client's TX queue; it needs that packets are not
\* paced, since draining the queue does not empty the wheel.
ClientTxInv ==
    /\ Received
    /\ \A m \in net \cup txq : SentOK(m)
    /\ \A m \in ClientTx : ClientTxOK(m)
===============================================================================
