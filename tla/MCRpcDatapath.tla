---------------------------- MODULE MCRpcDatapath ----------------------------
EXTENDS RpcDatapathInv
CONSTANTS r1, r2, r3
MCReq2 == {r1, r2}
MCReq3 == {r1, r2, r3}
MCReqPkts == [r \in Req |-> IF r = r1 THEN MaxPkts ELSE 1]
MCRespPkts == [r \in Req |-> IF r = r2 THEN MaxPkts ELSE 1]
=============================================================================
