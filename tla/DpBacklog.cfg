SPECIFICATION Spec
CONSTANTS
    r1 = r1
    r2 = r2
    r3 = r3
    NoReq = NoReq
    Req <- MCReq3
    ReqPkts <- MCReqPkts
    RespPkts <- MCRespPkts
    MaxPkts = 2
    kSessionReqWindow = 2
    kSessionCredits = 2
    kCcPacing = FALSE
INVARIANTS
    SlotBookkeeping
    ReqNumAsserts
    AcceptOnlyActive
    ServerQuiesced
    NoClientTxReference
    NoServerTxReference
\* The workload is finite: once every request is complete nothing is left to do.
CHECK_DEADLOCK FALSE
