SPECIFICATION TimelySpec
CONSTANTS
    r1 = r1
    r2 = r2
    r3 = r3
    NoReq = NoReq
    Req <- MCReq2
    ReqPkts <- MCReqPkts
    RespPkts <- MCRespPkts
    MaxPkts = 2
    kSessionReqWindow = 2
    kSessionCredits = 1
    kCcPacing = TRUE
INVARIANTS
    StalledIffIdle
PROPERTIES
    AllComplete
\* The workload is finite: once every request is complete nothing is left to do.
CHECK_DEADLOCK FALSE
