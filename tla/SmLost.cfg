SPECIFICATION FairSpec
CONSTANTS
    rpcA = rpcA
    rpcB = rpcB
    rpcC = rpcC
    Null = Null
    kInvalidSessionNum = kInvalidSessionNum
    Rpcs <- MCRpcs2
    transport_type <- MCTransport
    kNumRxRingEntries = 5
    kSessionCredits = 2
    retry_connect_on_invalid_rpc_id = TRUE
    MayFail = {}
    Deleted = {}
    MaxSessions = 1
    MaxRpcs = 1
PROPERTIES
    DestroyCompletes
\* The workload is finite: in the end there is nothing left to send.
CHECK_DEADLOCK FALSE
