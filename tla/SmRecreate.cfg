SPECIFICATION Spec
CONSTANTS
    rpcA = rpcA
    rpcB = rpcB
    rpcC = rpcC
    Null = Null
    kInvalidSessionNum = kInvalidSessionNum
    Rpcs <- MCRpcs2
    transport_type <- MCTransport
    kNumRxRingEntries = 5
    kSessionCredits = 2
    retry_connect_on_invalid_rpc_id = TRUE
    MayFail = {}
    Deleted = {rpcA, rpcB}
    MaxSessions = 2
    MaxRpcs = 2
INVARIANTS
    TokenUnneeded
\* The workload is finite: in the end there is nothing left to send.
CHECK_DEADLOCK FALSE
