SPECIFICATION FairSpec
CONSTANTS
    rpcA = rpcA
    rpcB = rpcB
    rpcC = rpcC
    Null = Null
    kInvalidSessionNum = kInvalidSessionNum
    Rpcs <- MCRpcs3
    transport_type <- MCTransport
    kNumRxRingEntries = 3
    kSessionCredits = 2
    retry_connect_on_invalid_rpc_id = TRUE
    MayFail = {"server_resolve", "server_memory"}
    Deleted = {rpcB}
    MaxSessions = 1
    MaxRpcs = 2
INVARIANTS
    CreateCalledBack
PROPERTIES
    CreateCompletes
\* The workload is finite: in the end there is nothing left to send.
CHECK_DEADLOCK FALSE
