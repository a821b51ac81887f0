SPECIFICATION Spec
CONSTANTS
    rpcA = rpcA
    rpcB = rpcB
    rpcC = rpcC
    Null = Null
    kInvalidSessionNum = kInvalidSessionNum
    Rpcs <- MCRpcs2
    transport_type <- MCTransport
    kNumRxRingEntries = 3
    kSessionCredits = 2
    retry_connect_on_invalid_rpc_id = TRUE
    MayFail = {"server_resolve", "server_memory", "client_resolve"}
    Deleted = {}
    MaxSessions = 2
    MaxRpcs = 1
INVARIANTS
    PendingLive
    PeersAgree
    SmAsserts
    TokenUnneeded
    Owned
    RingsConserved
\* The workload is finite: in the end there is nothing left to send.
CHECK_DEADLOCK FALSE
