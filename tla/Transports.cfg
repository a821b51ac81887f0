SPECIFICATION Spec
CONSTANTS
    kUnsigBatch = 3
    kPostlist = 2
    kSQDepth = 6
    MaxNbTx = 8
    kRQDepth = 6
    kRecvSlack = 3
    kRxPostlist = 2
    kNumRxRingEntries = 12
    kStridesPerWQE = 4
    kRecvCQDepth = 2
    WqeIds = 6
    Pids = {1, 2}
    Tids = {1, 2}
    kMaxQueuesPerPort = 2
    kNumMbufs = 7
    kNumRxDesc = 2
    kNumTxRingDesc = 1
    kTxBatchSize = 2
    kRxBatchSize = 2
    kRxRing = 3
INVARIANTS
    OneSignaled
    TxReferences
    RecvsAccounted
    RawStrides
    QpOwnership
    MbufsConserved
PROPERTIES
    TxReturns
    QpReclaimed
