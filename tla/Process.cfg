SPECIFICATION Spec
CONSTANTS
    Uris = {"a", "b"}
    failure_timeout = 1
    hb_send_delta = 1
    hb_check_delta = 1
    MaxAdds = 2
    Sessions = {1}
    kSessionCredits = 2
    kMTU = 2
    kMinRate = 1
    kLinkBandwidth = 2
    kWheelSlotWidth = 1
    FreqNum = 2
    FreqDen = 1
    kWheelBucketCap = 2
    kPoolStart = 1
    kMaxLag = 2
    k_min_class_bit_shift = 2
    k_num_classes = 3
    kAlign = 2
    kPktHdr = 2
    kMaxDataPerPkt = 4
    kInitialSize = 0
    kRawSizes = {40}
    kDataSizes = {2, 9, 10}
    kBsrlOfZero = {0, 3}
    kMaxShm = 136
    kMaxMsgBufs = 3
    coro_num = 3
    QPs = {"q1"}
    kMaxPending = 2
    kMaxPollOps = 1
    kMaxErrors = 1
    kMaxCrossed = 1
    thread_num = 2
    PER_THREAD_ALLOC_SIZE = 6
    kMaxAlloc = 3
    num_bg_threads = 2
    num_fg_threads = 2
    Handlers = {"h"}
    SameRpcId = FALSE
    MaxWork = 2
INVARIANTS
    
    WheelPaces
    BuffersTile
    MsgBufferFits
    RingWellFormed
    PendingAgree
    ReuseDistance
    ThreadIds
    HooksValid
    WorkConserved
PROPERTIES
    CoroResumes
    NexusStops
\* A flushed work request makes PollCompletion abort the process.
CHECK_DEADLOCK FALSE
