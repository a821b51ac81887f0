SPECIFICATION WheelSpec
CONSTANTS
    Sessions = {1}
    kSessionCredits = 2
    kMTU = 2
    kMinRate = 1
    kLinkBandwidth = 2
    kWheelSlotWidth = 1
    FreqNum = 5
    FreqDen = 2
    kWheelBucketCap = 2
    kPoolStart = 1
    kMaxLag = 2
INVARIANTS
    WheelAsserts
