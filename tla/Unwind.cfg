SPECIFICATION Spec
CONSTANTS
    Limit = 12
    Basic = 4
    MinInUse = 2
    Slack = 1
    Spare = 1
    Extra = 3
    FpSlots = 4
    Reserve = 3
    MaxDelta = 2
    FrameSize = 3
    MaxArgs = 2
    MaxFrames = 3
INVARIANTS ListExact ScopesClosed Kept StackFits
PROPERTY CallsBalance
