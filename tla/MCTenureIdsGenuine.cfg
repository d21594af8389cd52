CONSTANTS
    RCLen = 3
    FirstHeight = 0
    StartTip = 7
    MaxTip = 12
    None = None
SPECIFICATION Spec
INVARIANT TenureIdsGenuine
