CONSTANTS
    p1 = p1
    p2 = p2
    Peers <- SmallPeers
    Byzantine = {p2}
    NumTenures <- SmallNumTenures
    RCLen <- SmallRCLen
    TenureLen <- SmallTenureLen
    Inv <- SmallInv
    InvLate = {}
    InvOrder <- SmallInvOrder
    AggKey <- SmallAggKey
    MaxInflight = 2
    IBD = TRUE
    MaxDowns = 0
    Null = Null
    NoReq = NoReq
    NoResp = NoResp
    NoKey = NoKey
VIEW CompactView
SPECIFICATION Spec
PROPERTY StoreSafety
