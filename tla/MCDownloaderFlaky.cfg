CONSTANTS
    p1 = p1
    p2 = p2
    Peers <- SmallPeers
    Byzantine = {}
    NumTenures <- SmallNumTenures
    RCLen <- SmallRCLen
    TenureLen <- SmallTenureLen
    Inv <- SmallInv
    InvLate = {}
    InvOrder <- SmallInvOrder
    AggKey <- SmallAggKey
    MaxInflight = 2
    IBD = FALSE
    MaxDowns = 1
    Null = Null
    NoReq = NoReq
    NoResp = NoResp
    NoKey = NoKey
VIEW CompactView
SPECIFICATION Spec
INVARIANT ReplyRoutedToSender
INVARIANT PeerBindingSound
INVARIANT OneDownloaderPerTenure
PROPERTY SmallStoreRefined
