CONSTANTS
    p1 = p1
    p2 = p2
    Peers <- MCPeers
    Byzantine = {}
    NumTenures <- ShortNumTenures
    RCLen <- ShortRCLen
    TenureLen <- ShortTenureLen
    Inv <- ShortInv
    InvLate = {}
    InvOrder <- MCInvOrder
    AggKey <- MCAggKey
    MaxInflight = 2
    IBD = TRUE
    MaxDowns = 1
    TipLag = {0}
    Null = Null
    NoReq = NoReq
    NoResp = NoResp
    NoKey = NoKey
VIEW CompactViewU
SPECIFICATION SpecU
PROPERTY HighestCompleteProcessed
