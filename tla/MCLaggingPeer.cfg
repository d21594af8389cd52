CONSTANTS
    p1 = p1
    p2 = p2
    Peers <- MCPeers
    Byzantine = {}
    NumTenures <- MCNumTenures
    RCLen <- MCRCLen
    TenureLen <- MCTenureLen
    Inv <- MCInv
    InvLate = {}
    InvOrder <- MCInvOrder
    AggKey <- MCAggKey
    MaxInflight = 2
    IBD = TRUE
    MaxDowns = 0
    TipLag = {0, 1}
    Null = Null
    NoReq = NoReq
    NoResp = NoResp
    NoKey = NoKey
VIEW CompactViewU
SPECIFICATION SpecU
INVARIANT HonestPeersNotDead
