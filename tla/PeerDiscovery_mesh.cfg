\* A seed, and three nodes that list each other: more than the pool holds.
SPECIFICATION FairSpec
CONSTANTS
    a = a  b = b  c = c  d = d  b1 = b1  b2 = b2
    Urls = {a, b1, b2, c, d}
    Norm <- TwoSpellings
    Seeds <- OneSeed
    Peers <- Mesh
    MaxPoolSize = 2
    MaxCrawls = 2
    NoUrl = NoUrl
INVARIANTS TypeOK EachNodeOnce
PROPERTIES RefreshShrinks StopEnds PoolHeals
