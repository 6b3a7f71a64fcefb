\* A zone and a name below it, which may have an address of its own.
SPECIFICATION FairSpec
CONSTANTS
    i1 = i1  i2 = i2  x1 = x1  x2 = x2
    Names <- WithSub
    Ips = {i1, i2}
    Certs = {x1}
    Subs <- Tables
    Offers <- AnyTable
    MaxOffers = 2
    MaxRotations = 0
    Workers = {d1}
    Conns = {h1}
    Handlers = {"windows", "server"}
    NoIp = NoIp
    NoCert = NoCert
    NoEntry = NoEntry
    Down = Down
INVARIANTS SubdomainRouting SameServerChecked
PROPERTIES FailedZoneNotTrusted QueriesEnd
