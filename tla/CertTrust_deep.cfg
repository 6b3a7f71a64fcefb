\* A failure the proxy recorded on the zone, a verified entry of the name below it.
SPECIFICATION HistorySpec
CONSTANTS
    i1 = i1  i2 = i2  x1 = x1  x2 = x2
    Names <- WithSub
    Ips = {i1}
    Certs = {x1, x2}
    Subs <- Plain
    Offers <- AnyCert
    MaxOffers = 1
    MaxRotations = 1
    Workers = {d1}
    Conns = {h1}
    Handlers = {"unix"}
    NoIp = NoIp
    NoCert = NoCert
    NoEntry = NoEntry
    Down = Down
PROPERTIES FailureReachesNames
