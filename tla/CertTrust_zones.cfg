\* Two zones, each with its own server; one query and one connection at a time.
SPECIFICATION Spec
CONSTANTS
    i1 = i1  i2 = i2  x1 = x1  x2 = x2
    Names <- TwoZones
    Ips = {i1, i2}
    Certs = {x1}
    Subs <- Plain
    Offers <- OwnServer
    MaxOffers = 2
    MaxRotations = 1
    Workers = {d1}
    Conns = {h1}
    Handlers = {"unix", "server", "stack"}
    NoIp = NoIp
    NoCert = NoCert
    NoEntry = NoEntry
    Down = Down
INVARIANTS TypeOK Provenance Isolation TrustDeclared VerdictEarned
