SPECIFICATION PacketsSpec
CONSTANTS
    site = site
    mail = mail
    web = web
    Packets = {site, mail, web}
    Kind <- KindOf
    Lookup = lookup
    Letters = {"n", "a", "b"}
    Digits = {"1"}
    Initial = "n"
    Words <- ShortWords
    MinLen = 4
    MaxForgets = 2
    MaxConns = 2
    MaxRing = 2
INVARIANTS
    PacketsTypeOK
    StoppedIsQuiet
    TunClosedIsQuiet
PROPERTIES
    ImplementsTap
    PacketsGoOn
    StopFreesDNS
    TunStopEnds
CHECK_DEADLOCK FALSE
