\* One process, and everything may go wrong.
SPECIFICATION FairSpec
CONSTANTS
    root = root  svc = svc  hand = hand
    Procs = {svc}
    User <- SameUser
    NoProc = NoProc
    Redirect = Redirect
    MaxConns = 2
    MaxCrashes = 1
    MaxRules = 5
    CommandsFail = TRUE
    SlowStops = TRUE
    EarlySignals = TRUE
PROPERTIES ShutdownEnds Recovers
