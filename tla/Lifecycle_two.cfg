\* Two processes of one user, one of which may crash.
SPECIFICATION Spec
CONSTANTS
    root = root  svc = svc  hand = hand
    Procs = {svc, hand}
    User <- SameUser
    NoProc = NoProc
    Redirect = Redirect
    MaxConns = 0
    MaxCrashes = 1
    MaxRules = 4
    CommandsFail = FALSE
    SlowStops = FALSE
    EarlySignals = FALSE
INVARIANTS NoLoop RulesRemovedOnStop
SYMMETRY Interchangeable
