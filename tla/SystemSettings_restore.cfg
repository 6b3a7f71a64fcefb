SPECIFICATION Spec
CONSTANTS
    procA = procA
    procB = procB
    Procs = {procA, procB}
    NoProc = NoProc
    MaxCrashes = 1
    Failing = TRUE
    wifi = wifi
    lan = lan
    s1 = s1
    s2 = s2
    offered = offered
    Adapters = {wifi, lan}
    Dhcp = {wifi}
    AlwaysReset = {wifi}
    Choices <- MCChoices
    Offered <- MCOffered
    Daemon = Daemon
    Unset = Unset
    Missing = Missing
    Cut = Cut
    NoRecord = NoRecord
    MaxChanges = 2
    CanFail = TRUE
SYMMETRY MCSymmetry
INVARIANTS
    TypeOK
    OwnSettingsKept
    Undone
