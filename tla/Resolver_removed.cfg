\* A removal seen in the first set.
SPECIFICATION Spec
CONSTANTS
    n1 = n1  n2 = n2  n3 = n3
    Nodes = {n1, n2}
    Legacy = {}
    Keyless = {}
    Forged = {}
    NodeLists <- OneList
    Keys = {k1}
    Calls = {c1}
    SetSize = 1
    MaxSets = 2
    MaxVersion = 2
    NoNode = NoNode
    NoKey = NoKey
INVARIANTS RemovedDomainsDontResolve
