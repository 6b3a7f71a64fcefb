\* Retries over a changing list: one node per set, one signed and one legacy node.
SPECIFICATION FairSpec
CONSTANTS
    n1 = n1  n2 = n2  n3 = n3
    Nodes = {n1, n2}
    Legacy = {n2}
    Keyless = {n2}
    Forged = {}
    NodeLists <- BothLists
    Keys = {k1}
    Calls = {c1}
    SetSize = 1
    MaxSets = 2
    MaxVersion = 2
    NoNode = NoNode
    NoKey = NoKey
INVARIANTS TypeOK
PROPERTIES CallsReturn ImplementsLookup
