\* One set of three nodes, one of them legacy, and an owner who changes:
\* timeouts and half-written slots in any order.
SPECIFICATION Spec
CONSTANTS
    n1 = n1  n2 = n2  n3 = n3
    Nodes = {n1, n2, n3}
    Legacy = {n3}
    Keyless = {}
    Forged = {}
    NodeLists <- OneList
    Keys = {k1, k2}
    Calls = {c1}
    SetSize = 3
    MaxSets = 1
    MaxVersion = 2
    NoNode = NoNode
    NoKey = NoKey
INVARIANTS FreshestInTime KeysAgree
PROPERTIES RefusalHasReason
ACTION_CONSTRAINT NetworkQuiet
SYMMETRY SymmetricKeys
