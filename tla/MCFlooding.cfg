SPECIFICATION FairSpec
CONSTANTS
    n1 = n1
    n2 = n2
    n3 = n3
    n4 = n4
    m = m
    q = q
    t = t
    Nodes = {n1, n2, n3, n4}
    Neighbors <- RingAndOne
    DhtPeers <- DhtOfOne
    Messages = {m}
    Requests = {q}
    Traces = {t}
    Origin <- MCOrigin
    MaxHops <- ThreeForMessages
    MAX_SENDS = 2
    MAX_GCS = 1
    MAX_LOSSES = 1
INVARIANTS TypeOK FloodedOnce
PROPERTIES EveryoneReached FloodEnds
CHECK_DEADLOCK FALSE
