CONSTANTS
    Sep = Sep
    p1 = p1
    p2 = p2
    s1 = s1
    o1 = o1
    d1 = d1
    d2 = d2
    PodNames = {p1, p2}
    SharedNames = {s1}
    OtherNames = {o1}
    DirNames = {d1, d2}
    PodFaults = TRUE
    MaxPathLen = 4
    UserFaults = TRUE
    MaxRootCalls = 2
SPECIFICATION Spec
INVARIANT DirMapKeyIsInodePath
