CONSTANTS
    r = r
    m1 = m1
    m2 = m2
    m3 = m3
    none = none
    Nodes <- MCNodes
    Root = r
    Entries <- MCEntries
    NoNode = none
SPECIFICATION Spec
INVARIANT AttachedToOwnEntry
CHECK_DEADLOCK FALSE
