CONSTANTS
    c1 = c1
    c2 = c2
    d1 = d1
    d2 = d2
    i1 = i1
    i2 = i2
    x = x
    r1 = r1
    r2 = r2
    r3 = r3
    Clients <- MCClients
    DBs <- MCDBs
    IdField = id
    Fields = {f}
    Faults = FALSE
    Ids = {i1}
    FVals = {x}
    Refs = {r1}
SPECIFICATION Spec
VIEW View
INVARIANT CreatedListed
