CONSTANTS
    v1 = v1
    v2 = v2
    nil = nil
    none = none
    NoManifest <- none
    Chars <- MCChars
    Keys <- MCKeys
    Vals <- MCVals
    NoRef <- nil
    FeedFailures = FALSE
SPECIFICATION BSpec
SYMMETRY ValSymmetry
CONSTRAINT StoreBound
PROPERTY BatchIsolation
