CONSTANTS
    v1 = v1
    v2 = v2
    nil = nil
    Chars <- MCChars
    Keys <- SplitKeys
    Vals <- MCVals
    NoRef <- nil
    FeedFailures = FALSE
SPECIFICATION Spec
CONSTRAINT StoreBound
PROPERTY KVRefinement
SYMMETRY ValSymmetry
