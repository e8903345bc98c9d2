CONSTANTS
    v1 = v1
    v2 = v2
    nil = nil
    Chars <- MCChars
    Vals <- MCVals
    NoRef = nil
    Keys <- MCKeys
    FeedFailures = FALSE
    Starts <- MCStarts
    Ends <- MCEnds
    Limits <- MCLimits
SYMMETRY ValSymmetry
CONSTRAINT StoreBound
SPECIFICATION ItrSpec
INVARIANT SeekFromStart
