CONSTANTS
    v1 = v1
    v2 = v2
    nil = nil
    Chars <- MCChars
    Keys <- FailKeys
    Vals <- MCVals
    NoRef <- nil
    FeedFailures = TRUE
SPECIFICATION Spec
SYMMETRY ValSymmetry
CONSTRAINT StoreBound
INVARIANTS TypeOK EntriesOrdered ReadYourPut
PROPERTIES FailedPutKeepsContents DeleteKeepsOtherKeys
