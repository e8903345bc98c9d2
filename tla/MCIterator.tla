----------------------------- MODULE MCIterator -----------------------------
(* Instantiates Iterator: keys over two characters, iterators with and    *)
(* without start, end and limit.                                           *)
EXTENDS Iterator, FiniteSets, TLC

CONSTANTS v1, v2, nil

MCChars == {1, 2}
MCVals == {v1, v2}
ValSymmetry == Permutations(MCVals)

\* Keys a, b, ab, aba (a = 1, b = 2): leaf and branch splits, a branch
\* below the root, two first characters.
MCKeys == {<<1>>, <<2>>, <<1, 2>>, <<1, 2, 1>>}
MCStarts == {<<>>, <<1, 2>>, <<1, 1>>}
MCEnds == {<<>>, <<1, 1>>}
MCLimits == {0, 1}

MaxFeeds == 3
StoreBound == Cardinality(DOMAIN store) <= MaxFeeds /\ \A p \in DOMAIN store : Len(store[p]) <= 3
=============================================================================
