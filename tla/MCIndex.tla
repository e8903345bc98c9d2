------------------------------ MODULE MCIndex ------------------------------
(* Instantiates Index for TLC: two characters, keys of up to three        *)
(* characters, two blob references.                                        *)
EXTENDS Index, FiniteSets, TLC

CONSTANTS v1, v2, nil

MCChars == {1, 2}
MCVals == {v1, v2}

\* Keys a, aa, aba, abb, abab (a = 1, b = 2): enough for a branch named ab
\* with a branch below it, and for a key that splits it.
SplitKeys == {<<1>>, <<1, 1>>, <<1, 2, 1>>, <<1, 2, 2>>, <<1, 2, 1, 2>>}

\* Keys a, ab, aba: every case of addOrUpdateEntry (exact leaf, leaf split
\* of ab by aba or a, descent into branch ab, branch split of ab by a) and
\* the collapse of a branch on Delete, each write of which may fail.
FailKeys == {<<1>>, <<1, 2>>, <<1, 2, 1>>}

\* No property names a particular reference.
ValSymmetry == Permutations(MCVals)

\* Bounds the duplicate empty-name entries repeated updates can pile up,
\* and the feeds (live manifests and the orphans splits leave behind).
MaxEntries == 3
MaxFeeds == 3
StoreBound ==
    /\ \A p \in DOMAIN store : Len(store[p]) <= MaxEntries
    /\ Cardinality(DOMAIN store) <= MaxFeeds
=============================================================================
