------------------------------ MODULE MCBatch ------------------------------
(* Instantiates Batch for TLC: keys a, ab, aba, two blob references.      *)
EXTENDS Batch, FiniteSets, TLC

CONSTANTS v1, v2, nil, none

MCChars == {1, 2}
\* Keys a, ab, aba (a = 1, b = 2): leaf splits and a branch split, in the
\* index and in the staged root.
MCKeys == {<<1>>, <<1, 2>>, <<1, 2, 1>>}
MCVals == {v1, v2}

ValSymmetry == Permutations(MCVals)

\* Bounds the entries of each feed and of the staged root, and the feeds:
\* four feeds hold a root, a branch, its re-stored copy and an orphan.
MaxEntries == 3
MaxStaged == 2
MaxFeeds == 4
StoreBound ==
    /\ \A p \in DOMAIN store : Len(store[p]) <= MaxEntries
    /\ Cardinality(DOMAIN store) <= MaxFeeds
    /\ memDb = NoManifest \/ Len(memDb) <= MaxStaged
=============================================================================
