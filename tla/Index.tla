------------------------------- MODULE Index -------------------------------
(***************************************************************************)
(* The persisted manifest trie of one Index (src/pkg/collection/index.go): *)
(* Put, Get and Delete on an opened index, every manifest read from and    *)
(* written to the feed service.                                            *)
(*                                                                         *)
(* store models the owner's feeds: the manifest stored under the topic     *)
(* HashString(path).  A path is the sequence of entry names walked from    *)
(* the root; the root manifest (path <<>>) is the feed of idx.name.  The   *)
(* hash is collision free on these paths (names hold no separator), so a   *)
(* topic is its path.  CreateFeed fails on a topic that already has a      *)
(* feed, UpdateFeed writes the topic whether or not it has one.            *)
(*                                                                         *)
(* Index operations run one at a time (the caller serialises them), so     *)
(* each one is a single action.  Its feed writes are computed as a list    *)
(* and applied in the code's order; with FeedFailures any write may fail,  *)
(* which ends the operation with the writes before it already done.        *)
(***************************************************************************)
EXTENDS Naturals, Sequences, SequencesExt, TLC

CONSTANTS
    Chars, Vals, NoRef,
    Keys,           \* the keys callers pass to Put, Get and Delete
    FeedFailures    \* TRUE when a feed write may fail (PersistFailed)

VARIABLES
    store,          \* path -> entries of the manifest stored in that feed
    last            \* the last operation and what it returned

vars == <<store, last>>

INSTANCE Manifest

Ok == "ok"
ErrEntryNotFound == "ErrEntryNotFound"
ErrNoManifestFound == "ErrNoManifestFound"
ErrFeedExists == "ErrFeedExists"      \* CreateFeed on a topic in use
ErrPersist == "ErrPersist"            \* a feed write that failed
Errors == {Ok, ErrEntryNotFound, ErrNoManifestFound, ErrFeedExists, ErrPersist}

Ops == {"none", "put", "get", "delete"}

-----------------------------------------------------------------------------
(* Feed writes.                                                            *)

\* fd.CreateFeed(HashString(path), ...) and idx.updateManifest / UpdateFeed.
Create(path, entries) == [kind |-> "create", path |-> path, entries |-> entries]
Update(path, entries) == [kind |-> "update", path |-> path, entries |-> entries]

(***************************************************************************)
(* Apply the writes ws in order to the feeds st; the first n of them       *)
(* reach the feed service, a further one fails.  A create on a topic that  *)
(* has a feed fails too.  Either failure ends the sequence.                *)
(***************************************************************************)
RECURSIVE ApplyWrites(_, _, _)
ApplyWrites(st, ws, n) ==
    IF ws = <<>> THEN [store |-> st, err |-> Ok]
    ELSE IF n = 0 THEN [store |-> st, err |-> ErrPersist]
    ELSE IF Head(ws).kind = "create" /\ Head(ws).path \in DOMAIN st
         THEN [store |-> st, err |-> ErrFeedExists]
    ELSE ApplyWrites((Head(ws).path :> Head(ws).entries) @@ st, Tail(ws), n - 1)

\* How many writes of ws may succeed before one fails.
FailPoints(ws) == IF FeedFailures THEN 0..Len(ws) ELSE {Len(ws)}

\* The outcome of an operation: an error before any write, or writes and
\* the reference the operation returns once they are done.
Plan(ws) == [err |-> Ok, writes |-> ws, ref |-> NoRef]
Abort(err) == [err |-> err, writes |-> <<>>, ref |-> NoRef]

-----------------------------------------------------------------------------
(* addOrUpdateEntry with memory = false.                                   *)

\* The four cases of the entry scan, in the order the loop tests them.
ExactLeaf(e, key) == e.etype = LeafEntry /\ e.name = key
\* Mutant: the common-prefix guard dropped, any other leaf is split.
SharedLeafAnyLeaf(e, key) == e.etype = LeafEntry /\ e.name # key
SharedLeaf(e, key) ==
    e.etype = LeafEntry /\ e.name # key /\ longestCommonPrefix(key, e.name) # <<>>
KeyExtendsBranch(e, key) == e.etype = IntermediateEntry /\ IsPrefix(e.name, key)
BranchExtendsKey(e, key) ==
    e.etype = IntermediateEntry /\ ~IsPrefix(e.name, key) /\ IsPrefix(key, e.name)

Matches(e, key) ==
    ExactLeaf(e, key) \/ SharedLeaf(e, key)
    \/ KeyExtendsBranch(e, key) \/ BranchExtendsKey(e, key)

\* A new key: a leaf in sorted position (the !manifest.dirtyFlag branch).
NewLeafWrites(path, entries, key, value) ==
    <<Update(path, addEntryToManifestSortedLexicographically(entries, Leaf(key, value)))>>

\* Case 1: the leaf holding key gets the new reference.
UpdateLeafWrites(path, entries, i, value) ==
    <<Update(path, [entries EXCEPT ![i].ref = value])>>

(***************************************************************************)
(* Case 2: the leaf at i shares prefix with key.  A branch at path/prefix  *)
(* gets the two suffixes as leaves and is created as a new feed; the leaf  *)
(* becomes an Intermediate named prefix (keeping its Ref); the manifest is *)
(* updated.                                                                *)
(***************************************************************************)
\* Mutant: the parent is updated before the branch feed is created.
SplitLeafParentFirst(path, entries, i, key, value) ==
    LET e == entries[i]
        prefix == longestCommonPrefix(key, e.name)
        branch == addEntryToManifestSortedLexicographically(
                    addEntryToManifestSortedLexicographically(<<>>,
                        Leaf(TrimPrefix(key, prefix), value)),
                    Leaf(TrimPrefix(e.name, prefix), e.ref))
    IN <<Update(path, [entries EXCEPT ![i].name = prefix,
                                      ![i].etype = IntermediateEntry]),
         Create(path \o <<prefix>>, branch)>>

SplitLeafWrites(path, entries, i, key, value) ==
    LET e == entries[i]
        prefix == longestCommonPrefix(key, e.name)
        branch == addEntryToManifestSortedLexicographically(
                    addEntryToManifestSortedLexicographically(<<>>,
                        Leaf(TrimPrefix(key, prefix), value)),
                    Leaf(TrimPrefix(e.name, prefix), e.ref))
    IN <<Create(path \o <<prefix>>, branch),
         Update(path, [entries EXCEPT ![i].name = prefix,
                                      ![i].etype = IntermediateEntry])>>

(***************************************************************************)
(* Case 4: key is a proper prefix of the Intermediate at i.  Its child is  *)
(* renamed to path/key/newKey and stored there (its own entries, and so    *)
(* the paths of its children, unchanged); a branch at path/key with an     *)
(* empty-name leaf for value and an Intermediate newKey is created; the    *)
(* entry is renamed key; the manifest is updated.                          *)
(***************************************************************************)
SplitBranchWrites(path, entries, i, key, value) ==
    LET e == entries[i]
        newKey == TrimPrefix(e.name, key)
        branch == addEntryToManifestSortedLexicographically(
                    addEntryToManifestSortedLexicographically(<<>>,
                        Leaf(<<>>, value)),
                    Intermediate(newKey))
    IN <<Update(path \o <<key, newKey>>, store[path \o <<e.name>>]),
         Create(path \o <<key>>, branch),
         Update(path, [entries EXCEPT ![i].name = key])>>

(***************************************************************************)
(* addOrUpdateEntry (memory = false): the writes a Put of key/value makes  *)
(* from the manifest at path holding entries.  The loop stops at the first *)
(* entry of one of the four cases; an empty key stops it at once.  Case 3  *)
(* loads the child and recurses without writing this manifest; the loads   *)
(* of cases 3 and 4 fail when the child has no feed.                       *)
(***************************************************************************)
RECURSIVE addOrUpdateEntry(_, _, _, _)
addOrUpdateEntry(path, entries, key, value) ==
    LET hits == {i \in DOMAIN entries : Matches(entries[i], key)}
        i == Min(hits)
        e == entries[i]
        child == path \o <<e.name>>
    IN
    IF key = <<>> \/ hits = {} THEN Plan(NewLeafWrites(path, entries, key, value))
    ELSE IF ExactLeaf(e, key) THEN Plan(UpdateLeafWrites(path, entries, i, value))
    ELSE IF SharedLeaf(e, key) THEN Plan(SplitLeafWrites(path, entries, i, key, value))
    ELSE IF child \notin DOMAIN store THEN Abort(ErrNoManifestFound)
    ELSE IF KeyExtendsBranch(e, key)
         THEN addOrUpdateEntry(child, store[child], TrimPrefix(key, e.name), value)
    ELSE Plan(SplitBranchWrites(path, entries, i, key, value))

-----------------------------------------------------------------------------
(* findManifest with memory = false, and seekManifestAndEntry.             *)

NotFound == [err |-> ErrEntryNotFound, path |-> <<>>, idx |-> 0]

(***************************************************************************)
(* Scan entries from position i for key.  A named entry whose first        *)
(* character is above the key's (or any named entry when the key is        *)
(* empty) ends the search; an Intermediate entry that prefixes the key is  *)
(* followed into its child and the search never comes back.               *)
(***************************************************************************)
\* The early exit of the scan: a named entry past the key's first character.
\* Mutant: >= instead of >, a key is never found past an entry it shares
\* its first character with.
PastKeyOrEqual(e, key) == e.name # <<>> /\ (key = <<>> \/ e.name[1] >= key[1])

PastKey(e, key) == e.name # <<>> /\ (key = <<>> \/ e.name[1] > key[1])

RECURSIVE findManifest(_, _, _, _)
findManifest(path, entries, key, i) ==
    IF i > Len(entries) THEN NotFound
    ELSE LET e == entries[i]
             child == path \o <<e.name>>
         IN IF PastKey(e, key) THEN NotFound
            ELSE IF ExactLeaf(e, key) THEN [err |-> Ok, path |-> path, idx |-> i]
            ELSE IF KeyExtendsBranch(e, key) THEN
                IF child \notin DOMAIN store
                THEN [NotFound EXCEPT !.err = ErrNoManifestFound]
                ELSE findManifest(child, store[child], TrimPrefix(key, e.name), 1)
            ELSE findManifest(path, entries, key, i + 1)

\* seekManifestAndEntry: search from the root unless the root is empty.
seekManifestAndEntry(key) ==
    IF store[<<>>] = <<>> THEN NotFound ELSE findManifest(<<>>, store[<<>>], key, 1)

\* What Get(key) returns: the Ref of the entry found, or the error.
GetResult(key) ==
    LET s == seekManifestAndEntry(key)
    IN IF s.err = Ok THEN store[s.path][s.idx].ref ELSE s.err

-----------------------------------------------------------------------------
(* Delete.                                                                 *)

\* Mutant: off by one, the entry after i is cut out.
RemoveNextEntry(entries, i) == RemoveAt(entries, i + 1)

\* append(entries[:i], entries[i+1:]...)
RemoveEntry(entries, i) == RemoveAt(entries, i)

(***************************************************************************)
(* A manifest holding only the entry with an empty name is removed from    *)
(* its parent (loaded at filepath.Dir of its name): the first Intermediate *)
(* entry named filepath.Base of its name goes, and its Ref is returned.    *)
(* The root has no parent manifest: filepath.Dir of idx.name is no feed.   *)
(* Otherwise the entry found is cut out.  Either way one manifest is       *)
(* written.                                                                *)
(***************************************************************************)
DeletePlan(key) ==
    LET s == seekManifestAndEntry(key)
        m == store[s.path]
        parent == Front(s.path)
        named == {j \in DOMAIN store[parent] :
                    /\ store[parent][j].etype = IntermediateEntry
                    /\ store[parent][j].name = Last(s.path)}
        j == Min(named)
    IN
    IF s.err # Ok THEN Abort(s.err)
    ELSE IF Len(m) = 1 /\ m[1].name = <<>> THEN
        IF s.path = <<>> \/ parent \notin DOMAIN store
        THEN Abort(ErrNoManifestFound)
        ELSE IF named = {}
        THEN [Plan(<<Update(parent, store[parent])>>) EXCEPT !.ref = m[s.idx].ref]
        ELSE [Plan(<<Update(parent, RemoveEntry(store[parent], j))>>)
                EXCEPT !.ref = store[parent][j].ref]
    ELSE [Plan(<<Update(s.path, RemoveEntry(m, s.idx))>>) EXCEPT !.ref = m[s.idx].ref]

-----------------------------------------------------------------------------
(* The operations.                                                         *)

\* Apply a plan, with n writes allowed to succeed; record what was returned.
Run(plan, n, op, key, val, ret) ==
    LET r == IF plan.err = Ok THEN ApplyWrites(store, plan.writes, n)
             ELSE [store |-> store, err |-> plan.err]
    IN /\ store' = r.store
       /\ last' = [op |-> op, key |-> key, val |-> val, err |-> r.err,
                   ret |-> IF r.err = Ok THEN ret ELSE NoRef]

(***************************************************************************)
(* Index.Put: load and decode the root manifest, then addOrUpdateEntry     *)
(* from it.  The Print that follows (PrintManifest, getValue) only reads   *)
(* feeds and blobs, and its error is dropped.                              *)
(***************************************************************************)
Put(key, value) ==
    LET plan == addOrUpdateEntry(<<>>, store[<<>>], key, value)
    IN \E n \in FailPoints(plan.writes) : Run(plan, n, "put", key, value, NoRef)

\* Index.Get: seekManifestAndEntry and the Ref of the entry found.
Get(key) ==
    /\ last' = [op |-> "get", key |-> key, val |-> NoRef,
                err |-> IF GetResult(key) \in Vals THEN Ok ELSE GetResult(key),
                ret |-> IF GetResult(key) \in Vals THEN GetResult(key) ELSE NoRef]
    /\ UNCHANGED store

\* Index.Delete: the removed entry's Ref (or the branch's) is returned.
Delete(key) ==
    LET plan == DeletePlan(key)
    IN \E n \in FailPoints(plan.writes) : Run(plan, n, "delete", key, NoRef, plan.ref)

\* The index was created by CreateIndex (an empty root manifest) and opened.
Init ==
    /\ store = (<<>> :> <<>>)
    /\ last = [op |-> "none", key |-> <<>>, val |-> NoRef, err |-> Ok, ret |-> NoRef]

Next ==
    \E key \in Keys :
        \/ \E value \in Vals : Put(key, value)
        \/ Get(key)
        \/ Delete(key)

Spec == Init /\ [][Next]_vars

-----------------------------------------------------------------------------
(* Properties.                                                             *)

\* What Get returns for every key: the index as its callers see it.
Contents == [key \in Keys |-> GetResult(key)]

Paths == DOMAIN store

TypeOK ==
    /\ \A p \in Paths : \A i \in DOMAIN store[p] :
          /\ store[p][i].etype \in {LeafEntry, IntermediateEntry}
          /\ store[p][i].ref \in Vals \cup {NoRef}
          /\ store[p][i].etype = IntermediateEntry => store[p][i].name # <<>>
          /\ \A c \in DOMAIN store[p][i].name : store[p][i].name[c] \in Chars
    /\ <<>> \in Paths
    /\ last.op \in Ops /\ last.err \in Errors /\ last.ret \in Vals \cup {NoRef}

(***************************************************************************)
(* Every stored manifest keeps its entries with the empty name first and   *)
(* the others in ascending order of first character: the order the early  *)
(* exit of findManifest and the Iterator rely on, kept by every insertion  *)
(* (addEntryToManifestSortedLexicographically) and by the in-place         *)
(* renames of a leaf or branch during a split.                             *)
(***************************************************************************)
EntriesOrdered ==
    \A p \in Paths : EmptyNamesFirst(store[p]) /\ FirstCharsAscending(store[p])

(***************************************************************************)
(* Read your write: right after Put(key, value) returns nil, Get(key)      *)
(* returns value.  The Put descent (four cases, first match wins) and the  *)
(* Get descent (exact leaf or prefixing branch, early exit on order) must  *)
(* pick the same entry at every level, whatever shape earlier operations   *)
(* gave the trie.                                                          *)
(***************************************************************************)
ReadYourPut ==
    last.op = "put" /\ last.err = Ok => GetResult(last.key) = last.val

(***************************************************************************)
(* A Put that returns an error changes no key's Get result: whatever its   *)
(* earlier feed writes left behind (a new branch created, a renamed child  *)
(* stored) is not reachable until the parent manifest is updated, which   *)
(* is its last write.                                                      *)
(***************************************************************************)
FailedPutKeepsContents ==
    [][last'.op = "put" /\ last'.err # Ok => Contents' = Contents]_vars

(***************************************************************************)
(* A Delete that succeeds changes the Get result of no other key, also     *)
(* when it collapses a branch by removing the parent's Intermediate entry. *)
(***************************************************************************)
DeleteKeepsOtherKeys ==
    [][last'.op = "delete" /\ last'.err = Ok /\ store' # store =>
        \A k \in Keys \ {last'.key} : Contents'[k] = Contents[k]]_vars

(***************************************************************************)
(* The index implements the key/value map of KVStore: every Put or Delete  *)
(* that succeeds changes Get's result for its key alone, as the map does,  *)
(* a failed one changes none, and Get and Delete return what the map      *)
(* holds.                                                                  *)
(***************************************************************************)
KV == INSTANCE KVStore WITH
        dict <- [k \in Keys |-> IF Contents[k] \in Vals THEN Contents[k] ELSE NoRef],
        res <- [op |-> last.op, key |-> last.key, val |-> last.val,
                ok |-> last.err = Ok, ret |-> last.ret],
        Missing <- NoRef
KVRefinement == KV!Spec
=============================================================================
