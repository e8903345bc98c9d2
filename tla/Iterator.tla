------------------------------ MODULE Iterator ------------------------------
(***************************************************************************)
(* Index.NewIterator, Iterator.Next, Seek and seekKey                      *)
(* (src/pkg/collection/index.go) over the persisted trie of Index.         *)
(*                                                                         *)
(* The iterator keeps a stack of frames (manifestStack), each a manifest   *)
(* as loaded and the number of its entries already consumed                *)
(* (currentIndex).  Callers are single threaded: while an iterator is in   *)
(* use the index is not changed; between iterators it is, by Put and      *)
(* Delete.  Each call of NewIterator or Next is one action; the recursion  *)
(* of Next into a branch and of seekKey into a child is evaluated within   *)
(* it.                                                                     *)
(***************************************************************************)
EXTENDS Index

CONSTANTS
    Starts,     \* start keys callers pass to NewIterator (<<>> for none)
    Ends,       \* end keys (<<>> for none)
    Limits      \* limits (0 for none)

VARIABLES
    manifestStack,  \* Seq of [path, entries, currentIndex]
    itr,            \* the other fields of the Iterator, and its status
    out             \* the keys Next has returned, in order

itrVars == <<manifestStack, itr, out>>
allVars == <<store, last, manifestStack, itr, out>>

ErrNoNextElement == "ErrNoNextElement"
ErrIndexPanic == "runtime error: index out of range"

Frame(path, entries, i) == [path |-> path, entries |-> entries, currentIndex |-> i]

\* The separator utils.PathSeperator; no key character is one.
Sep == 0

(***************************************************************************)
(* The key of entry e of the manifest at path: manifest.Name + "/" +       *)
(* entry.Name, with idx.name trimmed and every "/" removed.  The Name of   *)
(* a manifest is idx.name followed by "/" and each name of its path.       *)
(***************************************************************************)
JoinedName(path, e) == FlattenSeq([i \in 1..Len(path) |-> <<Sep>> \o path[i]]) \o <<Sep>> \o e.name

\* Mutant: the strings.Replace of the separators left out.
ActualKeyWithSeparators(path, e) == JoinedName(path, e)

ActualKey(path, e) == SelectSeq(JoinedName(path, e), LAMBDA c : c # Sep)

(***************************************************************************)
(* seekKey: descend as findManifest does, pushing a frame at each level:   *)
(* past the entries scanned when the scan stops at a greater entry or      *)
(* goes into a branch, at the found leaf when it matches.  The frames      *)
(* pushed, and ErrEntryNotFound unless a leaf matched.                     *)
(***************************************************************************)
RECURSIVE seekKey(_, _, _, _)
seekKey(path, entries, key, j) ==
    IF j > Len(entries) THEN [frames |-> <<>>, err |-> ErrEntryNotFound]
    ELSE LET e == entries[j]
             child == path \o <<e.name>>
             here == Frame(path, entries, j)
         IN IF PastKey(e, key) THEN [frames |-> <<here>>, err |-> ErrEntryNotFound]
            ELSE IF ExactLeaf(e, key)
                 THEN [frames |-> <<Frame(path, entries, j - 1)>>, err |-> Ok]
            ELSE IF KeyExtendsBranch(e, key) THEN
                IF child \notin DOMAIN store THEN [frames |-> <<here>>, err |-> ErrNoManifestFound]
                ELSE LET r == seekKey(child, store[child], TrimPrefix(key, e.name), 1)
                     IN [r EXCEPT !.frames = <<here>> \o @]
            ELSE seekKey(path, entries, key, j + 1)

(***************************************************************************)
(* NewIterator: the root frame at 0, then Seek(start) when start is not    *)
(* empty; a Seek error is returned and the iterator dropped.               *)
(***************************************************************************)
NewIterator(start, end, limit) ==
    LET s == IF start = <<>> THEN [frames |-> <<>>, err |-> Ok]
             ELSE seekKey(<<>>, store[<<>>], start, 1)
    IN /\ itr.status # "open"
       /\ manifestStack' = <<Frame(<<>>, store[<<>>], 0)>> \o s.frames
       /\ itr' = [start |-> start, end |-> end, limit |-> limit, givenUntilNow |-> 0,
                  status |-> IF s.err = Ok THEN "open" ELSE "failed", err |-> s.err]
       /\ out' = <<>>
       /\ UNCHANGED <<store, last>>

\* The pop loop of Next: exhausted frames go, the bottom one never does.
RECURSIVE PopExhausted(_)
PopExhausted(stk) ==
    IF Last(stk).currentIndex < Len(Last(stk).entries) THEN [stack |-> stk, ok |-> TRUE]
    ELSE IF Len(stk) = 1 THEN [stack |-> stk, ok |-> FALSE]
    ELSE PopExhausted(Front(stk))

\* Mutant: a pushed branch starts past its first entry.
ChildFrameSkipFirst(child) == Frame(child, store[child], 1)

\* The frame Next pushes for the branch manifest it loads.
ChildFrame(child) == Frame(child, store[child], 0)

Stop(stk, err) == [stack |-> stk, ret |-> FALSE, key |-> <<>>, err |-> err]

(***************************************************************************)
(* One call of Next, with the recursion after a push: the limit check,     *)
(* the pops, the entry at the top frame consumed, the end check on the     *)
(* first character of its key (actualKey[0] of an empty key panics), then  *)
(* a leaf returned or a branch loaded and pushed.                          *)
(***************************************************************************)
RECURSIVE NextCall(_, _)
NextCall(stk, given) ==
    LET p == PopExhausted(stk)
        top == Last(p.stack)
        e == top.entries[top.currentIndex + 1]
        consumed == [p.stack EXCEPT ![Len(p.stack)].currentIndex = @ + 1]
        key == ActualKey(top.path, e)
        child == top.path \o <<e.name>>
    IN IF itr.limit > 0 /\ given >= itr.limit THEN Stop(stk, itr.err)
       ELSE IF ~p.ok THEN Stop(p.stack, ErrNoNextElement)
       ELSE IF itr.end # <<>> /\ key = <<>> THEN Stop(consumed, ErrIndexPanic)
       ELSE IF itr.end # <<>> /\ key[1] > itr.end[1] THEN Stop(consumed, itr.err)
       ELSE IF e.etype = LeafEntry
            THEN [stack |-> consumed, ret |-> TRUE, key |-> key, err |-> itr.err]
       ELSE IF child \notin DOMAIN store THEN Stop(consumed, ErrNoManifestFound)
       ELSE NextCall(Append(consumed, ChildFrame(child)), given)

\* Next, as the caller's loop calls it until it returns false.
IteratorNext ==
    LET r == NextCall(manifestStack, itr.givenUntilNow)
    IN /\ itr.status = "open"
       /\ manifestStack' = r.stack
       /\ out' = IF r.ret THEN Append(out, r.key) ELSE out
       /\ itr' = [itr EXCEPT !.givenUntilNow = IF r.ret THEN @ + 1 ELSE @,
                             !.status = IF r.ret THEN "open"
                                        ELSE IF r.err = ErrIndexPanic THEN "panicked"
                                        ELSE "done",
                             !.err = r.err]
       /\ UNCHANGED <<store, last>>

\* No iterator in use.
NoIterator == [start |-> <<>>, end |-> <<>>, limit |-> 0, givenUntilNow |-> 0,
               status |-> "none", err |-> Ok]

\* Put and Delete between iterators; the caller has dropped the last one.
IndexWrite ==
    /\ itr.status # "open"
    /\ \E key \in Keys : (\E value \in Vals : Put(key, value)) \/ Delete(key)
    /\ manifestStack' = <<>> /\ itr' = NoIterator /\ out' = <<>>

ItrInit ==
    /\ Init
    /\ manifestStack = <<>> /\ itr = NoIterator /\ out = <<>>

ItrNext ==
    \/ IndexWrite
    \/ \E s \in Starts, e \in Ends, l \in Limits : NewIterator(s, e, l)
    \/ IteratorNext

ItrSpec == ItrInit /\ [][ItrNext]_allVars

-----------------------------------------------------------------------------
(* Properties.                                                             *)

\* Go's string order on keys.
RECURSIVE LexLess(_, _)
LexLess(s, t) ==
    IF t = <<>> THEN FALSE
    ELSE IF s = <<>> THEN TRUE
    ELSE IF Head(s) # Head(t) THEN Head(s) < Head(t)
    ELSE LexLess(Tail(s), Tail(t))

\* The keys a Get finds.
StoredKeys == {k \in Keys : Contents[k] \in Vals}

\* A scan with no start, no end and no limit.
FullScan == itr.start = <<>> /\ itr.end = <<>> /\ itr.limit = 0

ItrTypeOK ==
    /\ \A i \in DOMAIN manifestStack :
          manifestStack[i].currentIndex \in 0..Len(manifestStack[i].entries)
    /\ \A i \in DOMAIN out : \A c \in DOMAIN out[i] : out[i][c] \in Chars
    /\ itr.status \in {"none", "open", "failed", "done", "panicked"}
    /\ itr.limit = 0 \/ itr.givenUntilNow <= itr.limit

(***************************************************************************)
(* A full scan that ends with ErrNoNextElement has returned every key Get  *)
(* finds: the pops and pushes of Next, over every trie shape Put and       *)
(* Delete build, visit every leaf the lookup can reach.                    *)
(***************************************************************************)
ScanComplete ==
    [][itr.status = "open" /\ itr'.status = "done" /\ itr'.err = ErrNoNextElement /\ FullScan
        => StoredKeys \subseteq Range(out')]_allVars

(***************************************************************************)
(* After NewIterator(start, ...), Next returns only keys at or after       *)
(* start, each once (spec section 8, seek correctness).                    *)
(***************************************************************************)
SeekFromStart ==
    itr.start # <<>> =>
        /\ \A i \in DOMAIN out : ~LexLess(out[i], itr.start)
        /\ \A i, j \in DOMAIN out : i < j => out[i] # out[j]
=============================================================================
