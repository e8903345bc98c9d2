------------------------------- MODULE Batch -------------------------------
(***************************************************************************)
(* Index.Batch, Batch.Put, Batch.Delete and Batch.Write                    *)
(* (src/pkg/collection/index.go), between the Index operations of the      *)
(* same single-threaded caller.                                            *)
(*                                                                         *)
(* memDb is the batch's in-memory root manifest, NoManifest while it is    *)
(* nil.  Memory mode stages changes in memDb, but every descent below it  *)
(* (addOrUpdateEntry cases 3 and 4, findManifest) loads the child from     *)
(* its feed: the in-memory child manifests a split attaches are never      *)
(* read again, and Write fails before it would store them.  So the state   *)
(* a batch can observe is memDb's entries and the feeds; the in-memory     *)
(* children are left out.                                                  *)
(***************************************************************************)
EXTENDS Index

CONSTANT NoManifest

VARIABLES
    memDb,      \* the entries of the batch's root manifest, or NoManifest
    bres        \* the last call and what it returned, op "none" unless on the batch

batchVars == <<memDb, bres>>
allVars == <<store, last, memDb, bres>>

BatchOps == {"none", "new", "bput", "bdelete", "bwrite"}
ErrNilPointer == "runtime error: nil pointer dereference"

\* What a batch call returned; the key and the Ref returned are left out
\* (no property reads them).
Result(op, err) == [op |-> op, err |-> err]

(***************************************************************************)
(* addOrUpdateEntry with memory = true on the manifest at path.  When it   *)
(* is memDb (staged) its new entries are staged; below memDb it is a copy  *)
(* loaded from the feed in case 3 and dropped when the call returns.  The  *)
(* one feed write memory mode makes is case 4's updateManifest of the      *)
(* re-stored child.                                                        *)
(***************************************************************************)
RECURSIVE MemPut(_, _, _, _, _)
MemPut(path, entries, key, value, staged) ==
    LET hits == {i \in DOMAIN entries : Matches(entries[i], key)}
        i == Min(hits)
        e == entries[i]
        child == path \o <<e.name>>
        Stage(m) == IF staged THEN m ELSE memDb
        Done(m, ws) == [err |-> Ok, mem |-> Stage(m), writes |-> ws]
    IN
    IF key = <<>> \/ hits = {} THEN
        Done(addEntryToManifestSortedLexicographically(entries, Leaf(key, value)), <<>>)
    ELSE IF ExactLeaf(e, key) THEN Done([entries EXCEPT ![i].ref = value], <<>>)
    ELSE IF SharedLeaf(e, key) THEN
        Done([entries EXCEPT ![i].name = longestCommonPrefix(key, e.name),
                             ![i].etype = IntermediateEntry], <<>>)
    ELSE IF child \notin DOMAIN store THEN
        [err |-> ErrNoManifestFound, mem |-> memDb, writes |-> <<>>]
    ELSE IF KeyExtendsBranch(e, key)
         THEN MemPut(child, store[child], TrimPrefix(key, e.name), value, FALSE)
    ELSE Done([entries EXCEPT ![i].name = key],
              <<Update(path \o <<key, TrimPrefix(e.name, key)>>, store[child])>>)

\* idx.Batch(): a batch with a nil memDb.
NewBatch ==
    /\ memDb' = NoManifest
    /\ bres' = Result("new", Ok)
    /\ UNCHANGED <<store, last>>

(***************************************************************************)
(* Batch.Put: memDb becomes an empty manifest the first time, then         *)
(* addOrUpdateEntry in memory mode; its feed write, if any, may fail.      *)
(***************************************************************************)
BatchPut(key, value) ==
    LET root == IF memDb = NoManifest THEN <<>> ELSE memDb
        r == MemPut(<<>>, root, key, value, TRUE)
    IN \E n \in FailPoints(r.writes) :
        LET a == ApplyWrites(store, r.writes, n)
        IN /\ store' = a.store
           /\ memDb' = IF r.err = Ok /\ a.err = Ok THEN r.mem ELSE root
           /\ bres' = Result("bput", IF r.err # Ok THEN r.err ELSE a.err)
           /\ UNCHANGED last

(***************************************************************************)
(* Batch.Delete: findManifest in memory mode from memDb (the children it  *)
(* loads are attached to the batch but never read again).  A manifest     *)
(* left with one empty-name entry, below memDb, is collapsed by removing  *)
(* its parent's first Intermediate entry of that name; otherwise the      *)
(* entry found is removed.  Only a removal from memDb itself is staged.   *)
(***************************************************************************)
BatchDelete(key) ==
    LET s == findManifest(<<>>, memDb, key, 1)
        m == IF s.path = <<>> THEN memDb ELSE store[s.path]
        collapse == Len(m) = 1 /\ m[1].name = <<>> /\ s.path # <<>>
        named == {j \in DOMAIN memDb : /\ memDb[j].etype = IntermediateEntry
                                       /\ memDb[j].name = Last(s.path)}
    IN /\ memDb # NoManifest
       /\ bres' = Result("bdelete", s.err)
       /\ memDb' = CASE s.err # Ok -> memDb
                    [] collapse /\ Len(s.path) = 1 /\ named # {} -> RemoveEntry(memDb, Min(named))
                    [] ~collapse /\ s.path = <<>> -> RemoveEntry(memDb, s.idx)
                    [] OTHER -> memDb
       /\ UNCHANGED <<store, last>>

\* Batch.Delete before any Put: memDb is nil.
BatchDeleteEmpty(key) ==
    /\ memDb = NoManifest
    /\ bres' = Result("bdelete", ErrEntryNotFound)
    /\ UNCHANGED <<store, last, memDb>>

(***************************************************************************)
(* Batch.Write: "if b.memDb != nil { return ErrEntryNotFound }", and with  *)
(* a nil memDb the next line dereferences it.                              *)
(***************************************************************************)
BatchWrite ==
    /\ bres' = Result("bwrite", IF memDb # NoManifest THEN ErrEntryNotFound ELSE ErrNilPointer)
    /\ UNCHANGED <<store, last, memDb>>

BInit ==
    /\ Init
    /\ memDb = NoManifest
    /\ bres = Result("none", Ok)

BNext ==
    \/ /\ \E key \in Keys : (\E value \in Vals : Put(key, value)) \/ Delete(key)
       /\ bres' = Result("none", Ok)
       /\ UNCHANGED memDb
    \/ NewBatch
    \/ \E key \in Keys : \/ \E value \in Vals : BatchPut(key, value)
                         \/ BatchDelete(key)
                         \/ BatchDeleteEmpty(key)
    \/ BatchWrite

BSpec == BInit /\ [][BNext]_allVars

-----------------------------------------------------------------------------
(* Properties.                                                             *)

(***************************************************************************)
(* Batch isolation (spec section 8): Put and Delete inside an uncommitted  *)
(* batch, and a Write that does not commit, change no key's Get result on  *)
(* the same index.                                                         *)
(***************************************************************************)
BatchIsolation ==
    [][bres'.op \in {"bput", "bdelete", "bwrite"} => Contents' = Contents]_allVars
=============================================================================
