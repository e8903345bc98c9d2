------------------------------ MODULE Document ------------------------------
(***************************************************************************)
(* The document DB lifecycle of the document store                        *)
(* (src/pkg/collection/document.go): CreateDocumentDB, OpenDocumentDB and  *)
(* DeleteDocumentDB, called concurrently by the clients of one Document    *)
(* (one per user, shared by the HTTP handlers).                            *)
(*                                                                         *)
(* The shared state is the user's feeds and the opened-DB map:            *)
(*   - schemas: the DBs listed in the document_dbs feed, which every call  *)
(*     reads whole and CreateDocumentDB writes back whole (UpdateFeed);    *)
(*   - idxFeed: the root manifest feed of each index of each DB: none,     *)
(*     live, or erased (DeleteIndex writes empty data, the feed stays);    *)
(*   - idx: what each index maps each key to, as a set of document refs;  *)
(*   - blobs: the blob store, each ref free, holding a document, or        *)
(*     deleted (unpinned);                                                 *)
(*   - opened: the names in openDocDBs, read and written under           *)
(*     openDOcDBMu.                                                        *)
(* Each feed access and each critical section is one atomic step; a call  *)
(* is the sequence of its steps, and the steps of different clients       *)
(* interleave.  Every DB is created with the same indexes, all simple:     *)
(* IdField (the default "id" index) and Fields.  A document has an id and  *)
(* one value, the value of all its other fields.  With Faults a feed      *)
(* write or a blob upload or unpin may fail; reads do not.                 *)
(*                                                                         *)
(* document.go calls an Index API that index.go does not have: Get        *)
(* returning a list of refs and Put(key, ref, type, apnd).  Its use       *)
(* fixes what the model assumes of it: Put with apnd adds the ref to the  *)
(* key's list and without it (the id index) replaces the list; Delete     *)
(* removes the key and its whole list, and fails with ErrEntryNotFound on *)
(* a missing key, as Index.Delete does.                                    *)
(***************************************************************************)
EXTENDS FiniteSets

CONSTANTS
    Clients,    \* concurrent callers of the document store
    DBs,        \* document DB names
    IdField,    \* DefaultIndexFieldName
    Fields,     \* the other indexed fields passed to CreateDocumentDB
    Faults,     \* TRUE when a feed write may fail
    Ids,        \* document ids
    FVals,      \* values of the other fields
    Refs        \* blob references; every upload takes a fresh one, so
                \* |Refs| bounds the number of document uploads

VARIABLES
    schemas,    \* the DB names stored in the document_dbs feed
    idxFeed,    \* db -> field -> "none" | "live" | "erased"
    idx,        \* db -> field -> key -> SUBSET Refs ({} when absent)
    blobs,      \* ref -> [st: "free" | "pinned" | "deleted", doc: the document]
    opened,     \* the names in openDocDBs
    pc,         \* client -> the step its current call is at, or "idle"
    call,       \* client -> [op, db, id, fv] of its current (or last) call
    ref,        \* client -> the ref its Put uploads the document to
    oref,       \* client -> the ref its Del or Get read from the id index
    odoc,       \* client -> the document its Del downloaded
    found,      \* client -> the refs its Find read from a field index
    tables,     \* client -> its copy of the schemas (CreateDocumentDB)
    todo,       \* client -> the index fields its loop has still to visit
    ret,        \* client -> the error its last call returned
    created     \* the DBs whose CreateDocumentDB returned nil, and no
                \* DeleteDocumentDB of them has returned nil since

vars == <<schemas, idxFeed, idx, blobs, opened, pc, call, ref, oref, odoc,
          found, tables, todo, ret, created>>
docVars == <<idx, blobs, ref, oref, odoc, found>>
lifeVars == <<schemas, idxFeed, opened, call, tables>>

AllFields == {IdField} \cup Fields

Ok == "nil"
ErrDocumentDBAlreadyOpened == "ErrDocumentDBAlreadyOpened"
ErrDocumentDBAlreadyPresent == "ErrDocumentDBAlreadyPresent"
ErrDocumentDBNotPresent == "ErrDocumentDBNotPresent"
ErrIndexAlreadyPresent == "ErrIndexAlreadyPresent"
ErrManifestCreate == "ErrManifestCreate"
ErrNoManifestFound == "ErrNoManifestFound"
ErrManifestUnmarshall == "ErrManifestUnmarshall"
ErrDeleteingIndex == "ErrDeleteingIndex"
ErrUpdateFeed == "ErrUpdateFeed"            \* storeDocumentDBSchemas
ErrDocumentDBNotOpened == "ErrDocumentDBNotOpened"
ErrEntryNotFound == "ErrEntryNotFound"
ErrIndexWrite == "ErrIndexWrite"            \* Index.Put/Delete feed write
ErrBlob == "ErrBlob"                        \* blob upload, download, unpin
Errors == {Ok, ErrDocumentDBAlreadyOpened, ErrDocumentDBAlreadyPresent,
           ErrDocumentDBNotPresent, ErrIndexAlreadyPresent, ErrManifestCreate,
           ErrNoManifestFound, ErrManifestUnmarshall, ErrDeleteingIndex, ErrUpdateFeed,
           ErrDocumentDBNotOpened, ErrEntryNotFound,
           ErrIndexWrite, ErrBlob}

Steps == {"idle", "checkOpened", "load", "createIdx", "store", "openIdx",
          "add", "delCheckOpened", "deleteIdx", "putGetId", "upload", "putIdx",
          "delGetId", "download", "delIdx", "unpin", "getId", "getDownload", "count", "findRefs",
          "findDownload"}

Docs == [id : Ids, fv : FVals]

\* The id and value of a call that has none.
AnyId == CHOOSE i \in Ids : TRUE
AnyFVal == CHOOSE v \in FVals : TRUE
IdxKeys == Ids \cup FVals

\* A blob that holds a document and is not unpinned.
Pinned(r) == blobs[r].st = "pinned"

\* The key a document has in the index of field f.
KeyOf(doc, f) == IF f = IdField THEN doc.id ELSE doc.fv

\* Refs no blob and no Put in progress uses yet.
FreeRefs ==
    {r \in Refs : blobs[r].st = "free"} \
        {ref[c] : c \in {c2 \in Clients : call[c2].op = "put" /\ pc[c2] # "idle"}}

\* The write of a feed succeeds, or with Faults it may fail.
WriteOutcomes == IF Faults THEN {TRUE, FALSE} ELSE {TRUE}

Goto(c, step) == pc' = [pc EXCEPT ![c] = step]

(***************************************************************************)
(* The call of client c returns err.  A DeleteDocumentDB that returns nil  *)
(* (also through the OpenDocumentDB it calls) is, to its caller, a         *)
(* deleted DB.                                                             *)
(***************************************************************************)
Return(c, err) ==
    /\ pc' = [pc EXCEPT ![c] = "idle"]
    /\ ret' = [ret EXCEPT ![c] = err]
    /\ created' = CASE err = Ok /\ call[c].op = "create" -> created \cup {call[c].db}
                    [] err = Ok /\ call[c].op \in {"delete", "delopen"} -> created \ {call[c].db}
                    [] OTHER -> created

-----------------------------------------------------------------------------
(* The calls.                                                              *)

\* A client calls CreateDocumentDB, OpenDocumentDB or DeleteDocumentDB, or
\* Put, Get or Del of a document, or Count or Find with an expression
\* "field=value" (the feed is not read-only).  The id and
\* value of a lifecycle call are unused; a Put takes a fresh ref.
Call(c) ==
    /\ pc[c] = "idle"
    /\ \/ /\ \E op \in {"create", "open", "delete"}, d \in DBs :
             /\ call' = [call EXCEPT ![c] = [op |-> op, db |-> d, id |-> AnyId, fv |-> AnyFVal]]
             /\ Goto(c, IF op = "delete" THEN "load" ELSE "checkOpened")
          /\ UNCHANGED ref
       \/ /\ \E d \in DBs, i \in Ids, v \in FVals, r \in FreeRefs :
             /\ call' = [call EXCEPT ![c] = [op |-> "put", db |-> d, id |-> i, fv |-> v]]
             /\ ref' = [ref EXCEPT ![c] = r]
             /\ Goto(c, "putGetId")
       \/ /\ \E op \in {"get", "del"}, d \in DBs, i \in Ids :
             /\ call' = [call EXCEPT ![c] = [op |-> op, db |-> d, id |-> i, fv |-> AnyFVal]]
             /\ Goto(c, IF op = "get" THEN "getId" ELSE "delGetId")
          /\ UNCHANGED ref
       \/ /\ \E op \in {"count", "find"}, d \in DBs, v \in FVals :
             /\ call' = [call EXCEPT ![c] = [op |-> op, db |-> d, id |-> AnyId, fv |-> v]]
             /\ Goto(c, IF op = "count" THEN "count" ELSE "findRefs")
          /\ UNCHANGED ref
    /\ UNCHANGED <<schemas, idxFeed, idx, blobs, opened, oref, odoc, found, tables, todo, ret, created>>

\* IsDBOpened, under openDOcDBMu: an opened DB is not created or opened again.
CheckOpened(c) ==
    /\ pc[c] = "checkOpened"
    /\ IF call[c].db \in opened
       THEN Return(c, ErrDocumentDBAlreadyOpened)
       ELSE Goto(c, "load") /\ UNCHANGED <<ret, created>>
    /\ UNCHANGED <<docVars, schemas, idxFeed, opened, call, tables, todo>>

(***************************************************************************)
(* LoadDocumentDBSchemas (one GetFeedData of document_dbs, no updates yet  *)
(* being an empty map), then the caller's test of the name: Create needs   *)
(* it absent and keeps the copy to add to; Open and Delete need it there. *)
(***************************************************************************)
LoadSchemas(c) ==
    LET d == call[c].db
        op == call[c].op
    IN /\ pc[c] = "load"
       /\ tables' = [tables EXCEPT ![c] = IF op = "create" THEN schemas ELSE {}]
       /\ todo' = [todo EXCEPT ![c] = AllFields]
       /\ CASE op = "create" /\ d \in schemas -> Return(c, ErrDocumentDBAlreadyPresent)
            [] op = "create" -> Goto(c, "createIdx") /\ UNCHANGED <<ret, created>>
            [] d \notin schemas -> Return(c, ErrDocumentDBNotPresent)
            [] op = "delete" -> Goto(c, "delCheckOpened") /\ UNCHANGED <<ret, created>>
            [] OTHER -> Goto(c, "openIdx") /\ UNCHANGED <<ret, created>>
       /\ UNCHANGED <<docVars, schemas, idxFeed, opened, call>>

(***************************************************************************)
(* CreateIndex of the next field: the default index first, then the       *)
(* fields in Go's map order (any), returning on the first error.  After   *)
(* the last index the schema is stored.                                    *)
(***************************************************************************)
\* Mutant: the default index is not created with the others.
CreateIndexStepNoDefault(c) ==
    LET d == call[c].db
    IN /\ pc[c] = "createIdx"
       /\ \E f \in todo[c] \ {IdField} :
            /\ idxFeed' = [idxFeed EXCEPT ![d][f] = "live"]
            /\ todo' = [todo EXCEPT ![c] = {}]
            /\ Goto(c, "store") /\ UNCHANGED <<ret, created>>
       /\ UNCHANGED <<docVars, schemas, opened, call, tables>>

\* Mutant: CreateIndex without its GetFeedData check, its CreateFeed
\* writing over a feed that exists.
CreateIndexUnchecked(d, f, ok) == IF ~ok THEN ErrManifestCreate ELSE Ok

\* index.go CreateIndex: the root feed found is ErrIndexAlreadyPresent (a
\* feed erased by DeleteIndex is still found); otherwise CreateFeed makes
\* it, or fails.
CreateIndex(d, f, ok) ==
    IF idxFeed[d][f] # "none" THEN ErrIndexAlreadyPresent
    ELSE IF ~ok THEN ErrManifestCreate
    ELSE Ok

CreateIndexStep(c) ==
    LET d == call[c].db
        next == IF IdField \in todo[c] THEN {IdField} ELSE todo[c]
    IN /\ pc[c] = "createIdx"
       /\ \E f \in next, ok \in WriteOutcomes :
            IF CreateIndex(d, f, ok) # Ok THEN Return(c, CreateIndex(d, f, ok)) /\ UNCHANGED <<idxFeed, todo>>
            ELSE /\ idxFeed' = [idxFeed EXCEPT ![d][f] = "live"]
                 /\ todo' = [todo EXCEPT ![c] = @ \ {f}]
                 /\ Goto(c, IF todo'[c] = {} THEN "store" ELSE "createIdx")
                 /\ UNCHANGED <<ret, created>>
       /\ UNCHANGED <<docVars, schemas, opened, call, tables>>

\* storeDocumentDBSchemas: the copy loaded, with the new DB, overwrites
\* the document_dbs feed.
StoreSchemas(c) ==
    /\ pc[c] = "store"
    /\ \E ok \in WriteOutcomes :
        IF ok THEN schemas' = tables[c] \cup {call[c].db} /\ Return(c, Ok)
        ELSE Return(c, ErrUpdateFeed) /\ UNCHANGED schemas
    /\ UNCHANGED <<docVars, idxFeed, opened, call, tables, todo>>

(***************************************************************************)
(* OpenIndex of the next index of the schema: syncIndex loads its root     *)
(* manifest: loadManifest fails on a missing feed, and the empty data of  *)
(* an erased one does not unmarshal.  After the                          *)
(* last one the DB is added to the opened map.                             *)
(***************************************************************************)
OpenIndexStep(c) ==
    LET d == call[c].db
    IN /\ pc[c] = "openIdx"
       /\ \E f \in todo[c] :
            IF idxFeed[d][f] = "none" THEN Return(c, ErrNoManifestFound) /\ UNCHANGED todo
            ELSE IF idxFeed[d][f] = "erased" THEN Return(c, ErrManifestUnmarshall) /\ UNCHANGED todo
            ELSE /\ todo' = [todo EXCEPT ![c] = @ \ {f}]
                 /\ Goto(c, IF todo'[c] = {} THEN "add" ELSE "openIdx")
                 /\ UNCHANGED <<ret, created>>
       /\ UNCHANGED <<docVars, schemas, idxFeed, opened, call, tables>>

\* addToOpenedDb, under openDOcDBMu (a DB opened meanwhile is replaced).
AddOpened(c) ==
    /\ pc[c] = "add"
    /\ opened' = opened \cup {call[c].db}
    /\ Return(c, Ok)
    /\ UNCHANGED <<docVars, schemas, idxFeed, call, tables, todo>>

(***************************************************************************)
(* DeleteDocumentDB after the schema check: a DB that is not opened is     *)
(* opened instead, and what OpenDocumentDB returns is returned.            *)
(***************************************************************************)
DelCheckOpened(c) ==
    /\ pc[c] = "delCheckOpened"
    /\ IF call[c].db \in opened
       THEN /\ Goto(c, "deleteIdx")
            /\ UNCHANGED call
       ELSE /\ call' = [call EXCEPT ![c].op = "delopen"]
            /\ Goto(c, "checkOpened")
    /\ UNCHANGED <<docVars, schemas, idxFeed, opened, tables, todo, ret, created>>

(***************************************************************************)
(* The loop over the simple indexes returns from its first iteration: one  *)
(* index, the first in Go's map order, is erased by DeleteIndex (an       *)
(* UpdateFeed of empty data) and its result returned.  The schema is not  *)
(* rewritten and the DB stays in the opened map.                           *)
(***************************************************************************)
DeleteIndexStep(c) ==
    LET d == call[c].db
    IN /\ pc[c] = "deleteIdx"
       /\ \E f \in AllFields, ok \in WriteOutcomes :
            IF ok THEN /\ idxFeed' = [idxFeed EXCEPT ![d][f] = "erased"]
                       /\ idx' = [idx EXCEPT ![d][f] = [k \in IdxKeys |-> {}]]
                       /\ Return(c, Ok)
            ELSE Return(c, ErrDeleteingIndex) /\ UNCHANGED <<idxFeed, idx>>
       /\ UNCHANGED <<schemas, blobs, opened, call, ref, oref, odoc, found, tables, todo>>

-----------------------------------------------------------------------------
(* The document operations, on a DB of the opened map.                     *)

\* The error an index handle's root manifest gives a read or write
\* (loadManifest), or Ok when its feed holds a manifest.
IndexError(d, f) ==
    CASE idxFeed[d][f] = "none" -> ErrNoManifestFound
      [] idxFeed[d][f] = "erased" -> ErrManifestUnmarshall
      [] OTHER -> Ok

\* Del returns err: to its caller, or, when Put called it to remove the
\* old document and it returned nil, Put goes on to upload.
DelDone(c, err) ==
    IF call[c].op = "put" /\ err = Ok
    THEN Goto(c, "upload") /\ UNCHANGED <<ret, created>>
    ELSE Return(c, err)

(***************************************************************************)
(* Put: getOpenedDb, then the id index's Get of the document's id.  Any   *)
(* error of Get leaves the switch (break) and the document is uploaded;   *)
(* an id that has refs is first removed by Del.                            *)
(***************************************************************************)
PutGetId(c) ==
    LET d == call[c].db
    IN /\ pc[c] = "putGetId"
       /\ CASE d \notin opened -> Return(c, ErrDocumentDBNotOpened)
            [] IndexError(d, IdField) = Ok /\ idx[d][IdField][call[c].id] # {} ->
                    Goto(c, "delGetId") /\ UNCHANGED <<ret, created>>
            [] OTHER -> Goto(c, "upload") /\ UNCHANGED <<ret, created>>
       /\ UNCHANGED <<lifeVars, docVars, todo>>

\* UploadBlob of the document (encrypted, so a fresh ref).
Upload(c) ==
    /\ pc[c] = "upload"
    /\ \E ok \in WriteOutcomes :
        IF ok THEN /\ blobs' = [blobs EXCEPT ![ref[c]] = [st |-> "pinned", doc |-> [id |-> call[c].id, fv |-> call[c].fv]]]
                   /\ todo' = [todo EXCEPT ![c] = AllFields]
                   /\ Goto(c, "putIdx") /\ UNCHANGED <<ret, created>>
        ELSE Return(c, ErrBlob) /\ UNCHANGED <<blobs, todo>>
    /\ UNCHANGED <<lifeVars, found, idx, ref, oref, odoc>>

(***************************************************************************)
(* Put into the next index, in Go's map order, returning on the first     *)
(* error: the id index is put without apnd (its list replaced), the      *)
(* others with apnd (the ref added to the list of the value).             *)
(***************************************************************************)
PutIdx(c) ==
    LET d == call[c].db
    IN /\ pc[c] = "putIdx"
       /\ \E f \in todo[c], ok \in WriteOutcomes :
            LET k == KeyOf(call[c], f)
            IN CASE IndexError(d, f) # Ok -> Return(c, IndexError(d, f)) /\ UNCHANGED <<idx, todo>>
                 [] ~ok -> Return(c, ErrIndexWrite) /\ UNCHANGED <<idx, todo>>
                 [] OTHER ->
                    /\ idx' = [idx EXCEPT ![d][f][k] = IF f = IdField THEN {ref[c]} ELSE @ \cup {ref[c]}]
                    /\ todo' = [todo EXCEPT ![c] = @ \ {f}]
                    /\ IF todo'[c] = {} THEN Return(c, Ok)
                       ELSE Goto(c, "putIdx") /\ UNCHANGED <<ret, created>>
       /\ UNCHANGED <<lifeVars, found, blobs, ref, oref, odoc>>

(***************************************************************************)
(* Del: getOpenedDb, then the id index's Get.  ErrEntryNotFound (and an   *)
(* empty list) is success with nothing to do; the first ref is the       *)
(* document's.                                                             *)
(***************************************************************************)
DelGetId(c) ==
    LET d == call[c].db
        refs == idx[d][IdField][call[c].id]
    IN /\ pc[c] = "delGetId"
       /\ CASE d \notin opened -> DelDone(c, ErrDocumentDBNotOpened) /\ UNCHANGED oref
            [] IndexError(d, IdField) # Ok -> DelDone(c, IndexError(d, IdField)) /\ UNCHANGED oref
            [] refs = {} -> DelDone(c, Ok) /\ UNCHANGED oref
            [] OTHER -> /\ \E r \in refs : oref' = [oref EXCEPT ![c] = r]
                        /\ Goto(c, "download") /\ UNCHANGED <<ret, created>>
       /\ UNCHANGED <<lifeVars, found, idx, blobs, ref, odoc, todo>>

\* Mutant: the document's blob is unpinned as soon as it is downloaded,
\* before its index entries are deleted.
DownloadDocUnpinned(c) ==
    /\ pc[c] = "download"
    /\ Pinned(oref[c])
    /\ odoc' = [odoc EXCEPT ![c] = blobs[oref[c]].doc]
    /\ blobs' = [blobs EXCEPT ![oref[c]].st = "deleted"]
    /\ todo' = [todo EXCEPT ![c] = AllFields]
    /\ Goto(c, "delIdx") /\ UNCHANGED <<ret, created>>
    /\ UNCHANGED <<lifeVars, found, idx, ref, oref>>

\* DownloadBlob of the first ref, and the document decoded from it.
DownloadDoc(c) ==
    /\ pc[c] = "download"
    /\ IF Pinned(oref[c])
       THEN /\ odoc' = [odoc EXCEPT ![c] = blobs[oref[c]].doc]
            /\ todo' = [todo EXCEPT ![c] = AllFields]
            /\ Goto(c, "delIdx") /\ UNCHANGED <<ret, created>>
       ELSE DelDone(c, ErrBlob) /\ UNCHANGED <<odoc, todo>>
    /\ UNCHANGED <<lifeVars, found, idx, blobs, ref, oref>>

(***************************************************************************)
(* Delete, in each simple index in Go's map order, of the key the        *)
(* downloaded document has there: the whole key goes, with the refs of    *)
(* every other document that has the same value.  A key already gone is  *)
(* ErrEntryNotFound, and the first error is returned.                      *)
(***************************************************************************)
DelIdx(c) ==
    LET d == call[c].db
    IN /\ pc[c] = "delIdx"
       /\ \E f \in todo[c], ok \in WriteOutcomes :
            LET k == KeyOf(odoc[c], f)
            IN CASE IndexError(d, f) # Ok -> DelDone(c, IndexError(d, f)) /\ UNCHANGED <<idx, todo>>
                 [] idx[d][f][k] = {} -> DelDone(c, ErrEntryNotFound) /\ UNCHANGED <<idx, todo>>
                 [] ~ok -> DelDone(c, ErrIndexWrite) /\ UNCHANGED <<idx, todo>>
                 [] OTHER -> /\ idx' = [idx EXCEPT ![d][f][k] = {}]
                             /\ todo' = [todo EXCEPT ![c] = @ \ {f}]
                             /\ Goto(c, IF todo'[c] = {} THEN "unpin" ELSE "delIdx")
                             /\ UNCHANGED <<ret, created>>
       /\ UNCHANGED <<lifeVars, found, blobs, ref, oref, odoc>>

\* DeleteBlob of the document's ref, its result returned.
Unpin(c) ==
    /\ pc[c] = "unpin"
    /\ \E ok \in WriteOutcomes :
        IF ok THEN blobs' = [blobs EXCEPT ![oref[c]].st = "deleted"] /\ DelDone(c, Ok)
        ELSE DelDone(c, ErrBlob) /\ UNCHANGED blobs
    /\ UNCHANGED <<lifeVars, found, idx, ref, oref, odoc, todo>>

\* Get: getOpenedDb, the id index's Get, and the first ref's blob.
GetId(c) ==
    LET d == call[c].db
        refs == idx[d][IdField][call[c].id]
    IN /\ pc[c] = "getId"
       /\ CASE d \notin opened -> Return(c, ErrDocumentDBNotOpened) /\ UNCHANGED oref
            [] IndexError(d, IdField) # Ok -> Return(c, IndexError(d, IdField)) /\ UNCHANGED oref
            [] refs = {} -> Return(c, ErrEntryNotFound) /\ UNCHANGED oref
            [] OTHER -> /\ \E r \in refs : oref' = [oref EXCEPT ![c] = r]
                        /\ Goto(c, "getDownload") /\ UNCHANGED <<ret, created>>
       /\ UNCHANGED <<lifeVars, found, idx, blobs, ref, odoc, todo>>

GetDownload(c) ==
    /\ pc[c] = "getDownload"
    /\ Return(c, IF Pinned(oref[c]) THEN Ok ELSE ErrBlob)
    /\ UNCHANGED <<lifeVars, docVars, todo>>

(***************************************************************************)
(* Count and Find with the operator "=" on a field of Fields: getOpenedDb, *)
(* then NewStringIterator seeks the value (a value not stored is          *)
(* ErrEntryNotFound, as seekKey gives) and ValueAll reads its refs.  Count *)
(* returns how many; Find then downloads each document (no limit).        *)
(***************************************************************************)
FieldRefs(c) == idx[call[c].db][CHOOSE f \in Fields : TRUE][call[c].fv]

FieldError(c) ==
    LET d == call[c].db
        f == CHOOSE f \in Fields : TRUE
    IN CASE d \notin opened -> ErrDocumentDBNotOpened
         [] IndexError(d, f) # Ok -> IndexError(d, f)
         [] FieldRefs(c) = {} -> ErrEntryNotFound
         [] OTHER -> Ok

CountStep(c) ==
    /\ pc[c] = "count"
    /\ Return(c, FieldError(c))
    /\ UNCHANGED <<lifeVars, docVars, todo>>

FindRefs(c) ==
    /\ pc[c] = "findRefs"
    /\ IF FieldError(c) # Ok THEN Return(c, FieldError(c)) /\ UNCHANGED found
       ELSE /\ found' = [found EXCEPT ![c] = FieldRefs(c)]
            /\ Goto(c, "findDownload") /\ UNCHANGED <<ret, created>>
    /\ UNCHANGED <<lifeVars, idx, blobs, ref, oref, odoc, todo>>

\* DownloadBlob of each ref read, the first failure returned.
FindDownload(c) ==
    /\ pc[c] = "findDownload"
    /\ Return(c, IF \A r \in found[c] : Pinned(r) THEN Ok ELSE ErrBlob)
    /\ UNCHANGED <<lifeVars, docVars, todo>>


Init ==
    /\ schemas = {}
    /\ idxFeed = [d \in DBs |-> [f \in AllFields |-> "none"]]
    /\ idx = [d \in DBs |-> [f \in AllFields |-> [k \in IdxKeys |-> {}]]]
    /\ blobs = [r \in Refs |-> [st |-> "free", doc |-> CHOOSE doc \in Docs : TRUE]]
    /\ opened = {}
    /\ pc = [c \in Clients |-> "idle"]
    /\ call = [c \in Clients |-> [op |-> "none", db |-> CHOOSE d \in DBs : TRUE,
                                  id |-> AnyId, fv |-> AnyFVal]]
    /\ ref = [c \in Clients |-> CHOOSE r \in Refs : TRUE]
    /\ oref = [c \in Clients |-> CHOOSE r \in Refs : TRUE]
    /\ odoc = [c \in Clients |-> CHOOSE doc \in Docs : TRUE]
    /\ found = [c \in Clients |-> {}]
    /\ tables = [c \in Clients |-> {}]
    /\ todo = [c \in Clients |-> {}]
    /\ ret = [c \in Clients |-> Ok]
    /\ created = {}

Next ==
    \E c \in Clients :
        \/ Call(c)
        \/ CheckOpened(c)
        \/ LoadSchemas(c)
        \/ CreateIndexStep(c)
        \/ StoreSchemas(c)
        \/ OpenIndexStep(c)
        \/ AddOpened(c)
        \/ DelCheckOpened(c)
        \/ DeleteIndexStep(c)
        \/ PutGetId(c)
        \/ Upload(c)
        \/ PutIdx(c)
        \/ DelGetId(c)
        \/ DownloadDoc(c)
        \/ DelIdx(c)
        \/ Unpin(c)
        \/ GetId(c)
        \/ GetDownload(c)
        \/ CountStep(c)
        \/ FindRefs(c)
        \/ FindDownload(c)

Spec == Init /\ [][Next]_vars

-----------------------------------------------------------------------------
(* Properties.                                                             *)

(***************************************************************************)
(* Every DB the schema feed lists has all its index feeds: a DB becomes   *)
(* visible to Open and Delete only after CreateDocumentDB has created     *)
(* every index, whatever other clients did between its steps and however *)
(* many of its writes failed.                                              *)
(***************************************************************************)
ListedHasIndexes ==
    \A d \in schemas : \A f \in AllFields : idxFeed[d][f] # "none"

(***************************************************************************)
(* Two CreateDocumentDB calls of one name never both return nil (without  *)
(* a DeleteDocumentDB returning nil in between), even when both pass the  *)
(* opened and schema checks before either creates an index: the           *)
(* CreateFeed of the default index decides.                                *)
(***************************************************************************)
AtMostOneCreate ==
    [][\A c \in Clients :
         pc[c] # "idle" /\ pc'[c] = "idle" /\ call[c].op = "create" /\ ret'[c] = Ok
            => call[c].db \notin created]_vars

(***************************************************************************)
(* A DB whose CreateDocumentDB returned nil stays listed in the schema     *)
(* feed until a DeleteDocumentDB of it returns nil: the schema feed is    *)
(* read, extended and written back by each CreateDocumentDB, with no lock *)
(* between the read and the write.                                         *)
(***************************************************************************)
CreatedListed == created \subseteq schemas

(***************************************************************************)
(* Every ref the id index holds for an id is a pinned blob holding the    *)
(* document of that id, so Get finds it: Del unpins a document only after *)
(* deleting its index entries, a Put that replaces a document removes the *)
(* old one before indexing the new, and concurrent Puts and Dels of one   *)
(* id interleave at every index and blob step.                             *)
(***************************************************************************)
IdIndexResolves ==
    \A d \in DBs, i \in Ids : \A r \in idx[d][IdField][i] :
        Pinned(r) /\ blobs[r].doc.id = i

(***************************************************************************)
(* When no call is in progress, every document the id index holds is     *)
(* found in each live field index under its value, as Find and Count     *)
(* look it up: Del deletes the document's keys from the field indexes,   *)
(* which other documents may share.                                        *)
(***************************************************************************)
FieldIndexComplete ==
    (\A c \in Clients : pc[c] = "idle") =>
        \A d \in DBs, i \in Ids, f \in Fields : \A r \in idx[d][IdField][i] :
            idxFeed[d][f] = "live" /\ Pinned(r) => r \in idx[d][f][blobs[r].doc.fv]
=============================================================================
