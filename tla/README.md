# TLA+ models of fairOS-dfs

This directory holds TLA+ models of the repository's Go code (`src/`), and the
TLC configurations that check them. The centre of the code is the collection
index of `src/pkg/collection/index.go`. It is a radix trie of *manifests*, each
stored in a Swarm feed. The document store (`document.go`) builds on it. So do
the pod, directory and user packages, which create and update feeds of their
own.

## 1. The system

| part | source | state | operations | concurrency |
|---|---|---|---|---|
| Index trie | `collection/index.go` | one feed per manifest, keyed by `HashString(path)`. A manifest is an ordered list of entries. An entry is a Leaf (key suffix, blob Ref) or an Intermediate (key fragment leading to a child manifest). | CreateIndex, OpenIndex, Put (`addOrUpdateEntry`: four cases), Get (`seekManifestAndEntry`/`findManifest`), Delete (with branch collapse), DeleteIndex | none inside an operation. The caller serialises them. |
| Index loader | `syncIndex`, `loadIndexInMemory` | `idx.count`, `idx.memDB`, an error channel with one slot, a cancel context | run by OpenIndex | one goroutine per Intermediate entry, recursively. WaitGroups, non-blocking sends, cancellation, atomic add. |
| Iterator | `NewIterator`, `Next`, `Seek`, `seekKey` | a stack of (manifest, position) frames, start and end keys | Seek, Next | none |
| Batch | `Batch.*`, `mergeAndWriteManifest`, `storeMemoryManifest` | an in-memory copy of the trie | Put, Delete, Write | none |
| Document store | `collection/document.go` | a schema feed with one entry per DB, a map of opened DBs under a mutex, one index per indexed field | Create/Open/Delete DB, Count, Put, Get, Del, Find, batches | HTTP handlers may call it concurrently. Only the opened-DB map has a lock. |
| Pod open | `pod/open.go`, `pod/utils.go` | the pod map | OpenPod | sequential |
| Directory inodes | `dir/inode_create.go` | inode feeds, the directory map | create and delete inode | sequential |
| User feeds | `user/root_feed.go`, `user/mnemonic_feed.go` | settings, inbox and outbox feeds, the mnemonic feed | CreateRootFeeds, mnemonic upload/get/delete | sequential CreateFeed calls |
| Helpers | `common/*.go`, `utils/utils.go` | none | hex, XOR, hash | none |
| CLI client | `cmd/dfs-cli/cmd/fdfs-api.go` | none | HTTP requests | none |

The parts interact through feeds:

- A document DB owns one Index per indexed field. Document Put and Del are
  sequences of Index operations.
- Pods and users own feeds that are created with CreateFeed, which fails if the
  topic already exists.

The behaviours that make the code hard, and that the models aim at:

- The trie is reshaped in place by splits (cases 2 and 4 of
  `addOrUpdateEntry`) and by collapse on Delete.
- The lookup exits early on entry order and never backtracks.
- One Put makes up to three feed writes, and any of them can fail after the
  earlier ones have landed.
- The loader is concurrent: goroutines, a one-slot error channel and cancellation.

## 2. Modules

| module | models | state | actions |
|---|---|---|---|
| `Manifest` | the entry types and the pure helpers: `longestCommonPrefix`, `strings.TrimPrefix`, `addEntryToManifestSortedLexicographically` | none | operators |
| `Index` | the persisted trie and Put, Get, Delete | `store`: path → entries, one per feed. `last`: the last operation and what it returned. | `Put(key, value)`, `Get(key)`, `Delete(key)` |
| `KVStore` | what the index promises: a map from keys to refs | `dict`, `res` | Put, Get, Delete, Fail |
| `MCIndex` | instance: characters {1, 2}, keys of up to three characters, two symmetric values | | |
| `Loader` | `syncIndex` / `loadIndexInMemory` | per-manifest `pc`, loop position `pos`, local `cnt`, plus `count`, `errC`, `cancelled`, `attached`, `bad`, `result` | `LoopStep`, `WaitAndAdd`, `LoadFails`, `LoadSucceeds`, `CheckCancel`, `Attach`, `Finish` |
| `MCLoader` | instance: a trie of four manifests, three levels deep | | |
| `Iterator` (extends `Index`) | `NewIterator`, `Next`, `seekKey` | `manifestStack`: frames (path, entries, `currentIndex`). `itr`: start, end, limit, `givenUntilNow`, status, error. `out`: the keys returned. | `NewIterator(start, end, limit)`, `IteratorNext`, `IndexWrite` (Put or Delete while no iterator is open) |
| `MCIterator` | instance: keys a, b, ab, aba; starts none, aa, ab; ends none, aa; limits none, 1 | | |
| `Batch` (extends `Index`) | `Index.Batch`, `Batch.Put`, `Batch.Delete`, `Batch.Write` | `memDb`: the entries of the staged root, or `NoManifest` while nil. `bres`: the last batch call and its error. | `NewBatch`, `BatchPut`, `BatchDelete`, `BatchDeleteEmpty`, `BatchWrite`, and Index Put/Delete between them |
| `MCBatch` | instance: keys a, ab, aba, two values, four feeds | | |
| `Document` | `CreateDocumentDB`, `OpenDocumentDB`, `DeleteDocumentDB`, document `Put`, `Get`, `Del`, `Count` and `Find` with "=", `CreateIndex`, `DeleteIndex` | shared: `schemas` (the DBs the schema feed lists), `idxFeed` (each index root feed: none, live, erased), `idx` (each index's key → set of refs), `blobs` (each ref free, pinned with its document, or deleted), `opened`. Per client: `pc`, `call`, `ref`, `oref`, `odoc`, `found`, `tables`, `todo`, `ret`. Ghost: `created`. | `Call`, then one action per step: `CheckOpened`, `LoadSchemas`, `CreateIndexStep`, `StoreSchemas`, `OpenIndexStep`, `AddOpened`, `DelCheckOpened`, `DeleteIndexStep`, `PutGetId`, `Upload`, `PutIdx`, `DelGetId`, `DownloadDoc`, `DelIdx`, `Unpin`, `GetId`, `GetDownload`, `CountStep`, `FindRefs`, `FindDownload` |
| `Codec` | `common/xor.go` (`XORBytes`, `fastXORBytes`, `safeXORBytes`) and `common/hexutil.go` (`Encode`, `Decode`, `has0xPrefix`, `mapError`) | `call`: one call with its inputs (and, for XOR, the destination's initial memory and the build's `supportsUnaligned`). `done`, `out`: what it returned. | `CallXORBytes`, `CallEncode`, `CallDecode` |
| `MCCodec` | instance: word size 2, bytes {0x0f, 0xa5, 0xf0}, slices of up to 4 bytes, strings of up to 6 characters over 0 x X f A g | | |
| `Pod` | `dir/inode_create.go`, `OpenPod` and `isPodOpened` | `inodes` (paths with an inode feed), `dirMap` (each pod's directory map: path string → meta), `podMap` (the pod map's keys), `podAccounts`, `pret` | `CreatePodINode`, `CreateDirINode`, `IsDirINodePresent`, `DeletePodInode`, `DeleteDirectoryInode`, `OpenPod`, `isPodOpened` |
| `User` | `CreateRootFeeds`, the mnemonic feed | `rootFeeds`, `uploads`, `mnemonic`, `rootCalls`, `uret` | `CreateRootFeeds`, `uploadEncryptedMnemonic`, `getEncryptedMnemonic`, `deleteMnemonic` |
| `MCAccount` | one user session: `User` and `Pod` interleaved; own pods p1, p2, shared pod s1, unlisted o1, directories d1, d2 | | |
| `MCDocument` | instance: two clients, DBs d1 (and d2), ids i1 (and i2), one field value, two or three refs; a `VIEW` that forgets an idle client's locals | | |

How `Index` corresponds to the code:

- Keys and entry names are sequences of naturals, so the code's byte
  comparison `entry.Name[0] > key[0]` becomes `<` on Nat.
- A manifest path is the sequence of entry names walked from the root, and it
  stands for its own feed topic.
- Each operation is one action.
  - **Put.** `addOrUpdateEntry` is a recursive operator. It returns the list of
    feed writes the code makes, in the code's order: `Create` for CreateFeed,
    `Update` for updateManifest.
  - **Applying the writes.** `ApplyWrites` applies them. A CreateFeed on an
    existing topic fails, as the feed API does.
  - **Failures.** With `FeedFailures` set, the action picks how many writes
    succeed before one fails, which is the partial state a failing feed
    service leaves behind.
- The loop of `addOrUpdateEntry` stops at the first entry that matches one of
  its four cases. The four case predicates, and their order, are those of the code.
- `findManifest` exits on `PastKey`, returns an exact leaf, or descends into the
  first Intermediate entry that prefixes the key.
- `DeletePlan` follows `Delete`. A found manifest that holds exactly one
  entry, with an empty name, is removed from its parent: the parent's first
  Intermediate entry named `filepath.Base` goes, and that entry's Ref is returned.

`Loader` gives each non-root manifest one goroutine, with its own program counter:

```
load → (bad: send to errC if empty, cancel, done)
     | check ctx → (cancelled: done) | attach → loop → wait → done
```

- **Root.** The root runs the `loop` and `wait` of `syncIndex`'s own call.
  `Finish` is the `select` on `errC` after it.
- **Attach.** `Attach` writes the child into the parent's entry at the position
  the parent's loop has reached. That models `entry.manifest = newManifest`,
  which writes through the shared range variable.
- **Which loads fail.** The set of manifests whose load fails (`bad`) is any
  subset of the non-root ones, chosen at the start.

How `Iterator` corresponds to the code:

- **Calls.** Each call of `NewIterator` or `Next` is one action. The recursion
  of `Next` into a branch (`NextCall`) and of `seekKey` into a child are
  recursive operators evaluated inside it.
- **Keys.** `ActualKey` joins the path names and the entry name with the
  separator and then removes the separators. This is the code's
  `strings.Replace` after `TrimPrefix` of the index name.
- **Frames.** `NewIterator` pushes the root frame at 0. With a start key it then
  pushes the frames of `seekKey`.
- **Writes.** Put and Delete run only while no iterator is open, because the
  caller is single threaded. A write drops the old iterator.

How `Batch` corresponds to the code:

- **`MemPut`.** This is `addOrUpdateEntry` with `memory = true`.
  - **Staged root.** On `memDb` the changes are staged.
  - **Case 3.** It loads the child from its feed and recurses into a copy. The
    copy's changes are dropped.
  - **Case 4.** It loads the child from its feed and still stores it under the
    re-stored path with `updateManifest`. This is the one feed write a batch
    makes.
- **`BatchDelete`.** It is `findManifest` from `memDb`. Below `memDb` it reads
  the feeds, and only removals from `memDb` itself are staged.
- **`BatchWrite`.** It returns `ErrEntryNotFound` whenever `memDb` is set, and
  dereferences nil otherwise (`index.go:852-856`). So `mergeAndWriteManifest`
  never runs and is not modelled.
- **What is left out.** The in-memory child manifests a split attaches are never
  read, because every descent below `memDb` goes to the feeds. They are left
  out, and so are the key and Ref a batch call returns.

How `Document` corresponds to the code:

- **Clients.** Each client makes one call at a time and may call again after
  it returns. A call is a sequence of steps, one per feed read or write, blob
  call, or critical section of `openDOcDBMu`. The steps of the two clients
  interleave in every order, because the HTTP handlers share one `Document`
  and nothing else serialises them.
- **Feeds.** The schema feed is read whole by `LoadDocumentDBSchemas` and
  written whole by `storeDocumentDBSchemas`, so `schemas` is a set of names
  and `tables` is the calling client's copy of it. Every DB has the same
  simple indexes, `IdField` and `Fields`. An index's root feed is `none`
  until `CreateIndex`, `live` after it, and `erased` after `DeleteIndex`
  writes empty data. The feed stays, so `CreateIndex` still finds it.
- **Index API.** `document.go` calls an Index API that `index.go` lacks:
  `Get` returning a list of refs, and `Put(key, ref, type, apnd)`. The model
  takes its meaning from the calls. A Put with `apnd` adds the ref to the
  key's list; the id index's Put (no `apnd`) replaces it. `Delete` removes the
  key and its whole list, and fails with `ErrEntryNotFound` on a missing key,
  as `Index.Delete` does. An index whose root is missing or erased fails
  every call (`IndexError`, from `loadManifest`).
- **Blobs.** `UploadBlob` encrypts, so every upload gets a fresh ref. A Put
  takes its ref when it starts, from `FreeRefs`, so `Refs` bounds the number
  of uploads.
- **Control flow.**
  - Map iteration takes any order, as Go's does.
  - `DeleteDocumentDB` opens a DB that is not opened and returns what
    `OpenDocumentDB` returns. Otherwise it erases one index and returns.
  - `Put` of an id that has refs runs `Del` first (`DelDone` goes on to the
    upload).
  - With `Faults`, every feed write, upload and unpin may fail. Reads do not
    fail.
  - Count and Find take the expression "field=value".
    - `NewStringIterator` seeks the value. A value that is not stored gives
      `ErrEntryNotFound`, as `seekKey` does.
    - `ValueAll` reads the refs.
    - Find then downloads each ref in a step of its own, so a concurrent Del
      can unpin one first.
    - The range operators and the limit are not modelled.

How `Codec` corresponds to the code:

- A byte slice is a sequence of naturals below 256, and a string a sequence
  of one-character strings. XOR is `^^` of `Bitwise`.
- `fastXORBytes` keeps the code's arithmetic: `w = n / wordSize` whole words,
  then a byte loop from `n - n % wordSize`. The word loop indexes `dw`, the
  slice header of `dst` reinterpreted as `[]uintptr`, which keeps `len(dst)`
  as its length counted in words, so it panics only when `w` exceeds
  `len(dst)`; the memory past `len(dst)` is part of the state so that what the word loop
  writes there is visible. Which of the two functions runs is the build's
  `supportsUnaligned`, chosen nondeterministically.
- `Decode` checks the empty string and the prefix, then decodes pairs of
  digits as Go's `hex.DecodeString` does: an invalid digit stops with
  `InvalidByteError`, an odd tail gives `ErrLength` (or `InvalidByteError`
  when that digit is invalid). `mapError` turns these into `ErrSyntax` and
  `ErrOddLength`.
- Each initial state is one call; one step returns it. The runs stop there,
  hence `CHECK_DEADLOCK FALSE`.

How `Pod` and `User` correspond to the code:

- A path string is the sequence of its tokens: the separator `Sep` and
  names. `"/" + podName` is `<<Sep, p>>` and the bare `podName` is `<<p>>`,
  so keys built in different ways stay apart as they do in Go. A path stands
  for the topic `HashString(path)`.
- The feed service is the spec's (section 6): `CreateFeed` fails if the topic
  exists, `GetFeedData` if it does not. With `PodFaults` or `UserFaults`
  every feed, blob and account call may also fail.
- `dirMap[p]` is the directory map of the `Directory` pod p uses. OpenPod
  builds a new one with `NewDirectory`, so it replaces the map.
- `OpenPod` takes own pods before shared ones, as the code does. A shared
  pod's inode lives in the sharer's account, so reading it may fail.
  `Register` is the end of OpenPod: the pod map, the new directory map, then
  `SyncPod`, which may fail after both are set.
- `CreateRootFeeds` is one action over its seven calls in order. The first
  that fails ends it, as each `if err != nil { return err }` does; what came
  before stays. A retry is a later call, bounded by `MaxRootCalls`.

## 3. Runs

| run | cfg | expect | what it shows |
|---|---|---|---|
| `index_feed_failures` | `MCIndexFailures.cfg` | pass | Put, Get and Delete with any feed write failing. `TypeOK`. `EntriesOrdered`: the empty name comes first, then first characters ascend. `ReadYourPut`: Get right after a successful Put returns the value; the chain keys a, ab, aba cannot build the shape that hides a key behind another branch (`index.go:493`), which `index_kv_refinement` finds. `DeleteKeepsOtherKeys`: a successful Delete, including a collapse, changes no other key's Get. `FailedPutKeepsContents`: whichever write of a Put fails, no key's Get result changes. The parent update is always the last write, so whatever is written before it cannot be reached yet. About 41k states, 45 s. |
| `index_kv_refinement` | `MCIndexKV.cfg` | violation | `KVRefinement` (Index implements KVStore under the mapping "Get result of every key"), over the split keys. Put a, Put aa, Put a adds a second empty-name leaf under a. Delete a then succeeds, yet a is still there. Two more bugs break the same refinement; their traces were checked with the same configuration. (1) Put aba, abb, aa, a leaves the root as [I a, L aa], and the lookup of aa descends into a and never comes back (`index.go:493`). (2) Put aa, Put a, Delete aa, Delete a makes the collapse return the parent's stale Ref (`index.go:181`). |
| `loader` | `MCLoader.cfg` | pass | `TypeOK`. `SyncOutcome`: nil with `count` = all leaves and no bad manifest in the trie, or an error with `count` = 0. `SyncTerminates`: syncIndex returns under every failure set and every interleaving. |
| `loader_attach` | `MCLoaderAttach.cfg` | violation | `AttachedToOwnEntry`: both children of the root end up on its last (leaf) entry, because the goroutines write through the loop variable. |
| `iterator` | `MCIterator.cfg` | pass | `ItrTypeOK`. `ScanComplete`: a full scan (no start, end or limit) that ends with `ErrNoNextElement` has returned every key Get finds, over every trie Put and Delete build. About 550k states. |
| `iterator_seek` | `MCIteratorSeekFromStart.cfg` | violation | `SeekFromStart`: after `NewIterator(ab, ...)` Next returns a key before ab. The root frame stays under the seek frames (`index.go:606`). Once the seek frames are exhausted, iteration resumes in the root from the start. |
| `batch_isolation` | `MCBatchIsolation.cfg` | violation | `BatchIsolation` (spec section 8: an uncommitted batch is invisible to Get). After Put ab, aba, a (`a/b` is a live copy of the now orphan `ab`) and Put ab = v2, a batch Put of ab, aba, a makes the memory-mode branch split store the orphan over `a/b`. Get(ab) goes back to v1. |
| `document` | `MCDocument.cfg` | pass | Two clients, one DB, one id, three refs, failing writes. `ListedHasIndexes`: a DB the schema feed lists has every index feed; it holds because every index is created before the schema is stored, and it does not see that `DeleteDocumentDB` never rewrites the schema. `AtMostOneCreate`: two creates of one name never both return nil; when both pass the checks, the id index's `CreateFeed` decides. `IdIndexResolves`: every ref the id index holds is a pinned blob with that id. This holds through Put-replaces-Del races, concurrent Dels and half-deleted DBs. Count and Find run between them. About 4.5M distinct states, 75 s. |
| `document_lost_create` | `MCDocumentLostCreate.cfg` | violation | `CreatedListed`: clients create d1 and d2 concurrently. Both load the empty schema file and both return nil. The second write lists only d2. d1 cannot be opened, and it cannot be created again because its index feeds exist. |
| `account_dir_map` | `MCAccountDirMap.cfg` | violation | `DirMapKeyIsInodePath` (what `mkdir_test.go` checks: a directory map key is the inode's path and name). After OpenPod, the pod's directory map holds its root inode under the bare pod name, not under `"/" + podName` as `CreatePodINode` maps it (`open.go:125`). |
| `codec` | `MCCodec.cfg` | pass | `XorMatchesReference`: whenever `dst` is long enough, `XORBytes` writes `a[i] xor b[i]` for the first `min(len(a), len(b))` bytes, leaves the rest alone and returns that count, on both builds. `DecodeMatchesReference`: `Decode` of every string of up to six characters agrees with a reference decoder on the error, and on the bytes when there is none. About 405k states, 6 s. |
| `document_field_index` | `MCDocumentFieldIndex.cfg` | violation | `FieldIndexComplete` (checked when no call is in progress): after Put(i1, x), Put(i2, x) and Del(i1), the field index has no entry x. Del deletes the whole key, with i2's ref (`document.go:536`). Find and Count by the field miss i2. |

Each property of a passing run has a mutant in `PROJECT.json`. The mutant is a
plausible bug in the definition that models the code, and TLC finds the
property violated once the mutant is in place. The mutants are:

- an insertion that only appends;
- `>=` in the early exit of the lookup;
- an off-by-one in entry removal;
- the parent updated before the branch is created;
- a loop position that overruns;
- a missing `wg.Wait`;
- a blocking send on the error channel;
- a split without its common-prefix guard;
- the separators left in an iterator key;
- a pushed branch frame that starts past its first entry;
- a CreateDocumentDB that skips the default index;
- a CreateIndex without its existence check;
- a Del that unpins the blob before deleting its index entries;
- a byte loop that starts one byte too late;
- a prefix check that accepts only a lower-case x.

## 4. Bounds and why they are enough

**Index.**

- Characters {1, 2}. `index_feed_failures` uses the keys a, ab, aba (a = 1,
  b = 2) and two values under symmetry. This reaches every case of
  `addOrUpdateEntry`:
  - exact leaf: put a twice;
  - shared-prefix split: a then ab, or ab then aba;
  - descent: branch ab, then put aba;
  - branch split: branch ab, then put a.
- Keys of only one or two characters never make a branch name longer than
  one character, so they could not reach the branch split.
- Delete meets both the ordinary removal and the collapse of a branch.
- `StoreBound` keeps at most 3 feeds and 3 entries per manifest. The bound
  prunes successors only, so a violation one step past it is still reported.
- `KVRefinement` uses `SplitKeys` (up to four
  characters), which makes a branch below a branch before the split.
- The same keys reach the two-write leaf split and the three-write branch
  split, with every failure point. A second first character (b) is left to
  the iterator run, which builds the tries of a, b, ab, aba: adding b here
  takes the run past three minutes.

**Codec.** `WordSize` = 2 stands for 8. `fastXORBytes` depends on the word
size only through `n / wordSize` and `n % wordSize`, and lengths up to 4 give
zero, one and two whole words, with and without a tail byte. Three byte
values have distinct nibbles, so a swapped or lost digit shows. Strings of up
to six characters over 0, x, X, f, A and g reach both prefixes, every error
of `Decode` and one and two decoded bytes.

**Account.** Two own pods and one shared pod reach both branches of OpenPod
and two independent directory maps. An unlisted name reaches
`ErrInvalidPodName`. Two directory names and paths of up to four tokens give
a directory below a pod, and two siblings. `MaxRootCalls` = 2 is a first
CreateRootFeeds and one retry.

**Loader.** The trie has four manifests:

- the root holds two branches (two goroutines run concurrently) and two leaves,
  so the range variable changes while they run;
- one branch has its own child, which gives nested WaitGroups;
- every subset of the three non-root manifests may fail: none, one (the error
  is delivered), two (the second send is dropped, or cancellation stops a
  goroutine).

**Iterator.** The keys a, b, ab, aba build every trie shape of `index_core` up to
one level of branches. Together with them:

- the start aa is absent, and ab is stored below a branch;
- the end aa shares a first character with keys past it;
- the limit 1 stops a scan early.

Put and Delete reset the iterator. Otherwise every trie would be multiplied by
every iterator position.

**Batch.** The keys a, ab, aba and four feeds are the fewest that hold all of the
following at once:

- a live re-stored copy `a/b`;
- the orphan `ab` it came from;
- a staged branch `ab`, split by a batch Put of `a`.

The feeds do not fail in this run, so the violation does not depend on a
failing feed service.

**Document.**

- **Two clients** are the fewest that can race.
- **Two DB names** are what the lost create needs. In the pass run, one name
  with two clients already races two creates of one name, and a create
  against an open or a delete.
- **The pass run.** It has one id and three refs, which allow:
  - a Put, then a Put that replaces it (Del, then a fresh upload), and a
    third upload racing them;
  - a Put or Del racing a DeleteDocumentDB that erases one index.
- **The field-index run** needs two ids sharing one value.
- **Bigger instances.** Two DBs together with three refs run for more than
  five minutes.
- **The `VIEW`.** It drops the locals of idle clients. Those values are dead,
  because every call overwrites them before reading them, so states that
  differ only there behave the same.

## 5. Fairness

- **Index.** It has no fairness and no liveness property. Its operations are
  calls a client may or may not make.
- **Loader.** Every goroutine step, and syncIndex's final select, are weakly
  fair. The Go runtime eventually schedules every runnable goroutine, and no
  step waits on anything but the WaitGroup of its own children.
- **Document.** It has no fairness: a client may stop calling.
- `MCLoader.cfg` and `MCCodec.cfg` set `CHECK_DEADLOCK FALSE`. A codec call returns once. syncIndex is a one-shot procedure
  that stops once it returns. Termination is checked as the liveness property
  `SyncTerminates` instead.

## 6. What is not modelled, and the plan

Done so far:

- the Index trie, the loader, the Iterator and Batch (up to `Write`, which
  never commits);
- the document DB lifecycle with document Put, Get and Del;
- the hex and XOR helpers (`Codec`);
- the pod and directory inodes, OpenPod, and the user's root and mnemonic
  feeds (`Pod`, `User`).

The plan for the next steps, in order:

1. **Document store, the rest**:
   - the range operators of Count and Find;
   - the document batches (`CreateDocBatch`, `DocBatchPut`, `DocBatchWrite`).
     They call a Batch API that `index.go` lacks: `Get`, `Del`, and `Put`
     with `apnd`. `DocBatchPut` unpins the old document before the batch is
     written (`document.go:920`).
   - map and list index types;
   - a property that every ref in a field index is a live document. Two
     concurrent Puts of one new id break it: both upload, and the field index
     keeps both refs.
2. **Retries of the user's root feeds**: after a CreateRootFeeds that failed
   past its first call, every retry fails on the name feed
   (`root_feed.go:47`). `User` models this; a run needs a slot.
3. **Availability after an orphan feed**: a Put whose split meets a feed left
   by a failed Put or by a collapse fails for ever (`index.go:386`).
4. **Batch.Delete of a staged key**: a key staged below a branch of `memDb` is
   looked up in the feeds (`index.go:826`), not in the shadow tree that spec
   section 4.7 describes.

Divergences noted while modelling, without a run of their own:

- `NewIterator` with a start key that is not stored returns `ErrEntryNotFound`
  from `seekKey` (`index.go:606-609`). Spec section 4.6 says a seek without an
  exact match still positions the iterator.
- `Batch.Write` never commits (`index.go:852`). `BatchWrite` models this.
- The iterator's end check compares first characters only
  (`index.go:664`). With end aa, it returns ab. This was found while
  modelling `Next`.
- `DeleteDocumentDB` returns from inside its first loop after erasing one
  index (`document.go:242`). The schema is never rewritten, and the DB stays
  in the opened map. Its later Puts and Gets fail on the erased index, or half
  succeed. A name, once created, cannot be created again, because
  `DeleteIndex` leaves the feed behind. `DeleteIndexStep` models this.
- `Encode` returns the bare hex digits (`hexutil.go:41-46`), but its comment
  says it encodes "with 0x prefix", and `Decode` rejects a string without
  it (`ErrMissingPrefix`). `Decode(Encode(b))` always fails. No run states
  it: a property that puts the prefix in front by hand would pass and hide
  the disagreement, and the project keeps its violation runs for the
  findings above, which corrupt stored data. No code in `src` calls
  either function, so nothing in the repository depends on the round trip.
  `CallEncode` still models `Encode` as the code has it.
- When `dst` is shorter than the inputs, `fastXORBytes` writes whole words
  past `len(dst)` into whatever follows it (`xor.go:27`). `safeXORBytes`
  panics instead. No caller in `src` passes a short `dst`, so the run checks
  the long-enough case only.
- `isPodOpened` looks up `"/" + podName` in the pod map (`utils.go:30`),
  while OpenPod registers the pod with `addPodToPodMap(podName, ...)`. A pod
  that was opened is reported as not opened. `isPodOpened` models this.
- `DeletePodInode` and `DeleteDirectoryInode` delete only the feed. The
  directory map keeps the entry, so a later `CreateDirINode` below the deleted
  inode succeeds.
- `CleanPodName` returns `""` with no error for a name made only of
  separators and spaces, such as `"/"` (`utils.go:68-70`). It checks for an
  empty name before trimming.
- `OpenDocumentDB` opens the list indexes from `schema.MapIndexes`
  (`document.go:198`). The model has simple indexes only, so this is not
  reached.

Not modelled:

- **Pure conversions**: `HashString` and JSON. Hex and XOR are in `Codec`. A path stands for its own
  topic, which assumes the hash is collision free on the paths built. The
  models' names hold no `/`.
- **Pod helpers**: the getters `GetPath`, `GetName` and `GetAccountInfo`,
  and the string cleaners `CleanPodName` and `CleanDirName`. Their callers
  (`MakeDir`, `CreatePod`) are not in `src`.
- **`utils/utils.go`**: a copy of the hex, XOR and hash helpers of
  `common`. `Codec` models the `common` copy.
- **Output and I/O**: the `Print` functions, blob upload and download, and the
  CLI HTTP client.
- **`DeleteIndex` in `Index`**: the trie model has no erased root. The
  `Document` model has one, and its index calls fail on an erased root.
