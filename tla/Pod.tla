-------------------------------- MODULE Pod --------------------------------
(***************************************************************************)
(* The pod layer over the feeds: pod and directory inodes                  *)
(* (dir/inode_create.go), OpenPod (pod/open.go) and isPodOpened            *)
(* (pod/utils.go).                                                         *)
(*                                                                         *)
(* A path is a string, kept as the sequence of its tokens: the separator   *)
(* Sep and names.  "/" + podName is <<Sep, p>>; a bare podName is <<p>>.   *)
(* HashString(path) is taken to be collision free, so a path stands for    *)
(* its own feed topic.                                                     *)
(*                                                                         *)
(* dirMap[p] is the directory map of the Directory object pod p uses:      *)
(* CreatePod's, or the fresh one OpenPod makes with NewDirectory.          *)
(***************************************************************************)
EXTENDS Naturals, Sequences, FiniteSets, Functions, TLC

CONSTANTS
    Sep,          \* common.PathSeperator
    PodNames,     \* the user's own pods (the pods file loadUserPods reads)
    SharedNames,  \* pods shared with the user (the shared pods file)
    OtherNames,   \* names in neither file
    DirNames,
    PodFaults,    \* TRUE: every feed and account call may fail
    MaxPathLen    \* longest path a directory may have, in tokens

VARIABLES
    inodes,       \* paths with a live inode feed
    dirMap,       \* pod -> (path string -> DirInode meta)
    podMap,       \* the keys of Pod.podMap
    podAccounts,  \* pods whose child account CreatePodAccount made
    pret          \* what the last call returned

podVars == <<inodes, dirMap, podMap, podAccounts, pret>>

Ok == "nil"
ErrFeed == "feed error"
ErrInvalidPodName == "ErrInvalidPodName"

AllPods == PodNames \cup SharedNames

\* DirectoryMetaData: the parent path and the name.
Meta(path, name) == [path |-> path, name |-> name]

\* A bool a query returns, kept as a string beside the error strings.
BoolRet(b) == IF b THEN "true" ELSE "false"

\* A service call either fails or not.
Fault == IF PodFaults THEN BOOLEAN ELSE {FALSE}

\* getPath: the path of a directory below parent.
getPath(parent) ==
    IF parent.path = <<Sep>> THEN parent.path \o <<parent.name>>
    ELSE parent.path \o <<Sep, parent.name>>

\* AddToDirectoryMap(path, inode) on pod p's Directory.
AddToDirectoryMap(p, path, meta) == [dirMap EXCEPT ![p] = (path :> meta) @@ @]

\* CreateFeed(topic, ...): fails if the topic exists or the call fails.
CreateFeedFails(path, fault) == path \in inodes \/ fault

PodInit ==
    /\ inodes = {}
    /\ dirMap = [p \in AllPods |-> <<>>]
    /\ podMap = {}
    /\ podAccounts = {}
    /\ pret = Ok

-----------------------------------------------------------------------------
(* inode_create.go                                                         *)

\* CreatePodINode: create the feed "/" + podName and map it.
CreatePodINode(p) ==
    LET totalPath == <<Sep, p>>
    IN \E fault \in Fault :
        IF CreateFeedFails(totalPath, fault)
        THEN pret' = ErrFeed /\ UNCHANGED <<inodes, dirMap, podMap, podAccounts>>
        ELSE /\ inodes' = inodes \cup {totalPath}
             /\ dirMap' = AddToDirectoryMap(p, totalPath, Meta(<<Sep>>, p))
             /\ pret' = Ok
             /\ UNCHANGED <<podMap, podAccounts>>

\* CreateDirINode: create the feed getPath(parent) + "/" + dirName and map it.
CreateDirINode(p, dirName, parent) ==
    LET parentPath == getPath(parent)
        totalPath == parentPath \o <<Sep, dirName>>
    IN /\ Len(totalPath) <= MaxPathLen
       /\ \E fault \in Fault :
            IF CreateFeedFails(totalPath, fault)
            THEN pret' = ErrFeed /\ UNCHANGED <<inodes, dirMap, podMap, podAccounts>>
            ELSE /\ inodes' = inodes \cup {totalPath}
                 /\ dirMap' = AddToDirectoryMap(p, totalPath, Meta(parentPath, dirName))
                 /\ pret' = Ok
                 /\ UNCHANGED <<podMap, podAccounts>>

\* IsDirINodePresent: whether GetFeedData of the path succeeds.
IsDirINodePresent(p, dirName, parent) ==
    LET totalPath == getPath(parent) \o <<Sep, dirName>>
    IN \E fault \in Fault :
        /\ pret' = BoolRet(totalPath \in inodes /\ ~fault)
        /\ UNCHANGED <<inodes, dirMap, podMap, podAccounts>>

\* DeletePodInode and DeleteDirectoryInode: DeleteFeed of the path.  The
\* directory map keeps its entry.
DeleteInode(path) ==
    \E fault \in Fault :
        IF path \notin inodes \/ fault
        THEN pret' = ErrFeed /\ UNCHANGED <<inodes, dirMap, podMap, podAccounts>>
        ELSE /\ inodes' = inodes \ {path}
             /\ pret' = Ok
             /\ UNCHANGED <<dirMap, podMap, podAccounts>>

DeletePodInode(p) == DeleteInode(<<Sep, p>>)

DeleteDirectoryInode(dirPath) == DeleteInode(dirPath)

-----------------------------------------------------------------------------
(* open.go                                                                 *)

\* The end of OpenPod: addPodToPodMap(podName), a fresh Directory with
\* AddToDirectoryMap(podName, dirInode), then SyncPod, which may fail.
Register(p) ==
    /\ podMap' = podMap \cup {<<p>>}
    /\ dirMap' = [dirMap EXCEPT ![p] = <<p>> :> Meta(<<Sep>>, p)]
    /\ \E syncFault \in Fault : pret' = IF syncFault THEN ErrFeed ELSE Ok

\* OpenPod(podName): own pods first, then shared pods.  A shared pod's
\* inode is in the sharer's account, outside this model: it may be missing.
OpenPod(p) ==
    \E loadFault \in Fault :
        \/ /\ loadFault
           /\ pret' = ErrFeed
           /\ UNCHANGED <<inodes, dirMap, podMap, podAccounts>>
        \/ /\ ~loadFault
           /\ p \notin AllPods
           /\ pret' = ErrInvalidPodName
           /\ UNCHANGED <<inodes, dirMap, podMap, podAccounts>>
        \/ /\ ~loadFault
           /\ p \in SharedNames \ PodNames
           /\ \E found \in BOOLEAN :
                IF found THEN Register(p)
                ELSE pret' = ErrFeed /\ UNCHANGED <<dirMap, podMap>>
           /\ UNCHANGED <<inodes, podAccounts>>
        \/ /\ ~loadFault
           /\ p \in PodNames
           /\ \E accFault, getFault \in Fault :
                IF accFault
                THEN pret' = ErrFeed /\ UNCHANGED <<dirMap, podMap, podAccounts>>
                ELSE /\ podAccounts' = podAccounts \cup {p}
                     /\ IF <<Sep, p>> \notin inodes \/ getFault
                        THEN pret' = ErrFeed /\ UNCHANGED <<dirMap, podMap>>
                        ELSE Register(p)
           /\ UNCHANGED inodes

-----------------------------------------------------------------------------
(* utils.go                                                                *)

\* isPodOpened: podMap["/" + podName] holds a pod inode.
isPodOpened(p) ==
    /\ pret' = BoolRet(<<Sep, p>> \in podMap)
    /\ UNCHANGED <<inodes, dirMap, podMap, podAccounts>>

-----------------------------------------------------------------------------

PodNext ==
    \/ \E p \in AllPods :
          \/ CreatePodINode(p)
          \/ DeletePodInode(p)
          \/ isPodOpened(p)
          \/ \E d \in DirNames, parent \in Range(dirMap[p]) :
                CreateDirINode(p, d, parent) \/ IsDirINodePresent(p, d, parent)
    \/ \E path \in inodes : DeleteDirectoryInode(path)
    \/ \E p \in AllPods \cup OtherNames : OpenPod(p)

-----------------------------------------------------------------------------
(* Properties.                                                             *)

PodTypeOK ==
    /\ \A p \in AllPods : \A k \in DOMAIN dirMap[p] :
          /\ dirMap[p][k].name \in AllPods \cup DirNames
          /\ dirMap[p][k].path \in Seq({Sep} \cup AllPods \cup DirNames)
    /\ \A k \in podMap : k \in Seq({Sep} \cup AllPods)
    /\ podAccounts \subseteq PodNames
    /\ pret \in {Ok, ErrFeed, ErrInvalidPodName, "true", "false"}

(***************************************************************************)
(* Every key of a pod's directory map is the path and name of the inode    *)
(* it maps to, as mkdir_test.go checks with GetDirFromDirectoryMap(dirPath)*)
(* and GetDirInodePathAndName() == dirPath.  CreatePodINode maps the pod   *)
(* inode under "/" + podName; OpenPod maps the same inode under podName.   *)
(***************************************************************************)
DirMapKeyIsInodePath ==
    \A p \in AllPods : \A k \in DOMAIN dirMap[p] : k = getPath(dirMap[p][k])
=============================================================================
