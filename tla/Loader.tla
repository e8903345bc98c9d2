------------------------------ MODULE Loader ------------------------------
(***************************************************************************)
(* Index.syncIndex and loadIndexInMemory (src/pkg/collection/index.go):   *)
(* on OpenIndex the whole persisted trie is hydrated by goroutines, one    *)
(* per Intermediate entry, recursively, with a shared cancelable context   *)
(* and a one-slot error channel.  Each manifest's loop counts its leaves,  *)
(* spawns the goroutines of its branches, waits for them (sync.WaitGroup)  *)
(* and adds its count to idx.count atomically.                             *)
(*                                                                         *)
(* The trie is fixed while it loads (the index has a single writer and is  *)
(* being opened).  A manifest is a node; Entries[n] is its entry list, an  *)
(* Intermediate entry naming the node of its child.  A load of a node in   *)
(* bad fails (no feed, or undecodable); which nodes are bad is chosen at   *)
(* the start.                                                              *)
(***************************************************************************)
EXTENDS Naturals, Sequences, FiniteSets, FiniteSetsExt

CONSTANTS
    Nodes,      \* the manifests of the trie
    Root,       \* the root manifest, loaded by syncIndex itself
    Entries,    \* Nodes -> Seq([etype: {"L", "I"}, child: Nodes \cup {NoNode}])
    NoNode      \* the child of a Leaf entry

ASSUME Root \in Nodes /\ NoNode \notin Nodes

VARIABLES
    pc,         \* node -> where the goroutine loading it is
    pos,        \* node -> next entry its loadIndexInMemory loop looks at
    cnt,        \* node -> the local count of that loop
    count,      \* idx.count
    errC,       \* the error in the one-slot channel, or NoNode when empty
    cancelled,  \* ctx.Done() is closed
    attached,   \* node -> the child node assigned to each entry.manifest
    bad,        \* the nodes whose load fails
    result      \* what syncIndex returned: "pending", "ok" or "err"

vars == <<pc, pos, cnt, count, errC, cancelled, attached, bad, result>>

PCs == {"idle", "load", "check", "attach", "loop", "wait", "done"}

\* The positions of n's Intermediate entries, their children, a child's parent.
Branches(n) == {i \in DOMAIN Entries[n] : Entries[n][i].etype = "I"}
ChildOf(n, i) == Entries[n][i].child
Parent(c) == CHOOSE n \in Nodes : \E i \in Branches(n) : ChildOf(n, i) = c

-----------------------------------------------------------------------------
(* syncIndex has loaded the root; its loadIndexInMemory loop starts.       *)
Init ==
    /\ bad \in SUBSET (Nodes \ {Root})
    /\ pc = [n \in Nodes |-> IF n = Root THEN "loop" ELSE "idle"]
    /\ pos = [n \in Nodes |-> 1]
    /\ cnt = [n \in Nodes |-> 0]
    /\ count = 0
    /\ errC = NoNode
    /\ cancelled = FALSE
    /\ attached = [n \in Nodes |-> [i \in Branches(n) |-> NoNode]]
    /\ result = "pending"

(***************************************************************************)
(* One iteration of the range loop over n's entries: a Leaf adds to the    *)
(* local count; an Intermediate gets wg.Add(1) and its goroutine.  The     *)
(* loop ends in wg.Wait.                                                   *)
(***************************************************************************)
\* Mutant: the position also advances on the step that ends the loop.
LoopStepPastEnd(n) ==
    /\ pc[n] = "loop"
    /\ IF pos[n] > Len(Entries[n])
       THEN pc' = [pc EXCEPT ![n] = "wait"] /\ UNCHANGED cnt
       ELSE /\ IF Entries[n][pos[n]].etype = "I"
               THEN pc' = [pc EXCEPT ![ChildOf(n, pos[n])] = "load"] /\ UNCHANGED cnt
               ELSE cnt' = [cnt EXCEPT ![n] = @ + 1] /\ UNCHANGED pc
    /\ pos' = [pos EXCEPT ![n] = @ + 1]
    /\ UNCHANGED <<count, errC, cancelled, attached, bad, result>>

LoopStep(n) ==
    /\ pc[n] = "loop"
    /\ IF pos[n] > Len(Entries[n])
       THEN /\ pc' = [pc EXCEPT ![n] = "wait"]
            /\ UNCHANGED <<pos, cnt>>
       ELSE /\ IF Entries[n][pos[n]].etype = "I"
               THEN /\ pc' = [pc EXCEPT ![ChildOf(n, pos[n])] = "load"]
                    /\ UNCHANGED cnt
               ELSE /\ cnt' = [cnt EXCEPT ![n] = @ + 1]
                    /\ UNCHANGED pc
            /\ pos' = [pos EXCEPT ![n] = @ + 1]
    /\ UNCHANGED <<count, errC, cancelled, attached, bad, result>>

\* wg.Wait() returns once every goroutine the loop spawned is done; then
\* atomic.AddUint64(&idx.count, count).
\* Mutant: wg.Wait() left out, the count is added while children load.
AddWithoutWait(n) ==
    /\ pc[n] = "wait"
    /\ count' = count + cnt[n]
    /\ pc' = [pc EXCEPT ![n] = "done"]
    /\ UNCHANGED <<pos, cnt, errC, cancelled, attached, bad, result>>

WaitAndAdd(n) ==
    /\ pc[n] = "wait"
    /\ \A i \in Branches(n) : pc[ChildOf(n, i)] = "done"
    /\ count' = count + cnt[n]
    /\ pc' = [pc EXCEPT ![n] = "done"]
    /\ UNCHANGED <<pos, cnt, errC, cancelled, attached, bad, result>>

(***************************************************************************)
(* The goroutine of the branch to c: loadManifest fails for a bad node:    *)
(* the error goes into errC unless it is full (select with default), the   *)
(* context is cancelled, the goroutine returns.                            *)
(***************************************************************************)
\* Mutant: a blocking send on errC (the select without its default).
LoadFailsBlocking(c) ==
    /\ pc[c] = "load"
    /\ c \in bad
    /\ errC = NoNode
    /\ errC' = c
    /\ cancelled' = TRUE
    /\ pc' = [pc EXCEPT ![c] = "done"]
    /\ UNCHANGED <<pos, cnt, count, attached, bad, result>>

LoadFails(c) ==
    /\ pc[c] = "load"
    /\ c \in bad
    /\ errC' = IF errC = NoNode THEN c ELSE errC
    /\ cancelled' = TRUE
    /\ pc' = [pc EXCEPT ![c] = "done"]
    /\ UNCHANGED <<pos, cnt, count, attached, bad, result>>

LoadSucceeds(c) ==
    /\ pc[c] = "load"
    /\ c \notin bad
    /\ pc' = [pc EXCEPT ![c] = "check"]
    /\ UNCHANGED <<pos, cnt, count, errC, cancelled, attached, bad, result>>

\* select on ctx.Done(): return if another goroutine has failed.
CheckCancel(c) ==
    /\ pc[c] = "check"
    /\ pc' = [pc EXCEPT ![c] = IF cancelled THEN "done" ELSE "attach"]
    /\ UNCHANGED <<pos, cnt, count, errC, cancelled, attached, bad, result>>

(***************************************************************************)
(* entry.manifest = newManifest.  The closure reads entry, the range       *)
(* variable of the parent's loop, not its parameter ent: it is the entry   *)
(* that loop has reached now (the last one once the loop is over).  Then   *)
(* the goroutine runs loadIndexInMemory on the child.                      *)
(***************************************************************************)
Attach(c) ==
    LET n == Parent(c)
        current == IF pos[n] > Len(Entries[n]) THEN Len(Entries[n]) ELSE pos[n] - 1
    IN /\ pc[c] = "attach"
       /\ attached' = IF current \in Branches(n)
                      THEN [attached EXCEPT ![n][current] = c]
                      ELSE attached
       /\ pc' = [pc EXCEPT ![c] = "loop"]
       /\ UNCHANGED <<pos, cnt, count, errC, cancelled, bad, result>>

\* After the root's loop: a received error resets idx.count to 0 and is
\* returned; otherwise idx.memDB is set and nil returned.
Finish ==
    /\ pc[Root] = "done"
    /\ result = "pending"
    /\ IF errC # NoNode
       THEN count' = 0 /\ result' = "err"
       ELSE result' = "ok" /\ UNCHANGED count
    /\ UNCHANGED <<pc, pos, cnt, errC, cancelled, attached, bad>>

Next ==
    \/ \E n \in Nodes : LoopStep(n) \/ WaitAndAdd(n)
    \/ \E c \in Nodes \ {Root} :
        LoadFails(c) \/ LoadSucceeds(c) \/ CheckCancel(c) \/ Attach(c)
    \/ Finish

(***************************************************************************)
(* Every goroutine that can run eventually runs: the Go scheduler runs     *)
(* runnable goroutines, and syncIndex's caller is running.                 *)
(***************************************************************************)
Fairness ==
    /\ \A n \in Nodes : WF_vars(LoopStep(n)) /\ WF_vars(WaitAndAdd(n))
    /\ \A c \in Nodes \ {Root} :
        WF_vars(LoadFails(c) \/ LoadSucceeds(c) \/ CheckCancel(c) \/ Attach(c))
    /\ WF_vars(Finish)

Spec == Init /\ [][Next]_vars /\ Fairness

-----------------------------------------------------------------------------
(* Properties.                                                             *)

\* The nodes of the trie and its leaves.
RECURSIVE Below(_)
Below(n) == {n} \cup UNION {Below(ChildOf(n, i)) : i \in Branches(n)}
TreeNodes == Below(Root)
LeafCount(n) == Len(Entries[n]) - Cardinality(Branches(n))
LeavesBelow(n) == MapThenSumSet(LeafCount, Below(n))

TypeOK ==
    /\ pc \in [Nodes -> PCs]
    /\ \A n \in Nodes : pos[n] \in 1..Len(Entries[n]) + 1
    /\ cnt \in [Nodes -> Nat] /\ count \in Nat
    /\ errC \in Nodes \cup {NoNode} /\ cancelled \in BOOLEAN
    /\ bad \subseteq Nodes /\ result \in {"pending", "ok", "err"}

(***************************************************************************)
(* syncIndex reports the outcome the spec promises (4.5): nil with         *)
(* idx.count the number of leaves of the whole trie when no manifest      *)
(* failed to load, an error with idx.count = 0 when one did.  This needs   *)
(* every goroutine to have added its count before the root's wg.Wait      *)
(* returns, and no failure to be lost by the non-blocking send.            *)
(***************************************************************************)
SyncOutcome ==
    /\ result = "ok" => count = LeavesBelow(Root) /\ bad \cap TreeNodes = {}
    /\ result = "err" => count = 0 /\ bad \cap TreeNodes # {}

(***************************************************************************)
(* syncIndex returns: no goroutine blocks for ever, on the error channel  *)
(* or on a WaitGroup, whichever loads fail and in whatever order.          *)
(***************************************************************************)
SyncTerminates == <>(result # "pending")

(***************************************************************************)
(* When syncIndex returns nil, every Intermediate entry of the in-memory   *)
(* trie (idx.memDB) holds the manifest of its own child.                   *)
(***************************************************************************)
AttachedToOwnEntry ==
    result = "ok" =>
        \A n \in TreeNodes : \A i \in Branches(n) : attached[n][i] = ChildOf(n, i)
=============================================================================
