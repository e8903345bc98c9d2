-------------------------------- MODULE User --------------------------------
(***************************************************************************)
(* The feeds a user account owns: the root feeds CreateRootFeeds makes     *)
(* (user/root_feed.go) and the encrypted mnemonic feed                     *)
(* (user/mnemonic_feed.go).  Each CreateFeed fails if its topic exists;    *)
(* with UserFaults every feed and blob call may also fail.  json.Marshal   *)
(* of the empty Name, Contacts, Inbox and Outbox never fails.              *)
(***************************************************************************)
EXTENDS Naturals, Sequences, FiniteSetsExt

CONSTANTS
    UserFaults,   \* TRUE: every feed and blob call may fail
    MaxRootCalls  \* CreateRootFeeds calls (the first and its retries)

VARIABLES
    rootFeeds,    \* root feed topics that exist under the root address
    uploads,      \* inbox and outbox blobs uploaded
    mnemonic,     \* the feed HashString(userName): "absent" or "stored"
    rootCalls,    \* CreateRootFeeds calls so far
    uret          \* what the last call returned

userVars == <<rootFeeds, uploads, mnemonic, rootCalls, uret>>

Nil == "nil"
ErrExists == "feed exists"
ErrCall == "call failed"
ErrNotFound == "feed not found"

\* The calls of CreateRootFeeds in order: CreateSettingsFeeds (name,
\* contacts, avatar), then CreateSharingFeeds (inbox blob and feed, outbox
\* blob and feed).  A blob call has no topic.
RootSteps ==
    << [topic |-> "name"], [topic |-> "contacts"], [topic |-> "avatar"],
       [topic |-> "none"], [topic |-> "inbox"],
       [topic |-> "none"], [topic |-> "outbox"] >>

IsFeedStep(i) == RootSteps[i].topic # "none"

\* Where a fault may strike: 0 is none.
FaultPoints == IF UserFaults THEN 0..Len(RootSteps) ELSE {0}

\* Call i returns an error: its topic exists, or the fault strikes it.
StepFails(i, fault) == (IsFeedStep(i) /\ RootSteps[i].topic \in rootFeeds) \/ i = fault

\* Every "if err != nil { return err }": the first call that fails ends it.
FirstFailure(fault) ==
    LET F == {i \in 1..Len(RootSteps) : StepFails(i, fault)}
    IN IF F = {} THEN Len(RootSteps) + 1 ELSE Min(F)

UserInit ==
    /\ rootFeeds = {}
    /\ uploads = 0
    /\ mnemonic = "absent"
    /\ rootCalls = 0
    /\ uret = Nil

\* CreateRootFeeds: CreateSettingsFeeds, then CreateSharingFeeds.
CreateRootFeeds ==
    /\ rootCalls < MaxRootCalls
    /\ \E fault \in FaultPoints :
        LET stop == FirstFailure(fault)
            done == 1..(stop - 1)
            failed == stop <= Len(RootSteps)
        IN /\ rootFeeds' = rootFeeds \cup {RootSteps[i].topic : i \in {j \in done : IsFeedStep(j)}}
           /\ uploads' = uploads + Cardinality({j \in done : ~IsFeedStep(j)})
           /\ uret' = IF ~failed THEN Nil
                      ELSE IF IsFeedStep(stop) /\ RootSteps[stop].topic \in rootFeeds
                           THEN ErrExists ELSE ErrCall
    /\ rootCalls' = rootCalls + 1
    /\ UNCHANGED mnemonic

\* uploadEncryptedMnemonic: CreateFeed(HashString(userName), ...).
uploadEncryptedMnemonic ==
    /\ \E fault \in BOOLEAN :
        /\ fault => UserFaults
        /\ IF mnemonic = "stored" THEN uret' = ErrExists /\ UNCHANGED mnemonic
           ELSE IF fault THEN uret' = ErrCall /\ UNCHANGED mnemonic
           ELSE uret' = Nil /\ mnemonic' = "stored"
    /\ UNCHANGED <<rootFeeds, uploads, rootCalls>>

\* getEncryptedMnemonic: GetFeedData of the same topic.
getEncryptedMnemonic ==
    /\ \E fault \in BOOLEAN :
        /\ fault => UserFaults
        /\ uret' = IF mnemonic = "absent" THEN ErrNotFound
                   ELSE IF fault THEN ErrCall ELSE "mnemonic"
    /\ UNCHANGED <<rootFeeds, uploads, mnemonic, rootCalls>>

\* deleteMnemonic: GetFeedData for the feed's address, then DeleteChunk.
deleteMnemonic ==
    /\ \E getFault, delFault \in BOOLEAN :
        /\ (getFault \/ delFault) => UserFaults
        /\ IF mnemonic = "absent" THEN uret' = ErrNotFound /\ UNCHANGED mnemonic
           ELSE IF getFault \/ delFault THEN uret' = ErrCall /\ UNCHANGED mnemonic
           ELSE uret' = Nil /\ mnemonic' = "absent"
    /\ UNCHANGED <<rootFeeds, uploads, rootCalls>>

UserNext ==
    \/ CreateRootFeeds
    \/ uploadEncryptedMnemonic
    \/ getEncryptedMnemonic
    \/ deleteMnemonic

-----------------------------------------------------------------------------
(* Properties.                                                             *)

UserTypeOK ==
    /\ rootFeeds \subseteq {RootSteps[i].topic : i \in {j \in 1..Len(RootSteps) : IsFeedStep(j)}}
    /\ uploads \in 0..(2 * MaxRootCalls)
    /\ mnemonic \in {"absent", "stored"}
    /\ uret \in {Nil, ErrExists, ErrCall, ErrNotFound, "mnemonic"}
=============================================================================
