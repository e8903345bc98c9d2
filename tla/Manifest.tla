------------------------------ MODULE Manifest ------------------------------
(***************************************************************************)
(* The trie node of src/pkg/collection/index.go: a manifest is an ordered  *)
(* sequence of entries, an entry is a Leaf (a key suffix and the blob      *)
(* reference stored under it) or an Intermediate (a key fragment leading   *)
(* to a child manifest).  Keys and entry names are sequences of            *)
(* characters; a character is a natural number so that the byte           *)
(* comparison entry.Name[0] > key[0] of the code is the order of Nat.      *)
(*                                                                         *)
(* This module holds the pure helpers of index.go that the trie            *)
(* operations share; it has no variables.                                  *)
(***************************************************************************)
EXTENDS Naturals, Sequences, SequencesExt

CONSTANTS
    Chars,      \* the characters keys are made of, a finite set of naturals
    Vals,       \* blob references a Leaf entry can hold
    NoRef       \* the nil Ref of an Intermediate entry built by a split

ASSUME Chars \subseteq Nat /\ NoRef \notin Vals

\* The two entry types, LeafEntry = "L" and IntermediateEntry = "I".
LeafEntry == "L"
IntermediateEntry == "I"

\* &Entry{Name: name, EType: LeafEntry, Ref: ref}
Leaf(name, ref) == [name |-> name, etype |-> LeafEntry, ref |-> ref]

\* &Entry{Name: name, EType: IntermediateEntry}: the Ref is left nil.
Intermediate(name) == [name |-> name, etype |-> IntermediateEntry, ref |-> NoRef]

(***************************************************************************)
(* longestCommonPrefix: the empty string when either argument is empty,    *)
(* otherwise the characters the two share from the start.                  *)
(***************************************************************************)
RECURSIVE longestCommonPrefix(_, _)
longestCommonPrefix(str1, str2) ==
    IF str1 = <<>> \/ str2 = <<>> \/ Head(str1) # Head(str2)
    THEN <<>>
    ELSE <<Head(str1)>> \o longestCommonPrefix(Tail(str1), Tail(str2))

\* strings.TrimPrefix(s, p): s without p when p is a prefix of s, else s.
TrimPrefix(s, p) == IF IsPrefix(p, s) THEN SubSeq(s, Len(p) + 1, Len(s)) ELSE s

\* Mutant: the entry is appended, whatever its name.
addEntryAppended(entries, entryToAdd) == Append(entries, entryToAdd)

(***************************************************************************)
(* addEntryToManifestSortedLexicographically: the first entry goes in      *)
(* alone, an entry with an empty name goes to the front, any other goes    *)
(* just before the first named entry whose first character is greater     *)
(* than its own, or at the end.                                            *)
(***************************************************************************)
addEntryToManifestSortedLexicographically(entries, entryToAdd) ==
    IF entries = <<>> THEN <<entryToAdd>>
    ELSE IF entryToAdd.name = <<>> THEN <<entryToAdd>> \o entries
    ELSE LET greater == {j \in DOMAIN entries :
                            /\ entries[j].name # <<>>
                            /\ entries[j].name[1] > entryToAdd.name[1]}
         IN IF greater = {} THEN Append(entries, entryToAdd)
            ELSE InsertAt(entries, Min(greater), entryToAdd)

-----------------------------------------------------------------------------
(* Ordering of the entries of a manifest (spec section 3).                 *)

\* Entries with an empty name come before every named entry.
EmptyNamesFirst(entries) ==
    \A i, j \in DOMAIN entries :
        i < j /\ entries[j].name = <<>> => entries[i].name = <<>>

\* Named entries are in ascending order of their first character.
FirstCharsAscending(entries) ==
    \A i, j \in DOMAIN entries :
        /\ i < j
        /\ entries[i].name # <<>>
        /\ entries[j].name # <<>>
        => entries[i].name[1] <= entries[j].name[1]

=============================================================================
