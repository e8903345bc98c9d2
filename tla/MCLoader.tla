------------------------------ MODULE MCLoader ------------------------------
(* A trie of five manifests:  root = [L, I->m1, I->m2, L],                *)
(* m1 = [L, I->m3, L], m2 = [L], m3 = [L, L].  Two branches of the root    *)
(* load concurrently, m3 below one of them; any non-root manifest may fail.*)
EXTENDS Loader

CONSTANTS r, m1, m2, m3, none

L == [etype |-> "L", child |-> none]
I(c) == [etype |-> "I", child |-> c]

MCNodes == {r, m1, m2, m3}
MCEntries ==
    [n \in MCNodes |->
        CASE n = r  -> <<L, I(m1), I(m2), L>>
          [] n = m1 -> <<L, I(m3), L>>
          [] n = m2 -> <<L>>
          [] n = m3 -> <<L, L>>]
=============================================================================
