----------------------------- MODULE MCDocument -----------------------------
(***************************************************************************)
(* Two clients.  The lost-create run has two DB names; the pass run has    *)
(* one DB, one id and three refs (an upload, its replacement and a racing *)
(* re-put); the field-index run has two ids sharing one field value.      *)
(***************************************************************************)
EXTENDS Document, TLC

CONSTANTS c1, c2, d1, d2, i1, i2, x, r1, r2, r3

MCClients == {c1, c2}
MCDBs == {d1, d2}

\* The state as the future behaviour depends on it: the locals of an idle
\* client (its last call, refs, copies and return value) are dead.
View ==
    <<schemas, idxFeed, idx, blobs, opened, pc, created,
      [c \in Clients |-> IF pc[c] = "idle" THEN <<>>
                         ELSE <<call[c], ref[c], oref[c], odoc[c], found[c], tables[c], todo[c]>>]>>

Symmetry == Permutations(MCClients) \cup Permutations(MCDBs)
=============================================================================
