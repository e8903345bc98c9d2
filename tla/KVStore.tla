------------------------------ MODULE KVStore ------------------------------
(***************************************************************************)
(* What an Index promises its callers (spec sections 4 and 8): a map from *)
(* keys to blob references.  A Put that succeeds sets its key, a Delete    *)
(* of a present key unsets it and returns the reference it held, a Get     *)
(* returns the reference or fails when there is none.  A Put or Delete     *)
(* may fail (a storage error) and then changes nothing.  res is the last   *)
(* operation and what it returned.                                         *)
(***************************************************************************)
CONSTANTS Keys, Vals, Missing

ASSUME Missing \notin Vals

VARIABLES dict, res

vars == <<dict, res>>

Result(op, k, v, ok, ret) == [op |-> op, key |-> k, val |-> v, ok |-> ok, ret |-> ret]

Init ==
    /\ dict = [k \in Keys |-> Missing]
    /\ res = Result("none", <<>>, Missing, TRUE, Missing)

Put(k, v) ==
    /\ dict' = [dict EXCEPT ![k] = v]
    /\ res' = Result("put", k, v, TRUE, Missing)

Get(k) ==
    /\ res' = Result("get", k, Missing, dict[k] # Missing, dict[k])
    /\ UNCHANGED dict

Delete(k) ==
    /\ dict[k] # Missing
    /\ dict' = [dict EXCEPT ![k] = Missing]
    /\ res' = Result("delete", k, Missing, TRUE, dict[k])

\* A failed Put, or a Delete of a missing key or that failed: no change.
Fail(op, k, v) ==
    /\ op = "put" \/ op = "delete"
    /\ res' = Result(op, k, v, FALSE, Missing)
    /\ UNCHANGED dict

Next ==
    \E k \in Keys :
        \/ \E v \in Vals : Put(k, v) \/ Fail("put", k, v)
        \/ Get(k)
        \/ Delete(k)
        \/ Fail("delete", k, Missing)

Spec == Init /\ [][Next]_vars
=============================================================================
