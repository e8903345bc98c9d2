----------------------------- MODULE MCAccount -----------------------------
(***************************************************************************)
(* One user session: its account feeds (User) and its pods (Pod), whose   *)
(* calls interleave.  Pods p1, p2 (own), s1 (shared), o1 (in neither      *)
(* file); directories d1, d2, one level below a pod.                      *)
(***************************************************************************)
EXTENDS User, Pod

CONSTANTS p1, p2, s1, o1, d1, d2

Init == UserInit /\ PodInit

Next == (UserNext /\ UNCHANGED podVars) \/ (PodNext /\ UNCHANGED userVars)

vars == <<userVars, podVars>>

Spec == Init /\ [][Next]_vars
=============================================================================
