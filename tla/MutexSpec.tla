------------------------------ MODULE MutexSpec ------------------------------
(***************************************************************************)
(* What a mutex promises: at any time at most one thread is inside, a      *)
(* thread enters only when nobody is, and only the thread inside leaves.   *)
(***************************************************************************)
CONSTANTS Thread, Nobody
VARIABLE owner

Init == owner = Nobody

Enter(t) == owner = Nobody /\ owner' = t
Leave(t) == owner = t /\ owner' = Nobody

Next == \E t \in Thread : Enter(t) \/ Leave(t)

Spec == Init /\ [][Next]_owner
=============================================================================
