------------------------------ MODULE PathLocks ------------------------------
(* What the path-claims of the blackboard ledger promise: a path has at most *)
(* one owner, and only its owner gives it up.                                *)
CONSTANTS Holders, Paths, Nobody

VARIABLE owner

Init == owner = [q \in Paths |-> Nobody]

Acquire(h, q) ==
  /\ owner[q] \in {Nobody, h}
  /\ owner' = [owner EXCEPT ![q] = h]

Release(h, q) ==
  /\ owner[q] = h
  /\ owner' = [owner EXCEPT ![q] = Nobody]

Next == \E h \in Holders, q \in Paths : Acquire(h, q) \/ Release(h, q)

Spec == Init /\ [][Next]_owner
=============================================================================
