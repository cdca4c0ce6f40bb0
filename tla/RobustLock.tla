----------------------------- MODULE RobustLock -----------------------------
(***************************************************************************)
(* What a mutex shared by processes that may be killed promises: one owner *)
(* at a time, given up by the owner itself or, once the owner is dead, on  *)
(* its behalf; a process comes back only when it owns nothing.             *)
(***************************************************************************)
CONSTANTS Worker, None

VARIABLES owner, alive

vars == <<owner, alive>>

Init == owner = None /\ alive = [p \in Worker |-> TRUE]

Acquire(p) == alive[p] /\ owner = None /\ owner' = p /\ UNCHANGED alive

Release(p) == alive[p] /\ owner = p /\ owner' = None /\ UNCHANGED alive

Die(p) == alive[p] /\ alive' = [alive EXCEPT ![p] = FALSE] /\ UNCHANGED owner

Recover(p) == ~alive[p] /\ owner = p /\ owner' = None /\ UNCHANGED alive

Return(p) ==
    ~alive[p] /\ owner # p /\ alive' = [alive EXCEPT ![p] = TRUE] /\ UNCHANGED owner

Next == \E p \in Worker :
    Acquire(p) \/ Release(p) \/ Die(p) \/ Recover(p) \/ Return(p)

Spec == Init /\ [][Next]_vars
=============================================================================
