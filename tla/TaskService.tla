----------------------------- MODULE TaskService ----------------------------
(***************************************************************************)
(* What a thread pool promises its event loop: tasks start in the order in *)
(* which they were submitted, run once, and are reported complete once,    *)
(* after they ran.                                                         *)
(***************************************************************************)
EXTENDS Sequences

CONSTANT Task

VARIABLES
    pending,    \* the tasks submitted and not started, in order
    stage       \* where each task is

vars == <<pending, stage>>

Move(t, from, to) == stage[t] = from /\ stage' = [stage EXCEPT ![t] = to]

Init == pending = <<>> /\ stage = [t \in Task |-> "free"]

Submit(t) == Move(t, "free", "pending") /\ pending' = Append(pending, t)

Start ==
    /\ pending # <<>>
    /\ Move(Head(pending), "pending", "running")
    /\ pending' = Tail(pending)

Finish(t) == Move(t, "running", "finished") /\ UNCHANGED pending

Complete(t) == Move(t, "finished", "free") /\ UNCHANGED pending

Next == Start \/ \E t \in Task : Submit(t) \/ Finish(t) \/ Complete(t)

Spec == Init /\ [][Next]_vars
=============================================================================
