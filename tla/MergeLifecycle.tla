--------------------------- MODULE MergeLifecycle ---------------------------
(***************************************************************************)
(* The merge states of a loop as the queue's operations mean them, each    *)
(* operation one atomic step.                                              *)
(***************************************************************************)
CONSTANT Loops

VARIABLE state      \* state[l]: "absent" or the loop's merge state

Init == state = [l \in Loops |-> "absent"]

Move(l, from, to) ==
    /\ state[l] \in from
    /\ state' = [state EXCEPT ![l] = to]

Enqueue(l)     == state' = [state EXCEPT ![l] = "queued"]
StartMerge(l)  == Move(l, {"queued", "needs_review"}, "merging")
Succeed(l)     == Move(l, {"merging"}, "merged")
NeedReview(l)  == Move(l, {"merging"}, "needs_review")
Abandon(l)     == Move(l, {"queued", "needs_review"}, "discarded")

Next ==
    \E l \in Loops :
        \/ Enqueue(l)
        \/ StartMerge(l)
        \/ Succeed(l)
        \/ NeedReview(l)
        \/ Abandon(l)

Spec == Init /\ [][Next]_state

=============================================================================
