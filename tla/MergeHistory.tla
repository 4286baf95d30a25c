---------------------------- MODULE MergeHistory ----------------------------
(***************************************************************************)
(* What the merge queue promises whoever uses it at once: which events a   *)
(* loop has ever had.  Facts are only added, and each one but "queued"     *)
(* rests on a fact that was there before it.                               *)
(***************************************************************************)
CONSTANT Loops

VARIABLE happened       \* happened[l]: the kinds of event loop l has had

\* At least one of these came first.
RestsOn(kind) ==
    IF kind \in {"merging", "discarded"} THEN {"queued", "needs_review"}
                                         ELSE {"merging"}

Init == happened = [l \in Loops |-> {}]

Queue(l) == happened' = [happened EXCEPT ![l] = @ \cup {"queued"}]

Record(l, kind) ==
    /\ RestsOn(kind) \cap happened[l] # {}
    /\ happened' = [happened EXCEPT ![l] = @ \cup {kind}]

Next ==
    \E l \in Loops :
        \/ Queue(l)
        \/ \E kind \in {"merging", "merged", "needs_review", "discarded"} :
              Record(l, kind)

Spec == Init /\ [][Next]_happened

=============================================================================
