------------------------------- MODULE MCHats -------------------------------
EXTENDS Hats

On(names) == {T(n) : n \in names}
Hats2(a, b) == [h \in Hats |-> IF h = 1 THEN a ELSE b]

\* Two hats that hand over to one another, with and without a scope; two hats
\* whose patterns overlap; a hat for everything and one that waits for its end.
Handover ==
  [subs |-> Hats2(On({"start", "done"}), On({"built"})), wild |-> {},
   publishes |-> Hats2(On({"built"}), On({"done", "complete"})),
   default |-> Hats2(T("built"), T("complete")),
   max |-> Hats2(2, 1), scope |-> FALSE]
Overlap ==
  [subs |-> Hats2(On({"built"}), On({"built", "done"})), wild |-> {},
   publishes |-> Hats2(On({"done"}), On({"built"})),
   default |-> Hats2(NoTopic, T("built")),
   max |-> Hats2(1, 9), scope |-> FALSE]
CatchAll ==
  [subs |-> Hats2({}, {Exhausted(1)} \cup On({"done"})), wild |-> {1},
   publishes |-> Hats2(On({"built"}), On({"done"})),
   default |-> Hats2(T("done"), NoTopic),
   max |-> Hats2(1, 1), scope |-> TRUE]
Configured ==
  {Handover, [Handover EXCEPT !.scope = TRUE], Overlap, CatchAll}
=============================================================================
