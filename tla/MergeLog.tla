------------------------------ MODULE MergeLog ------------------------------
(***************************************************************************)
(* The merge queue's file, .ralph/merge-queue.jsonl, as data: what a line  *)
(* records, when the file can be read back, which state it gives a loop,   *)
(* and which states each operation of merge_queue.rs may leave.            *)
(*                                                                         *)
(* Everything here is constant level, so the queue (MergeQueue) and the    *)
(* system of processes around it (ParallelLoops) read one definition.      *)
(***************************************************************************)
EXTENDS Naturals, Sequences

CONSTANTS
    Loops,      \* loop ids, the names of worktree loops
    NoLoop      \* not a loop id: what a line cut short names

ASSUME NoLoopAssumption == NoLoop \notin Loops

\* The event of a line, which is also the state it puts its loop in.
Kinds == {"queued", "merging", "merged", "needs_review", "discarded"}

(***************************************************************************)
(* One write to the file.  eol is whether the newline got there: the event *)
(* and its newline are two writes.  A line cut inside the JSON names no    *)
(* loop and has kind "torn".  seen is the length of the file when the      *)
(* writer last read it (an auxiliary field, not in the file): the          *)
(* operations check the state under one lock and append under another.     *)
(***************************************************************************)
Line == [loop : Loops \cup {NoLoop}, kind : Kinds \cup {"torn"},
         eol : BOOLEAN, seen : Nat]

\* The states from which each checked operation may proceed.
From(kind) ==
    CASE kind = "merging"      -> {"queued", "needs_review"}
      [] kind = "merged"       -> {"merging"}
      [] kind = "needs_review" -> {"merging"}
      [] kind = "discarded"    -> {"queued", "needs_review"}

Checked == Kinds \ {"queued"}

(***************************************************************************)
(* read_all_events gives up on the first line that is not JSON: a torn     *)
(* line, or a line without a newline that a later event was glued to.      *)
(***************************************************************************)
Readable(log) ==
    \A i \in DOMAIN log :
        /\ log[i].kind # "torn"
        /\ i < Len(log) => log[i].eol

\* Among the first n lines, the last one that names l records kind.
InStateAt(log, n, l, kind) ==
    \E i \in 1..n :
        /\ log[i].loop = l
        /\ log[i].kind = kind
        /\ \A j \in i+1..n : log[j].loop # l

\* derive_state: the last event of a loop decides its state.
InState(log, l, kind) == InStateAt(log, Len(log), l, kind)

InStates(log, l, kinds) == \E kind \in kinds : InState(log, l, kind)

\* get_entry returns None.
Absent(log, l) == \A i \in DOMAIN log : log[i].loop # l

=============================================================================
