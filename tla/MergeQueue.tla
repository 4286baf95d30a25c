----------------------------- MODULE MergeQueue -----------------------------
(***************************************************************************)
(* merge_queue.rs: an append-only log of merge events shared by every      *)
(* ralph process of a repository.  Clients stands for those processes      *)
(* (worktree loops, merge loops, `ralph loops ...` commands, the API       *)
(* server); any of them may call any operation at any time.                *)
(*                                                                         *)
(* enqueue appends without looking.  Every other operation reads the file  *)
(* under a shared flock, releases it, decides, and then appends under an   *)
(* exclusive flock: two critical sections, two actions here.  A process    *)
(* may die between them, or inside the append.                             *)
(***************************************************************************)
EXTENDS MergeLog, FiniteSets

CONSTANTS
    Clients,    \* processes that use the queue
    Idle,       \* not a line: the client is between operations
    MaxLog,     \* bound: lines written to the file
    MaxTorn     \* bound: appends cut short by a crash

ASSUME MergeQueueAssumption ==
    /\ Idle \notin Line
    /\ MaxLog \in Nat
    /\ MaxTorn \in Nat

VARIABLES
    log,        \* the file
    pend        \* pend[c]: the line client c has decided to append, or Idle

vars == <<log, pend>>

\* Mutant: write! for writeln!.
EventNoNewline(l, kind, n) == [loop |-> l, kind |-> kind, eol |-> FALSE, seen |-> n]

\* A line as the writer builds it, having read the first n lines.
Event(l, kind, n) == [loop |-> l, kind |-> kind, eol |-> TRUE, seen |-> n]

Pending == [loop : Loops, kind : Kinds, eol : {TRUE}, seen : Nat]

\* What reaches the file when the writer dies: all but the newline, or less.
Remains(line) == {[line EXCEPT !.eol = FALSE],
                  [line EXCEPT !.eol = FALSE, !.loop = NoLoop, !.kind = "torn"]}

Init ==
    /\ log = <<>>
    /\ pend = [c \in Clients |-> Idle]

-----------------------------------------------------------------------------
\* enqueue: whatever state the loop is in, or none.
Enqueue(c, l) ==
    /\ pend[c] = Idle
    /\ pend' = [pend EXCEPT ![c] = Event(l, "queued", Len(log))]
    /\ UNCHANGED log

\* Mutant: the state is read and not looked at.
CheckNothing(c, l, kind) ==
    /\ pend[c] = Idle
    /\ Readable(log)
    /\ pend' = [pend EXCEPT ![c] = Event(l, kind, Len(log))]
    /\ UNCHANGED log

(***************************************************************************)
(* The first half of mark_merging, mark_merged, mark_needs_review and      *)
(* discard: read the file, look at the loop's state.  A file that does not *)
(* parse, an unknown loop or a wrong state ends the operation with an      *)
(* error and changes nothing.                                              *)
(***************************************************************************)
Check(c, l, kind) ==
    /\ pend[c] = Idle
    /\ Readable(log)
    /\ InStates(log, l, From(kind))
    /\ pend' = [pend EXCEPT ![c] = Event(l, kind, Len(log))]
    /\ UNCHANGED log

MarkMerging(c, l)     == Check(c, l, "merging")
MarkMerged(c, l)      == Check(c, l, "merged")
MarkNeedsReview(c, l) == Check(c, l, "needs_review")
Discard(c, l)         == Check(c, l, "discarded")

\* Mutant: the file is opened with truncate.
RewriteFile(c) ==
    /\ pend[c] # Idle
    /\ log' = <<pend[c]>>
    /\ pend' = [pend EXCEPT ![c] = Idle]

\* The second half, append_event: the state is not looked at again.
AppendEvent(c) ==
    /\ pend[c] # Idle
    /\ Len(log) < MaxLog
    /\ log' = Append(log, pend[c])
    /\ pend' = [pend EXCEPT ![c] = Idle]

\* The process dies after it decided and before it wrote.
CrashBeforeAppend(c) ==
    /\ pend[c] # Idle
    /\ pend' = [pend EXCEPT ![c] = Idle]
    /\ UNCHANGED log

\* The process dies inside writeln!: in the JSON, or before the newline.
CrashInAppend(c) ==
    /\ pend[c] # Idle
    /\ Len(log) < MaxLog
    /\ Cardinality({i \in DOMAIN log : ~log[i].eol}) < MaxTorn
    /\ \E line \in Remains(pend[c]) : log' = Append(log, line)
    /\ pend' = [pend EXCEPT ![c] = Idle]

Next ==
    \/ \E c \in Clients, l \in Loops :
        \/ Enqueue(c, l)
        \/ MarkMerging(c, l)
        \/ MarkMerged(c, l)
        \/ MarkNeedsReview(c, l)
        \/ Discard(c, l)
    \/ \E c \in Clients :
        \/ AppendEvent(c)
        \/ CrashBeforeAppend(c)
        \/ CrashInAppend(c)

Spec == Init /\ [][Next]_vars

-----------------------------------------------------------------------------
\* The file is lines, and what a client is about to append is a whole event.
TypeOK ==
    /\ log \in Seq(Line)
    /\ pend \in [Clients -> Pending \cup {Idle}]

(***************************************************************************)
(* Every event in the file was legal in the prefix its writer had read:    *)
(* no interleaving and no crash makes an operation decide on a state the   *)
(* file never showed.                                                      *)
(***************************************************************************)
ReadsJustify ==
    \A i \in DOMAIN log :
        log[i].kind \in Checked =>
            /\ log[i].seen < i
            /\ \E k \in From(log[i].kind) :
                 InStateAt(log, log[i].seen, log[i].loop, k)

(***************************************************************************)
(* The history of a loop makes sense whoever wrote it: a merge that ended, *)
(* well or badly, had begun, and a merge that began, or a discard, was of  *)
(* a loop that had been queued.  Nothing serialises the writers, so this   *)
(* is what the readers of the file may rely on.                            *)
(***************************************************************************)
HistoryMakesSense ==
    \A i \in DOMAIN log :
        log[i].kind \in Checked =>
            \E j \in 1..i-1 :
                /\ log[j].loop = log[i].loop
                /\ log[j].kind = IF log[i].kind \in {"merged", "needs_review"}
                                 THEN "merging" ELSE "queued"

(***************************************************************************)
(* The inductive invariant.  ReadsJustify and HistoryMakesSense speak of   *)
(* the file; what carries them over an append is that the line a client is *)
(* holding was justified by the prefix the client read, and that a prefix  *)
(* of the file never changes.                                              *)
(***************************************************************************)
PendJustified ==
    \A c \in Clients :
        pend[c] # Idle /\ pend[c].kind \in Checked =>
            /\ pend[c].seen <= Len(log)
            /\ \E k \in From(pend[c].kind) :
                 InStateAt(log, pend[c].seen, pend[c].loop, k)

IInv == TypeOK /\ PendJustified /\ ReadsJustify /\ HistoryMakesSense

-----------------------------------------------------------------------------
(***************************************************************************)
(* What any number of uncoordinated clients implement: per loop, a set of  *)
(* facts that only grows, each resting on an earlier one.                  *)
(***************************************************************************)
Happened == [l \in Loops |-> {k \in Kinds : \E i \in DOMAIN log :
                                  log[i].loop = l /\ log[i].kind = k}]

History == INSTANCE MergeHistory WITH happened <- Happened
HistorySpec == History!Spec

(***************************************************************************)
(* What a single client implements: the state machine of the design note,  *)
(* plus the discard, and an enqueue from anywhere.                         *)
(***************************************************************************)
Status == [l \in Loops |-> IF Absent(log, l) THEN "absent"
                           ELSE CHOOSE k \in Kinds : InState(log, l, k)]

Lifecycle == INSTANCE MergeLifecycle WITH state <- Status
LifecycleSpec == Lifecycle!Spec

=============================================================================
