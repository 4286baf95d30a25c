--------------------------- MODULE ParallelLoops ---------------------------
(***************************************************************************)
(* The processes of one repository, around the loop lock and the merge     *)
(* queue: `ralph run` (main.rs, loop_runner.rs, loop_completion.rs), the   *)
(* merge-ralph processes it spawns, and the commands of `ralph loops` and  *)
(* the API (loops.rs, loop_domain.rs) that touch the same files.           *)
(*                                                                         *)
(*   a run      takes the lock and is the primary loop, or is refused and  *)
(*              becomes the worktree loop of its own name                  *)
(*   a merger   waits for the lock and merges one worktree loop            *)
(*   a user     runs one command: process, retry, merge (of a queued loop, *)
(*              or of an orphan worktree), discard, or the API's merge     *)
(*                                                                         *)
(* The queue's operations are MergeQueue's actions: a read, and later an   *)
(* append.  LoopLock has the lock's own steps; here it is its holder.      *)
(***************************************************************************)
EXTENDS MergeLog, FiniteSets

CONSTANTS
    Mergers,    \* merge-ralph processes; bound: no more of them are spawned
    Users,      \* processes that run one command
    Commands,   \* the commands users run
    Nobody,     \* no process
    Idle,       \* MergeQueue: the process is between queue operations
    MaxLog,     \* bound: lines in the queue's file
    MaxTorn,    \* bound: appends cut short by a crash
    MaxDead     \* bound: processes that crash

Procs == Loops \cup Mergers \cup Users

ASSUME ParallelLoopsAssumption ==
    /\ Nobody \notin Procs
    /\ NoLoop \notin Procs
    /\ Idle \notin Line
    /\ Loops \cap (Mergers \cup Users) = {}
    /\ Mergers \cap Users = {}
    /\ Commands \subseteq {"process", "retry", "merge", "orphan",
                      "discard", "api"}
    /\ MaxLog \in Nat
    /\ MaxTorn \in Nat
    /\ MaxDead \in Nat

VARIABLES
    log, pend,  \* the merge queue
    holder,     \* the process that has .ralph/loop.lock
    pc,         \* pc[p]: where process p is
    job,        \* job[p]: the loop that merger or command p is about
    todo,       \* todo[p]: loops p has yet to spawn a merger for
    trees,      \* loops whose worktree exists
    registered, \* loops with an entry in .ralph/loops.json
    landed      \* loops whose branch is merged into the main branch

queue == <<log, pend>>
files == <<trees, registered, landed>>
vars == <<log, pend, holder, pc, job, todo, trees, registered, landed>>

Queue == INSTANCE MergeQueue WITH Clients <- Procs

(***************************************************************************)
(* new: not started, or not spawned.  trying, waiting: before the lock.    *)
(* starting: has the lock, up to the end of preflight (its metadata is     *)
(* being written at first).  setup: a worktree loop before the end of      *)
(* preflight.  marking: a merger before its mark_merging.  looping: the    *)
(* event loop.  completed, stopped: the event loop ended with, or without, *)
(* the completion promise.  processing, spawning: process_pending_merges.  *)
(* exiting: the last steps of handle_termination.  Then the phases of      *)
(* commands.                                                               *)
(***************************************************************************)
Phases == {"new", "trying", "waiting", "starting", "setup", "marking",
           "looping", "completed", "stopped", "processing", "spawning",
           "exiting", "discarding", "removing", "queueing", "reserving",
           "claiming", "failed", "dead", "gone"}

Ended == {"failed", "dead", "gone"}

Init ==
    /\ Queue!Init
    /\ holder = Nobody
    /\ pc = [p \in Procs |-> "new"]
    /\ job = [p \in Procs |-> NoLoop]
    /\ todo = [p \in Procs |-> <<>>]
    /\ trees = {}
    /\ registered = {}
    /\ landed = {}

Goto(p, phase) == pc' = [pc EXCEPT ![p] = phase]

\* What a process reads of the queue: get_entry, or an error.
Reads(l, kinds) == Readable(log) /\ InStates(log, l, kinds)

-----------------------------------------------------------------------------
(* Starting up: main.rs, run_command.                                      *)

Start(r) ==
    /\ pc[r] = "new"
    /\ Goto(r, "trying")
    /\ UNCHANGED <<queue, holder, job, todo, files>>

\* Mutant: the lock is not looked at.
TakeLockAnyway(p) ==
    /\ pc[p] \in {"trying", "waiting"}
    /\ holder' = p
    /\ Goto(p, "starting")
    /\ UNCHANGED <<queue, job, todo, files>>

\* try_acquire, or for a merger that waits acquire_blocking, gets the lock.
TakeLock(p) ==
    /\ pc[p] \in {"trying", "waiting"}
    /\ holder = Nobody
    /\ holder' = p
    /\ Goto(p, "starting")
    /\ UNCHANGED <<queue, job, todo, files>>

\* AlreadyLocked: a merger is --exclusive and waits.
WaitForLock(m) ==
    /\ pc[m] = "trying"
    /\ holder # Nobody
    /\ Goto(m, "waiting")
    /\ UNCHANGED <<queue, holder, job, todo, files>>

\* AlreadyLocked: a run creates the worktree it will run in.
GoToWorktree(r) ==
    /\ pc[r] = "trying"
    /\ holder # Nobody
    /\ trees' = trees \cup {r}
    /\ Goto(r, "setup")
    /\ UNCHANGED <<queue, holder, job, todo, registered, landed>>

\* Refused while the holder's metadata is half written: ParseError, the end.
ParseFails(p) ==
    /\ pc[p] = "trying"
    /\ holder # Nobody
    /\ pc[holder] = "starting"
    /\ Goto(p, "failed")
    /\ UNCHANGED <<queue, holder, job, todo, files>>

\* Preflight passes; a worktree loop registers; the event loop is set up.
Preflight(p) ==
    /\ pc[p] \in {"starting", "setup"}
    /\ registered' = IF pc[p] = "setup" THEN registered \cup {p} ELSE registered
    /\ Goto(p, IF p \in Mergers THEN "marking" ELSE "looping")
    /\ UNCHANGED <<queue, holder, job, todo, trees, landed>>

\* Mutant: the worktree a merger is about is removed too.
PreflightRemoves(p) ==
    /\ pc[p] \in {"starting", "setup"}
    /\ trees' = trees \ {p, job[p]}
    /\ holder' = IF holder = p THEN Nobody ELSE holder
    /\ Goto(p, "failed")
    /\ UNCHANGED <<queue, job, todo, registered, landed>>

\* Preflight fails: the new worktree is removed, the lock guard dropped.
PreflightFails(p) ==
    /\ pc[p] \in {"starting", "setup"}
    /\ trees' = trees \ (IF pc[p] = "setup" THEN {p} ELSE {})
    /\ holder' = IF holder = p THEN Nobody ELSE holder
    /\ Goto(p, "failed")
    /\ UNCHANGED <<queue, job, todo, registered, landed>>

-----------------------------------------------------------------------------
(* The event loop, and what surrounds it: loop_runner.rs, run_loop_impl.   *)

\* A merger finds its entry waiting and decides to mark it merging.
MarkMerging(m) ==
    /\ pc[m] = "marking"
    /\ Queue!MarkMerging(m, job[m])
    /\ UNCHANGED <<holder, pc, job, todo, files>>

\* Mutant: the entry is not marked.
MarkMergingForgotten(m) ==
    /\ pc[m] = "marking"
    /\ pend[m] = Idle
    /\ Goto(m, "looping")
    /\ UNCHANGED <<queue, holder, job, todo, files>>

\* NotFound, InvalidTransition, ParseError: a log line, and the merge runs.
MarkMergingSkipped(m) ==
    /\ pc[m] = "marking"
    /\ pend[m] = Idle
    /\ ~Reads(job[m], From("merging"))
    /\ Goto(m, "looping")
    /\ UNCHANGED <<queue, holder, job, todo, files>>

\* External: the agent of a merger merges the branch into the main workspace
\* and removes the worktree with its branch (presets/merge-loop.yml).
MergesBranch(m) ==
    /\ m \in Mergers
    /\ pc[m] = "looping"
    /\ job[m] \in trees
    /\ landed' = landed \cup {job[m]}
    /\ trees' = trees \ {job[m]}
    /\ UNCHANGED <<queue, holder, pc, job, todo, registered>>

\* The completion promise, which a merger's agent gives once it has merged.
Completes(p) ==
    /\ pc[p] = "looping"
    /\ p \in Mergers => job[p] \in landed
    /\ Goto(p, "completed")
    /\ UNCHANGED <<queue, holder, job, todo, files>>

\* Any other TerminationReason.
Stops(p) ==
    /\ pc[p] = "looping"
    /\ Goto(p, "stopped")
    /\ UNCHANGED <<queue, holder, job, todo, files>>

-----------------------------------------------------------------------------
(* handle_termination: for a merger the outcome goes to the queue ...      *)

\* Mutant: the reason of the termination is not looked at.
MarkMergedAnyway(m) ==
    /\ pc[m] \in {"completed", "stopped"}
    /\ Queue!MarkMerged(m, job[m])
    /\ UNCHANGED <<holder, pc, job, todo, files>>

MarkMerged(m) ==
    /\ pc[m] = "completed"
    /\ Queue!MarkMerged(m, job[m])
    /\ UNCHANGED <<holder, pc, job, todo, files>>

\* Stopped, or completed and git does not say which commit.
MarkNeedsReview(m) ==
    /\ pc[m] \in {"completed", "stopped"}
    /\ Queue!MarkNeedsReview(m, job[m])
    /\ UNCHANGED <<holder, pc, job, todo, files>>

\* Where p goes on once its outcome is in the queue, or was refused.
AfterOutcome(p) == IF p \in Mergers /\ pc[p] = "completed" THEN "processing"
                                                           ELSE "exiting"

\* The loop is not merging any more: a warning.
OutcomeRefused(m) ==
    /\ m \in Mergers
    /\ pc[m] \in {"completed", "stopped"}
    /\ pend[m] = Idle
    /\ ~Reads(job[m], {"merging"})
    /\ Goto(m, AfterOutcome(m))
    /\ UNCHANGED <<queue, holder, job, todo, files>>

\* Mutant: a worktree loop queues itself before its event loop is over.
EnqueueEarly(r) ==
    /\ pc[r] = "looping"
    /\ holder # r
    /\ Absent(log, r)
    /\ log' = Append(log, Queue!Event(r, "queued", Len(log)))
    /\ UNCHANGED <<pend, holder, pc, job, todo, files>>

\* ... a worktree loop that completed queues itself, with auto_merge ...
EnqueueSelf(r) ==
    /\ pc[r] = "completed"
    /\ holder # r
    /\ Queue!Enqueue(r, r)
    /\ UNCHANGED <<holder, pc, job, todo, files>>

\* ... or leaves its worktree for a manual merge ...
LeaveForManualMerge(r) ==
    /\ pc[r] = "completed"
    /\ holder # r
    /\ pend[r] = Idle
    /\ Goto(r, "exiting")
    /\ UNCHANGED <<queue, holder, job, todo, files>>

\* ... and a primary loop that completed lands and turns to the queue.
Land(r) ==
    /\ pc[r] = "completed"
    /\ holder = r
    /\ Goto(r, "processing")
    /\ UNCHANGED <<queue, holder, job, todo, files>>

\* A run that did not complete leaves the queue alone.
GiveUp(r) ==
    /\ pc[r] = "stopped"
    /\ Goto(r, "exiting")
    /\ UNCHANGED <<queue, holder, job, todo, files>>

-----------------------------------------------------------------------------
(* process_pending_merges, by every primary loop or merger that completed  *)
(* and by `ralph loops process`.                                           *)

\* The orders in which list_by_state may give the queued loops: by the time
\* of their queued event, whose place in time is what its writer had seen.
PendingOrders ==
    LET waiting == {l \in Loops : InState(log, l, "queued")}
        QueuedAt(l) == log[CHOOSE i \in DOMAIN log :
                             /\ log[i].loop = l
                             /\ \A j \in i+1..Len(log) : log[j].loop # l].seen
    IN  {s \in [1..Cardinality(waiting) -> waiting] :
            /\ \A l \in waiting : \E i \in DOMAIN s : s[i] = l
            /\ \A i, j \in DOMAIN s : i < j => QueuedAt(s[i]) <= QueuedAt(s[j])}

\* The queued loops are read once; a file that does not parse stops it.
ListPending(p) ==
    /\ pc[p] = "processing"
    /\ IF Readable(log)
       THEN \E s \in PendingOrders : todo' = [todo EXCEPT ![p] = s]
       ELSE UNCHANGED todo
    /\ Goto(p, "spawning")
    /\ UNCHANGED <<queue, holder, job, files>>

\* A merge-ralph for the next of them, whatever became of it since.
Spawn(p, m) ==
    /\ pc[p] = "spawning"
    /\ todo[p] # <<>>
    /\ pc[m] = "new"
    /\ pc' = [pc EXCEPT ![m] = "trying"]
    /\ job' = [job EXCEPT ![m] = Head(todo[p])]
    /\ todo' = [todo EXCEPT ![p] = Tail(@)]
    /\ UNCHANGED <<queue, holder, files>>

\* A spawn that fails is logged.  Bound: it fails when Mergers is used up.
SpawnFails(p) ==
    /\ pc[p] = "spawning"
    /\ todo[p] # <<>>
    /\ \A m \in Mergers : pc[m] # "new"
    /\ todo' = [todo EXCEPT ![p] = Tail(@)]
    /\ UNCHANGED <<queue, holder, pc, job, files>>

AllSpawned(p) ==
    /\ pc[p] = "spawning"
    /\ todo[p] = <<>>
    /\ Goto(p, "exiting")
    /\ UNCHANGED <<queue, holder, job, todo, files>>

\* Mutant: the lock is kept.
ExitLocked(p) ==
    /\ pc[p] = "exiting"
    /\ registered' = registered \ {p}
    /\ Goto(p, "gone")
    /\ UNCHANGED <<queue, holder, job, todo, trees, landed>>

\* deregister_current_process, and the lock guard is dropped.
Exit(p) ==
    /\ pc[p] = "exiting"
    /\ registered' = registered \ {p}
    /\ holder' = IF holder = p THEN Nobody ELSE holder
    /\ Goto(p, "gone")
    /\ UNCHANGED <<queue, job, todo, trees, landed>>

-----------------------------------------------------------------------------
(* The commands of users.                                                  *)

Begin(u, command, l, phase) ==
    /\ command \in Commands
    /\ pc[u] = "new"
    /\ job' = [job EXCEPT ![u] = l]
    /\ Goto(u, phase)

\* ralph loops process, and loop.process of the API.
UserProcess(u) ==
    /\ Begin(u, "process", NoLoop, "processing")
    /\ UNCHANGED <<queue, holder, todo, files>>

\* ralph loops retry, and loop.retry: only a loop that needs review.
UserRetry(u, l) ==
    /\ Begin(u, "retry", l, "spawning")
    /\ Reads(l, {"needs_review"})
    /\ todo' = [todo EXCEPT ![u] = <<l>>]
    /\ UNCHANGED <<queue, holder, files>>

\* registry.get finds an entry, its process being alive, and is_alive its
\* worktree.
Running(l) == l \in registered /\ l \in trees

\* ralph loops merge: a loop that waits, or with --force one that merges.
UserMerge(u, l) ==
    /\ Begin(u, "merge", l, "spawning")
    /\ ~Running(l)
    /\ Reads(l, {"queued", "needs_review", "merging"})
    /\ todo' = [todo EXCEPT ![u] = <<l>>]
    /\ UNCHANGED <<queue, holder, files>>

\* ... or one that has a worktree and no entry, or no entry that can be read.
UserMergeOrphan(u, l) ==
    /\ Begin(u, "orphan", l, "queueing")
    /\ ~Running(l)
    /\ l \in trees
    /\ Readable(log) => Absent(log, l)
    /\ todo' = [todo EXCEPT ![u] = <<l>>]
    /\ UNCHANGED <<queue, holder, files>>

EnqueueOrphan(u) ==
    /\ pc[u] = "queueing"
    /\ Queue!Enqueue(u, job[u])
    /\ UNCHANGED <<holder, pc, job, todo, files>>

\* ralph loops discard, and loop.discard: a loop that can be found.
UserDiscard(u, l) ==
    /\ l \in registered \cup trees \/ (Readable(log) /\ ~Absent(log, l))
    /\ Begin(u, "discard", l, "discarding")
    /\ UNCHANGED <<queue, holder, todo, files>>

DiscardEntry(u) ==
    /\ pc[u] = "discarding"
    /\ Queue!Discard(u, job[u])
    /\ UNCHANGED <<holder, pc, job, todo, files>>

\* No entry, or (ralph loops) none that can be read: the rest goes on.
DiscardWithoutEntry(u) ==
    /\ pc[u] = "discarding"
    /\ pend[u] = Idle
    /\ Readable(log) => Absent(log, job[u])
    /\ Goto(u, "removing")
    /\ UNCHANGED <<queue, holder, job, todo, files>>

\* InvalidTransition, or (loop.discard) a file that does not parse.
DiscardRefused(u) ==
    /\ pc[u] = "discarding"
    /\ pend[u] = Idle
    /\ Readable(log) => ~Absent(log, job[u])
    /\ ~Reads(job[u], From("discarded"))
    /\ Goto(u, "failed")
    /\ UNCHANGED <<queue, holder, job, todo, files>>

\* deregister, and remove_worktree: the worktree and the branch.
RemoveTree(u) ==
    /\ pc[u] = "removing"
    /\ registered' = registered \ {job[u]}
    /\ trees' = trees \ {job[u]}
    /\ Goto(u, "gone")
    /\ UNCHANGED <<queue, holder, job, todo, landed>>

\* loop.merge of the API: a loop that waits, or with force one that merges.
ApiMerge(u, l) ==
    /\ Reads(l, {"queued", "needs_review", "merging"})
    /\ Begin(u, "api", l, IF InState(log, l, "merging")
                           THEN "claiming" ELSE "reserving")
    /\ UNCHANGED <<queue, holder, todo, files>>

ApiMarkMerging(u) ==
    /\ pc[u] = "reserving"
    /\ Queue!MarkMerging(u, job[u])
    /\ UNCHANGED <<holder, pc, job, todo, files>>

ApiMarkMerged(u) ==
    /\ pc[u] = "claiming"
    /\ Queue!MarkMerged(u, job[u])
    /\ UNCHANGED <<holder, pc, job, todo, files>>

ApiRefused(u) ==
    /\ pend[u] = Idle
    /\ \/ pc[u] = "reserving" /\ ~Reads(job[u], From("merging"))
       \/ pc[u] = "claiming" /\ ~Reads(job[u], From("merged"))
    /\ Goto(u, "failed")
    /\ UNCHANGED <<queue, holder, job, todo, files>>

-----------------------------------------------------------------------------
(* The second half of the queue's operations, and crashes.                 *)

\* Where p goes on once the event it decided on is in the file.
AfterAppend(p) ==
    CASE pc[p] = "marking"    -> "looping"
      [] pc[p] \in {"completed", "stopped"} -> AfterOutcome(p)
      [] pc[p] = "discarding" -> "removing"
      [] pc[p] = "queueing"   -> "spawning"
      [] pc[p] = "reserving"  -> "claiming"
      [] pc[p] = "claiming"   -> "gone"

AppendEvent(p) ==
    /\ Queue!AppendEvent(p)
    /\ Goto(p, AfterAppend(p))
    /\ UNCHANGED <<holder, job, todo, files>>

\* The kernel frees the lock of a process that dies; the files stay, but for
\* its registry entry: whoever opens the registry drops those of dead pids.
Die(p) ==
    /\ pc[p] \notin Ended \cup {"new"}
    /\ Cardinality({q \in Procs : pc[q] = "dead"}) < MaxDead
    /\ \/ pend[p] = Idle /\ UNCHANGED queue
       \/ Queue!CrashBeforeAppend(p)
       \/ Queue!CrashInAppend(p)
    /\ holder' = IF holder = p THEN Nobody ELSE holder
    /\ registered' = registered \ {p}
    /\ Goto(p, "dead")
    /\ UNCHANGED <<job, todo, trees, landed>>

-----------------------------------------------------------------------------
RunActs(r) ==
    \/ TakeLock(r)
    \/ GoToWorktree(r)
    \/ ParseFails(r)
    \/ Preflight(r)
    \/ PreflightFails(r)
    \/ Completes(r)
    \/ Stops(r)
    \/ EnqueueSelf(r)
    \/ LeaveForManualMerge(r)
    \/ Land(r)
    \/ GiveUp(r)

MergerActs(m) ==
    \/ TakeLock(m)
    \/ WaitForLock(m)
    \/ ParseFails(m)
    \/ Preflight(m)
    \/ PreflightFails(m)
    \/ MarkMerging(m)
    \/ MarkMergingSkipped(m)
    \/ MergesBranch(m)
    \/ Completes(m)
    \/ Stops(m)
    \/ MarkMerged(m)
    \/ MarkNeedsReview(m)
    \/ OutcomeRefused(m)

UserActs(u) ==
    \/ EnqueueOrphan(u)
    \/ DiscardEntry(u)
    \/ DiscardWithoutEntry(u)
    \/ DiscardRefused(u)
    \/ RemoveTree(u)
    \/ ApiMarkMerging(u)
    \/ ApiMarkMerged(u)
    \/ ApiRefused(u)

SharedActs(p) ==
    \/ ListPending(p)
    \/ \E m \in Mergers : Spawn(p, m)
    \/ SpawnFails(p)
    \/ AllSpawned(p)
    \/ AppendEvent(p)
    \/ Exit(p)

UserBegins(u) ==
    \/ UserProcess(u)
    \/ \E l \in Loops :
        \/ UserRetry(u, l)
        \/ UserMerge(u, l)
        \/ UserMergeOrphan(u, l)
        \/ UserDiscard(u, l)
        \/ ApiMerge(u, l)

\* The steps of a process that is running.
Acts(p) ==
    \/ p \in Loops /\ RunActs(p)
    \/ p \in Mergers /\ MergerActs(p)
    \/ p \in Users /\ UserActs(p)
    \/ SharedActs(p)

Next ==
    \/ \E r \in Loops : Start(r)
    \/ \E u \in Users : UserBegins(u)
    \/ \E p \in Procs : Acts(p)
    \/ \E p \in Procs : Die(p)

Spec == Init /\ [][Next]_vars

(***************************************************************************)
(* A process that is running goes on: it is scheduled, its event loop ends *)
(* (max_iterations and max_runtime), and a free lock goes to a waiter.     *)
(* Nobody has to start a run or a command, and nobody has to die.          *)
(***************************************************************************)
FairSpec == Spec /\ \A p \in Procs : WF_vars(Acts(p))

-----------------------------------------------------------------------------
TypeOK ==
    /\ Queue!TypeOK
    /\ holder \in Procs \cup {Nobody}
    /\ pc \in [Procs -> Phases]
    /\ job \in [Procs -> Loops \cup {NoLoop}]
    /\ todo \in [Procs -> Seq(Loops)]
    /\ trees \subseteq Loops
    /\ registered \subseteq Loops
    /\ landed \subseteq Loops

\* The phases in which a merger is in the main workspace.
AtWork == {"starting", "marking", "looping", "completed", "stopped",
           "processing", "spawning", "exiting"}

(***************************************************************************)
(* Only one merge-ralph runs at a time, and none while a primary loop runs:*)
(* a merger at work has the lock, from before its mark_merging until after *)
(* its outcome is in the queue and its successors are spawned.             *)
(***************************************************************************)
MergersHaveTheLock ==
    \A m \in Mergers : pc[m] \in AtWork => holder = m

(***************************************************************************)
(* The reads and appends of the queue are not atomic (MergeQueue), but the *)
(* mergers are serialised by the lock, so without discards and the API's   *)
(* merge the queue goes through its states as if they were.                *)
(***************************************************************************)
LifecycleSpec == Queue!LifecycleSpec

\* What the queue calls merged is in the main branch.
MergedIsLanded ==
    \A l \in Loops : InState(log, l, "merged") => l \in landed

(***************************************************************************)
(* The work of a loop that asks to be merged is somewhere: in its worktree *)
(* or in the main branch.                                                  *)
(***************************************************************************)
WorkIsKept ==
    \A l \in Loops :
        InStates(log, l, {"queued", "merging", "needs_review"}) =>
            l \in trees \cup landed

(***************************************************************************)
(* A merger merges a loop whose process is done with it: `ralph loops      *)
(* merge` refuses a loop that is still running, and the queue holds loops  *)
(* that completed.                                                         *)
(***************************************************************************)
MergesEndedLoops ==
    \A m \in Mergers, l \in Loops :
        pc[m] = "looping" /\ job[m] = l => pc[l] \notin {"setup", "looping"}

(***************************************************************************)
(* A merger that has not yet marked its loop will leave it in the queue    *)
(* only if it fails first; a loop that is queued again later is another's. *)
(***************************************************************************)
SpawnedMergerSettles ==
    \A m \in Mergers, l \in Loops :
        job[m] = l /\ pc[m] \in {"trying", "waiting", "starting", "marking"} ~>
            ~InState(log, l, "queued") \/ pc[m] \in {"failed", "dead"}

\* Every process that starts ends: nobody waits for a lock for ever.
EveryoneLeaves ==
    \A p \in Procs : pc[p] # "new" ~> pc[p] \in Ended

=============================================================================
