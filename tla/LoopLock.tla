------------------------------ MODULE LoopLock ------------------------------
(***************************************************************************)
(* loop_lock.rs: the flock on .ralph/loop.lock that makes one `ralph run`  *)
(* the primary loop of a repository, and the metadata its holder writes    *)
(* into the same file for the others to read.                              *)
(*                                                                         *)
(* The kernel gives the flock to one process and takes it back when that   *)
(* process dies.  The metadata has no such care: it is truncated and then  *)
(* written after the flock is obtained, read without it, and never erased. *)
(*                                                                         *)
(* A process runs one command:                                             *)
(*   "run"        ralph run: try_acquire, or go to a worktree              *)
(*   "exclusive"  ralph run --exclusive: try_acquire, or acquire_blocking  *)
(*   "probe"      is_locked, from `ralph loops` and the API's loop.status  *)
(***************************************************************************)
EXTENDS Naturals

CONSTANTS
    Procs,      \* processes of the repository
    Commands,   \* the commands users run, out of the three above
    Nobody,     \* no process
    Empty       \* the file has no content

ASSUME LoopLockAssumption ==
    /\ Nobody \notin Procs
    /\ Empty \notin Procs
    /\ Commands \subseteq {"run", "exclusive", "probe"}

VARIABLES
    pc,         \* pc[p]: where process p is
    cmd,        \* cmd[p]: the command p runs
    holder,     \* the process that has the flock
    meta,       \* the file: the process whose metadata it holds, or Empty
    told        \* told[p]: whom AlreadyLocked named to p, or Nobody

lockVars == <<pc, cmd, holder, meta, told>>

LockPhases == {"new", "trying", "refused", "waiting", "locked", "emptied", "held",
               "probing", "released", "elsewhere", "failed", "answered", "dead"}

\* Phases of a process that has the flock.
Inside == {"locked", "emptied", "held", "probing"}

\* Phases of a process that is gone.
Gone == {"elsewhere", "failed", "answered", "dead"}

LockInit ==
    /\ pc = [p \in Procs |-> "new"]
    /\ cmd \in [Procs -> Commands]
    /\ holder = Nobody
    /\ meta = Empty
    /\ told = [p \in Procs |-> Nobody]

Goto(p, phase) == pc' = [pc EXCEPT ![p] = phase]

-----------------------------------------------------------------------------
\* The command starts, and opens the lock file (creating it empty).
Start(p) ==
    /\ pc[p] = "new"
    /\ Goto(p, "trying")
    /\ UNCHANGED <<cmd, holder, meta, told>>

\* LOCK_EX | LOCK_NB succeeds, for a loop or for a probe.
TryTakes(p) ==
    /\ pc[p] = "trying"
    /\ holder = Nobody
    /\ holder' = p
    /\ Goto(p, IF cmd[p] = "probe" THEN "probing" ELSE "locked")
    /\ UNCHANGED <<cmd, meta, told>>

\* EWOULDBLOCK: a probe has its answer, a loop goes on to read the metadata.
TryRefused(p) ==
    /\ pc[p] = "trying"
    /\ holder # Nobody
    /\ Goto(p, IF cmd[p] = "probe" THEN "answered" ELSE "refused")
    /\ UNCHANGED <<cmd, holder, meta, told>>

\* AlreadyLocked(metadata): wait for the lock, or go to a worktree (or stop).
ReadHolder(p) ==
    /\ pc[p] = "refused"
    /\ meta # Empty
    /\ told' = [told EXCEPT ![p] = meta]
    /\ Goto(p, IF cmd[p] = "exclusive" THEN "waiting" ELSE "elsewhere")
    /\ UNCHANGED <<cmd, holder, meta>>

\* ParseError: the file is empty, and the command ends with that error.
ReadNothing(p) ==
    /\ pc[p] = "refused"
    /\ meta = Empty
    /\ Goto(p, "failed")
    /\ UNCHANGED <<cmd, holder, meta, told>>

\* acquire_blocking returns from LOCK_EX.
WaitTakes(p) ==
    /\ pc[p] = "waiting"
    /\ holder = Nobody
    /\ holder' = p
    /\ Goto(p, "locked")
    /\ UNCHANGED <<cmd, meta, told>>

\* write_metadata: set_len(0) ...
Truncate(p) ==
    /\ pc[p] = "locked"
    /\ meta' = Empty
    /\ Goto(p, "emptied")
    /\ UNCHANGED <<cmd, holder, told>>

\* ... and then write_all.
Sign(p) ==
    /\ pc[p] = "emptied"
    /\ meta' = p
    /\ Goto(p, "held")
    /\ UNCHANGED <<cmd, holder, told>>

\* Mutant: the guard is dropped when the loop starts, not when it ends.
ReleaseEarly(p) ==
    /\ pc[p] = "held"
    /\ holder' = Nobody
    /\ UNCHANGED <<pc, cmd, meta, told>>

\* Mutant: the guard is leaked to what outlives the loop.
ReleaseForgotten(p) ==
    /\ pc[p] = "held"
    /\ Goto(p, "released")
    /\ UNCHANGED <<cmd, holder, meta, told>>

\* The loop ends and its LockGuard is dropped; the metadata stays.
Release(p) ==
    /\ pc[p] = "held"
    /\ holder' = Nobody
    /\ Goto(p, "released")
    /\ UNCHANGED <<cmd, meta, told>>

\* is_locked drops the lock it obtained to find out.
ProbeEnds(p) ==
    /\ pc[p] = "probing"
    /\ holder' = Nobody
    /\ Goto(p, "answered")
    /\ UNCHANGED <<cmd, meta, told>>

\* A process dies, or exits after its guard was dropped.
Die(p) ==
    /\ pc[p] \notin Gone \cup {"new"}
    /\ Goto(p, "dead")
    /\ holder' = IF holder = p THEN Nobody ELSE holder
    /\ UNCHANGED <<cmd, meta, told>>

Acts(p) ==
    \/ TryTakes(p)
    \/ TryRefused(p)
    \/ ReadHolder(p)
    \/ ReadNothing(p)
    \/ WaitTakes(p)
    \/ Truncate(p)
    \/ Sign(p)
    \/ Release(p)
    \/ ProbeEnds(p)

LockNext == \E p \in Procs : Start(p) \/ Acts(p) \/ Die(p)

LockSpec == LockInit /\ [][LockNext]_lockVars

(***************************************************************************)
(* A process that has started goes on: the scheduler runs it, its loop     *)
(* ends (max_iterations and max_runtime see to that), and a free flock is  *)
(* given to a waiter.  Nothing makes a command start or a process die.     *)
(***************************************************************************)
LockFairSpec == LockSpec /\ \A p \in Procs : WF_lockVars(Acts(p))

-----------------------------------------------------------------------------
LockTypeOK ==
    /\ pc \in [Procs -> LockPhases]
    /\ cmd \in [Procs -> Commands]
    /\ holder \in Procs \cup {Nobody}
    /\ meta \in Procs \cup {Empty}
    /\ told \in [Procs -> Procs \cup {Nobody}]

(***************************************************************************)
(* While a loop runs, the file names it and no other process is inside:    *)
(* what `ralph loops stop` kills is the loop.                              *)
(***************************************************************************)
RunningLoopIsNamed ==
    \A p \in Procs : pc[p] = "held" =>
        /\ meta = p
        /\ \A q \in Procs : pc[q] \in Inside => q = p

(***************************************************************************)
(* A process the file names is a loop that had the lock, never one that is *)
(* still waiting for it or that went to a worktree: a live pid read from   *)
(* the file belongs to the primary loop, running or about to exit.         *)
(***************************************************************************)
NamedProcessHadTheLock ==
    /\ meta # Empty => pc[meta] \in {"held", "released", "dead"}
    /\ \A p \in Procs : told[p] # Nobody => pc[told[p]] \in {"held", "released", "dead"}

\* A loop that waits for the lock gets it, or dies waiting.
WaiterGetsIn ==
    \A p \in Procs : pc[p] = "waiting" ~> pc[p] \in {"held", "dead"}

-----------------------------------------------------------------------------
\* The inductive invariant: the flock and the phases agree.
HolderInside ==
    \A p \in Procs : pc[p] \in Inside <=> holder = p

LockInv == LockTypeOK /\ HolderInside /\ RunningLoopIsNamed /\ NamedProcessHadTheLock

=============================================================================
