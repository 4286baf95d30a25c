------------------------------- MODULE Waves -------------------------------
(***************************************************************************)
(* A wave: the agent wrote one event per work item with `ralph wave emit`, *)
(* the loop runs a worker for each, a bounded number of them at a time,    *)
(* waits for them under a timeout and appends what they emitted to the     *)
(* main events file, where the aggregator hat's events are read from.      *)
(* The workers are tasks, each with a process: dropping the handle of a    *)
(* task does not end it, and the end of a task need not be the end of its  *)
(* process.                                                                *)
(***************************************************************************)
EXTENDS Naturals, Sequences, FiniteSets

CONSTANTS
  Items,        \* number of events in the wave that is read
  Total,        \* wave_total of those events
  Concurrency,  \* permits of the semaphore: hat.concurrency
  Emits         \* bound: events a worker writes

ASSUME WavesAssumption ==
  /\ Items \in Nat \ {0} /\ Total \in Nat \ {0}
  /\ Concurrency \in Nat \ {0, 1}
  /\ Emits \in Nat

\* Workers are numbered by their place among the wave's events, from 0.
Workers == 0..(Items - 1)
Indices == Workers \cup 0..(Total - 1)
Reports == {"none", "result", "failure", "panic"}
Kinds == {"event", "failed", "stand-in"}
Phases == {"spawning", "joining", "draining", "sweeping", "merging",
           "rereading", "done"}

VARIABLES
  phase,     \* where handle_wave_events is
  next,      \* the first worker that has not been spawned
  acp,       \* the backend of the hat talks ACP: no PTY
  task,      \* of each worker: "new", "running", "killed" (timed out), "ended"
  child,     \* its process: "none", "alive", "killed" (but not reaped), "gone"
  box,       \* events in the worker's own events file, which it may not have
  kept,      \* events the ended task returns
  report,    \* what the ended task came to
  success,   \* the worker was shown as done, not as failed
  explicit,  \* the aggregator hat has aggregate.timeout
  expired,   \* the aggregate timeout fired
  results, failures,  \* the tracker: indices recorded
  merged,    \* records appended to the main file: <<index, kind>>
  seen,      \* of those, the records the re-read published
  passes     \* kinds of record that hat scope and wave dispatch let through

wave == <<phase, next, acp, explicit, expired>>
workers == <<task, child, box, kept, report, success>>
recorded == <<results, failures, merged, seen, passes>>
vars == <<wave, workers, recorded>>

TypeOK ==
  /\ phase \in Phases
  /\ next \in 0..Items
  /\ task \in [Workers -> {"new", "running", "killed", "ended"}]
  /\ child \in [Workers -> {"none", "alive", "killed", "gone"}]
  /\ box \in [Workers -> 0..Emits]
  /\ kept \in [Workers -> 0..Emits]
  /\ report \in [Workers -> Reports]
  /\ success \in [Workers -> BOOLEAN]
  /\ acp \in BOOLEAN /\ explicit \in BOOLEAN /\ expired \in BOOLEAN
  /\ results \subseteq Workers
  /\ failures \subseteq Indices
  /\ merged \subseteq Indices \X Kinds
  /\ seen \subseteq merged /\ passes \subseteq Kinds

\* The tasks that hold a permit and a sender of the progress channel.
Running == {w \in Workers : task[w] \in {"running", "killed"}}

Init ==
  /\ phase = "spawning" /\ next = 0
  /\ task = [w \in Workers |-> "new"]
  /\ child = [w \in Workers |-> "none"]
  /\ box = [w \in Workers |-> 0]
  /\ kept = [w \in Workers |-> 0]
  /\ report = [w \in Workers |-> "none"]
  /\ success = [w \in Workers |-> FALSE]
  /\ acp \in BOOLEAN /\ explicit \in BOOLEAN /\ expired = FALSE
  /\ results = {} /\ failures = {} /\ merged = {} /\ seen = {} /\ passes = {}
-----------------------------------------------------------------------------
(* Spawning: the loop waits for a permit before each worker.               *)

Spawn ==
  /\ phase = "spawning" /\ next < Items
  /\ Cardinality(Running) < Concurrency
  /\ task' = [task EXCEPT ![next] = "running"]
  /\ next' = next + 1
  /\ UNCHANGED <<phase, acp, child, box, kept, report, success, explicit,
                 expired, recorded>>

\* The phases that leave the workers and the records alone.
Moves(from, to) ==
  /\ phase = from /\ phase' = to
  /\ UNCHANGED <<next, acp, explicit, workers, recorded>>

\* The backend of the hat is not valid: no worker is spawned, nothing is
\* appended, and the wave is over.
BackendInvalid ==
  next = 0 /\ Moves("spawning", "done") /\ UNCHANGED expired

AllSpawned ==
  next = Items /\ Moves("spawning", "joining") /\ UNCHANGED expired
-----------------------------------------------------------------------------
(* A worker's task.  Its permit and its progress sender go when it ends,   *)
(* whatever became of its process.                                         *)

Becomes(w, state, process) ==
  /\ task' = [task EXCEPT ![w] = state]
  /\ child' = [child EXCEPT ![w] = process]

Ends(w, outcome, events, done, process) ==
  /\ Becomes(w, "ended", process)
  /\ report' = [report EXCEPT ![w] = outcome]
  /\ kept' = [kept EXCEPT ![w] = events]
  /\ success' = [success EXCEPT ![w] = done]
  /\ box' = [box EXCEPT ![w] = 0]
  /\ UNCHANGED <<wave, recorded>>

\* SIGKILL to the group of the process: it runs no more, reaped or not.
Killed(w) == IF child[w] = "alive" THEN "killed" ELSE child[w]

WorkerStarts(w) ==
  /\ task[w] = "running" /\ child[w] = "none"
  /\ Becomes(w, "running", "alive")
  /\ UNCHANGED <<wave, box, kept, report, success, recorded>>

\* The PTY or the process could not be had: the events file is removed.
WorkerNotStarted(w) ==
  /\ task[w] = "running" /\ child[w] = "none"
  /\ Ends(w, "failure", 0, FALSE, "none")

\* The reader of the PTY could not be had: the events file is removed, but the
\* process that was just started is neither killed nor waited for.
ReaderFails(w) ==
  /\ ~acp /\ task[w] = "running" /\ child[w] # "none"
  /\ Ends(w, "failure", 0, FALSE, child[w])

\* Mutant: a worker is done when its output ends, and its process is not waited
\* for.
FinishesUnwaited(w) ==
  /\ ~acp /\ task[w] = "running" /\ child[w] # "none"
  /\ \E done \in BOOLEAN : Ends(w, "result", box[w], done, child[w])

\* The output ends and the process is waited for, but not for ever: without its
\* exit status the worker is shown as failed.  The events are a result anyhow.
WorkerFinishes(w) ==
  /\ ~acp /\ task[w] = "running" /\ child[w] # "none"
  /\ \E done \in BOOLEAN :
       /\ done => child[w] = "gone"
       /\ Ends(w, "result", box[w], done, child[w])

\* The prompt of an ACP worker ends: its group is killed, then the file read.
AcpCompletes(w) ==
  /\ acp /\ task[w] = "running" /\ child[w] # "none"
  /\ \E done \in BOOLEAN : Ends(w, "result", box[w], done, Killed(w))

\* An ACP error discards what the worker wrote.
AcpFails(w) ==
  /\ acp /\ task[w] = "running" /\ child[w] # "none"
  /\ Ends(w, "failure", 0, FALSE, Killed(w))

WorkerTimesOut(w) ==
  /\ task[w] = "running" /\ child[w] # "none"
  /\ Becomes(w, "killed", child[w])
  /\ UNCHANGED <<wave, box, kept, report, success, recorded>>

\* After SIGTERM, SIGKILL and a bounded wait for the process the file is read.
KilledWorkerReports(w) ==
  /\ task[w] = "killed"
  /\ Ends(w, IF box[w] = 0 THEN "failure" ELSE "result", box[w], FALSE,
          Killed(w))

\* A task that panics returns nothing, its index included, and leaves its file.
\* Only the ACP executor has a guard that kills the process.
WorkerPanics(w) ==
  /\ task[w] = "running"
  /\ Becomes(w, "ended", IF acp THEN Killed(w) ELSE child[w])
  /\ report' = [report EXCEPT ![w] = "panic"]
  /\ UNCHANGED <<wave, box, kept, success, recorded>>
-----------------------------------------------------------------------------
(* A worker's process, which its task may have left behind.                *)

\* `ralph emit`: RALPH_EVENTS_FILE is the worker's file, made anew if the task
\* has removed it; then nobody reads it.  A worker that is being killed may
\* still get an event out.
WorkerEmits(w) ==
  /\ child[w] = "alive" /\ box[w] < Emits
  /\ box' = [box EXCEPT ![w] = @ + 1]
  /\ UNCHANGED <<wave, task, child, kept, report, success, recorded>>

ChildExits(w) ==
  /\ child[w] \in {"alive", "killed"}
  /\ child' = [child EXCEPT ![w] = "gone"]
  /\ UNCHANGED <<wave, task, box, kept, report, success, recorded>>
-----------------------------------------------------------------------------
(* Collecting.                                                             *)

\* Mutant: a wave with a worker that panicked is not joined.
AllReported ==
  /\ \A w \in Workers : report[w] \in {"result", "failure"}
  /\ Moves("joining", "draining") /\ UNCHANGED expired

AllJoined ==
  /\ \A w \in Workers : task[w] = "ended"
  /\ Moves("joining", "draining") /\ UNCHANGED expired

\* The derived timeout leaves every worker its own; only an explicit one can
\* fire first.  The join handles are dropped with what they would return.
AggregateTimeout ==
  /\ explicit /\ \E w \in Workers : task[w] # "ended"
  /\ Moves("joining", "draining") /\ expired' = TRUE

\* Mutant: the progress task is not waited for.
DrainedAtOnce == Moves("draining", "sweeping") /\ UNCHANGED expired

\* The progress task ends when every worker's sender is gone.
Drained ==
  Running = {} /\ Moves("draining", "sweeping") /\ UNCHANGED expired

Joined == IF expired THEN {} ELSE Workers

\* What is recorded: the joined results and the failures.
Records(failed) ==
  /\ phase = "sweeping" /\ phase' = "merging"
  /\ results' = {w \in Joined : report[w] = "result"}
  /\ failures' = failed
  /\ UNCHANGED <<next, acp, explicit, expired, workers, merged, seen, passes>>

\* Mutant: failures are recorded for the workers that were spawned, not for
\* every index of the wave.
SweepWorkers == Records({w \in Workers : report[w] # "result" \/ expired})

\* Mutant: the indices of the wave are taken to begin with 1.
SweepFromOne == Records((1..Total) \ {w \in Joined : report[w] = "result"})

\* The joined reports are recorded, then a failure for every index of the
\* wave that none of them has; an index is recorded once.
Sweep == Records({w \in Joined : report[w] = "failure"}
                 \cup (0..(Total - 1) \ {w \in Joined : report[w] # "panic"}))

\* One append with every event of the results, and for every failure a note
\* and an event on the topics the hat publishes.
Merge ==
  /\ phase = "merging" /\ phase' = "rereading"
  /\ merged' = {<<w, "event">> : w \in {v \in results : kept[v] > 0}}
               \cup (failures \X {"failed", "stand-in"})
  /\ UNCHANGED <<next, acp, explicit, expired, workers, results, failures,
                 seen, passes>>

\* The records carry a wave id: one on a topic of a concurrent hat is taken for
\* a dispatch of a wave and not published.  Nor is one that hat scope, when it
\* is enforced, does not allow the hats that were active.
Reread ==
  /\ phase = "rereading" /\ phase' = "done"
  /\ passes' \in SUBSET Kinds
  /\ seen' = {r \in merged : r[2] \in passes'}
  /\ UNCHANGED <<next, acp, explicit, expired, workers, results, failures,
                 merged>>

Worker(w) == \/ WorkerStarts(w) \/ WorkerNotStarted(w) \/ ReaderFails(w)
             \/ WorkerFinishes(w) \/ AcpCompletes(w) \/ AcpFails(w)
             \/ WorkerTimesOut(w) \/ KilledWorkerReports(w) \/ WorkerPanics(w)
Runner == \/ Spawn \/ BackendInvalid \/ AllSpawned \/ AllJoined
          \/ AggregateTimeout \/ Drained \/ Sweep \/ Merge \/ Reread

Next ==
  \/ Runner
  \/ \E w \in Workers : Worker(w) \/ WorkerEmits(w) \/ ChildExits(w)

Spec == Init /\ [][Next]_vars

\* The loop is scheduled, and a worker's task ends or runs into its timeout.
\* Nothing is assumed of the processes.
FairSpec == Spec /\ WF_vars(Runner) /\ \A w \in Workers : WF_vars(Worker(w))
-----------------------------------------------------------------------------
(* What the wave promises.                                                 *)

\* No task of the wave runs once its results are recorded, the ones that run on
\* after the aggregate timeout included, and never more than the hat allows:
\* none reads, kills or reports while the next iteration runs.  The processes
\* are another matter: one may outlive its task.
TasksEndWithWave ==
  /\ Cardinality(Running) <= Concurrency
  /\ phase \notin {"spawning", "joining", "draining"} => Running = {}

\* A worker that was shown as done has no process left that could work on, and
\* nothing it ever wrote to its events file is left unread, whatever its
\* process did after the output ended.  A process that outlives its wave is
\* that of a worker shown as failed, or of a task that panicked.
DoneWorkersAreHeard ==
  \A w \in Workers :
    success[w] => task[w] = "ended" /\ child[w] # "alive" /\ box[w] = 0

\* The record of kind k for index i is in the file, and was published if the
\* configuration lets it through.
Told(i, k) ==
  <<i, k>> \in merged /\ (k \in passes => <<i, k>> \in seen)

\* When a wave is over every index of it has been answered for once, panics,
\* early timeouts and a wrong wave_total included: by a result, or by a failure
\* that speaks to the aggregator on its trigger topic.  And no event of a worker
\* that ended in the join is lost, that of a worker killed at its own timeout
\* included; those of an ACP worker that fails are.
WaveIsAccountedFor ==
  phase = "done" /\ next > 0 =>
    /\ \A i \in 0..(Total - 1) :
         IF i \in results THEN i \notin failures ELSE Told(i, "stand-in")
    /\ \A w \in Workers :
         (w \in results \/ ~expired) /\ kept[w] > 0 => Told(w, "event")

\* Every wave comes to an end, whatever its workers do.
WaveEnds == <>(phase = "done")
=============================================================================
