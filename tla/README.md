# ralph in TLA+

Specifications of ralph, the loop that runs a coding agent until its work is
done, with TLC models of them and TLAPS proofs about them. `ralph run` may be
started many times in one repository: the first run is the primary loop, every
other run gets a worktree of its own, and finished worktrees are merged back by
further ralph processes. All of them are independent OS processes that meet in a
handful of files under `.ralph/`. Beside them a web server keeps a task queue of
its own and starts `ralph run` for each task. What is specified is the files in which
processes meet, the processes around them, the event loop inside one of them with
its hats, hooks, waves and questions to a human, and the web server's queue.

## The system

| part | state | operations | who calls it |
|---|---|---|---|
| merge queue (`ralph-core/src/merge_queue.rs`) | `.ralph/merge-queue.jsonl`, an append-only log | `enqueue`; `mark_merging`, `mark_merged`, `mark_needs_review`, `discard`, each a read under a shared flock and later an append under an exclusive one; `get_entry`, `list_by_state` | every process |
| loop lock (`loop_lock.rs`) | the flock on `.ralph/loop.lock`, and the holder's pid and prompt in that file | `try_acquire`, `acquire_blocking`, `is_locked`, `read_existing`, the guard's drop | `ralph run`, `ralph loops`, the API |
| loop registry (`loop_registry.rs`) | `.ralph/loops.json`, rewritten in place under a flock | `register`, `deregister`, `get`, `list`, `clean_stale` | `ralph run`, `ralph loops`, the API |
| worktrees (`worktree.rs`) | `.worktrees/<loop>` and the branch `ralph/<loop>` | `create_worktree`, `remove_worktree`, `list_ralph_worktrees` | `ralph run`, `ralph loops`, the merge agent |
| a run (`ralph-cli/src/main.rs`, `loop_runner.rs`, `loop_completion.rs`) | where it is | lock or worktree, preflight, register, event loop, `handle_termination` | users, `process_pending_merges` |
| `ralph loops` and the API's loop domain (`loops.rs`, `loop_domain.rs`) | none of their own | process, retry, merge, discard, stop, resume, prune, list | users |
| event loop (`event_loop/mod.rs`, `loop_state.rs`) | `LoopState` | one iteration: prompt, agent, events read back; termination and completion checks | a run |
| event bus (`ralph-proto/src/event_bus.rs`, `hat.rs`, `topic.rs`) | pending events per hat, pending human events | publish, take, has pending | the event loop |
| hats (`hat_registry.rs`, `config.rs`) | activations, exhausted and active hats (in `LoopState`) | find by topic, activate, default_publishes, scope | the event loop |
| events reader (`event_reader.rs`) | a byte position in the event log | read what is new, jump to a position or to the end | the event loop, the robot services |
| Telegram bot (`ralph-telegram`), web robot (`web_robot_service.rs`, `robot_domain.rs`) | `telegram-state.json`; question and response files | ask, wait, poll, handle a message, guidance | the event loop, the human |
| completion judge (`completion_judge.rs`, `jev/`) | rejections so far | a verdict on a completion | the event loop |
| hooks, suspend state (`hooks/`, `loop_runner.rs`) | `suspend-state.json`, `resume-requested`, `stop-requested`, `restart-requested` | dispatch, retry, suspend, wait, resume | a run, `ralph loops resume` and `stop`, `/restart` |
| waves (`wave_tracker.rs`, `wave_detection.rs`) | active waves and their results, the workers' own event files | spawn, join, time out, record, merge | a run |
| tasks, memories, history (`task_store.rs`, `memory_store.rs`, `loop_history.rs`) | files shared by loops | read-modify-write under a flock, append | agents, the event loop |
| API server (`ralph-api`) | idempotency store, stream subscriptions, sessions | requests | web dashboard |
| web server queue (`backend/ralph-web-server`: `TaskBridge`, `PersistentTaskQueueService`, `Dispatcher`, `ProcessSupervisor`, `RalphRunner`) | tables `tasks` and `queued_tasks`, the queue and maps in memory, `pid` and `status.json` per task | run, retry, cancel, close, poll, time out, finish, shut down, restart | web dashboard |

What is not modelled, and why, is at the end.

What is hard here is the usual price of files instead of a server: an operation
is a read and a later write with other processes in between; a process may die at
any point and leave what it had half done; a lock is released by the kernel but
what its holder wrote stays; and a process that nobody wakes up does nothing.
Inside a process it is waits: for a hook, a worker, a human or a child process,
each under a timeout, with signals and late answers that come in while it waits
and things said to it that are read only afterwards.

What makes the parts correct:

- queue: nobody acts on a state the file never showed; histories make sense; what
  is called merged is merged, what is called merging is being merged; nothing that
  waits is forgotten;
- lock: one primary loop; the file names it; waiters get in;
- merging: one merge at a time and none beside a primary loop; only finished loops
  are merged; the work of a loop is in its worktree or in the main branch;
- event loop: it ends; it ends as completed only through every gate, on the
  strength of the lines it has read and of a claim that was not refused before;
- hats: no event is dropped but an exhausted hat's; limits hold where the routing is
  clear; an empty bus is filled again or the loop ends;
- hooks: verdicts stand, the suspend-state tells the truth, a stop is final and
  answered, and every run ends;
- waves: no worker is run, killed or heard beside the next iteration, one that is
  shown as done was heard in full, and each index is answered for;
- humans: each event is taken up once, each question ends, by the answer to it;
- web queue: the last run of a task decides its status, one process at a time works
  on a task as long as the task names its run, what is pending is served.

## Modules

```
MergeLog        the queue's file as data: lines, what can be read back, states
MergeQueue      its operations, by any number of clients     implements MergeHistory,
MergeHistory    facts that only grow                         and, serialised,
MergeLifecycle  queued -> merging -> merged | needs_review   MergeLifecycle
LoopLock        loop.lock: the flock and the metadata
ParallelLoops   runs, mergers and users around lock and queue (uses MergeQueue's
                actions through INSTANCE, with its processes as the clients)
EventLoop       one loop and its event log: turns, reads, gates, judge, --continue
Hats            the bus and the hats of one loop: routing, limits, scope, defaults
Hooks           one loop after another, their hooks, suspensions and signal files
Waves           one wave: workers, permits, timeouts, results
Robot           questions to a human over Telegram or the web, and the log between
WebTasks        the web server's tasks, runs, dispatcher and processes, restarts
*_proofs        the theorems about each; Workspace_proofs has those of LoopLock
                and of Hooks, which are about one workspace
MC*             the instances that TLC checks
```

### MergeLog, MergeQueue

`log` is the file, one record per write; `pend[c]` is the event that client `c`
has decided to append, or `Idle`. `Check` is the first half of the four checked
operations (`get_entry`, then the test of the state) and `AppendEvent` is
`append_event`; `enqueue` has no check and may come from any state. A line
carries `seen`, the length of the file when its writer read it: it is not in the
file, and lets the invariants speak of what the writer knew. A crash comes
between the halves (`CrashBeforeAppend`) or inside `writeln!` (`CrashInAppend`),
which leaves a line without its newline or a line cut in the JSON. From then on
`Readable` is false, as `read_all_events` fails on the first line that is not
JSON, and only `enqueue` still works.

An empty file and a missing one read the same. The prompt, the pid, the commit
and the reason of an event are left out. The code retries nothing and neither
does the model.

### LoopLock

`holder` has the flock, `meta` is the process whose metadata the file holds.
`write_metadata` truncates (`Truncate`) and then writes (`Sign`), and a refused
process reads without the lock (`ReadHolder`, `ReadNothing`). `is_locked` obtains
the lock to find out whether it is free (`probing`). A process may die anywhere;
the kernel then frees the flock. The definitions that every module has (`Init`,
`Next`, `TypeOK`) begin with `Lock` here, so that the module can be extended
together with Hooks.

### ParallelLoops

A process is a run, a merger or a user. `pc` is where it is, in the terms of
`run_command` and `run_loop_impl`; `trees`, `registered` and `landed` are the
worktrees, the entries of the registry, and the branches merged into the main
branch. The queue's operations are `Queue!MarkMerging(m, job[m])` and so on, so a
process that decided may find the file changed when it appends. The event loop
is one phase that ends with the completion promise or without it; what the agent
of a merger does to the worktree (`MergesBranch`) is taken from the merge-loop
preset and marked external, as is its promise being given only after the merge.

A run that was refused the lock is the worktree loop of its own name.
`process_pending_merges` lists the queued loops once and then spawns a merger for
each; mergers wait for the lock in any order. A user runs one command.
`ralph loops merge` and `retry` wait for the merger they spawned, holding
nothing; the model lets them leave. Discard removes the worktree and its branch.

Left out: `features.parallel: false` and runs of users with `--exclusive` (the
first ends like a run that could not parse the metadata, the second waits like a
merger), `ralph loops stop`, `resume`, `prune`, `rebase`, `review`, reuse of the
name of a removed worktree, and reuse of pids.

### EventLoop

`ParallelLoops` takes a loop for one phase; this module opens it. `file` is the
event log by topics, `st` is `LoopState`, `pos` the lines behind the event reader.
`pc` follows `run_loop_impl`: `top` (`check_termination`, then `next_hat`), `agent`,
`reading` (`process_events_from_jsonl`), `checking` (`check_cancellation_event`,
`check_completion_event`), `judging`. `site` says for which of its reads and checks
that is: after the turn, the polls when the output speaks of `ralph emit` and no
event was there, the late reads when nothing is pending, and the promise in the
output text. Where the code goes from a check is `GoOn`, the same after each
outcome that does not end the loop. What the agent started may write lines after the
turn, while the polls read them (`Emit`).

`Process` is `process_parse_result` on the set of lines of one read: what counts as
a claim (only the last event), as a cancel event (anywhere), what guidance is still
owed an answer, which topics were seen after backpressure, the repeated and the
malformed events. `Refused` is the gates before the judge in one formula, as they all
publish `task.resume` and drop the claim. `Replay` is `--continue`: it takes all
topics of the log for seen, and processes the lines after the last `loop.terminate`.

The judge's verdict is any, as is the success of a turn, whether it leaves open
tasks, and whether the cost or the time is used up (`EndAtTop`, also an interrupt).
`proof` and `boast` are a `build.done` with and without the evidence that
backpressure asks for. Lines of one kind have equal payloads, so repetition is of
kinds. Memories are taken to be enabled, without which open tasks are not looked at.

Left out: custom hats (Hats; here one hat receives everything), waves (Waves),
`human.interact` (Robot), hooks and restart requests (Hooks), the abandonment of a
task blocked three times, and `consecutive_fallbacks` (`next_hat` finds the
injected event and resets it, so it never passes one). The four modules that fill
these gaps each take from the event loop only what their part of it touches: put
together in one instance they would multiply their states without new
interactions, since a wave, a question and a hook each stop the loop until they are
over.

### Hats

`events` is every event that was published; `pending` and `human` are the queues of
`EventBus` as indices into it, `counts`, `exhausted` and `active` the fields of
`LoopState`. `BuildPrompt` is `next_hat`, `build_prompt` and `process_output`'s
record of activations in one: it takes what waits for any hat, drops the queues of
hats that are at their limit and publishes `<hat>.exhausted`, and derives the active
hats from the topics and targets it shows. `Read` is `process_parse_result` on the
lines of the turn with scope, validation and default; `NothingPending` and the read
after it are `recover_late_events_before_fallback` and `inject_fallback_event`. A
configuration (`Topology`) gives patterns by the topics they match. `Kept` filters the
lines of a read; it is a recursive function and not `SelectSeq`, since about the latter
nothing can be proved here.

### Hooks

A session is one run in the workspace; the signal files outlive it. `at` is the
boundary of `run_loop_impl`, `step` whether the phase runs a hook, waits out a
retry's delay, holds for a retry (`wait_then_retry`) or stands at the gate
(`wait_for_resume_if_suspended`). `RunHook` is `dispatch_hook_with_suspend_policy`;
a hook either passes or fails. `ralph loops resume` is two steps, the look at
suspend-state and the signal. Left out: what a hook prints and the JSON it may
hand on, parallel sessions in one workspace (the lock forbids them), and where the
operator's command found the workspace.

### Waves

A worker is a tokio task (`task`) that starts a process (`child`) with an events file
of its own (`box`). The two are apart, since either may end first: `Ends` is the end of
the task, with what it reports, and says what becomes of the process. A PTY worker
waits for its process, but not for ever (`WorkerFinishes`), kills its group at the
timeout (`WorkerTimesOut`, `KilledWorkerReports`), leaves it when the reader of the
terminal cannot be had (`ReaderFails`), and a panic leaves it alive. An ACP worker kills
the group however it ends, panic included (`ChildKillGuard`). `success` is what the
task tells the progress channel. Permits and senders go with the task: `Spawn` waits for
a permit; `AggregateTimeout` leaves the handles while the tasks run on until the channel
closes (`Drained`); `Sweep` fails the indices without a result, `Merge` appends,
`Reread` reads back what the hat scope and the dispatch of waves let through (`passes`).
`Items` and `Total` differ when an agent emitted some events of a wave and not others.

Left out: processes that a worker starts itself, an ACP worker whose process only
starts once its time is up, and errors of the disk.

### Robot

The log is a sequence of cells, two to a line and one for its newline, so that a
line can be read while it is half written: `ralph emit`, the message handler and the
API write a line and its newline one after the other. `Read` counts every line with
a newline, as `read_new_events` does. Lines are told apart by where they begin: `taken`
and `again` remember the lines that the loop has taken up once and more than once. With
Telegram, `poll` is the polling task with
the copy of `telegram-state.json` it loaded; `HandleMessage` files a message as
`human.response` or `human.guidance`. With the web, `card` and `reply` are the
question and response files, told apart by tokens. `SkipConsumed` and `Settle` move
the reader past the answer.

### WebTasks

`status` and `queuedTaskId` are columns of `tasks`, `taskOf` and `row` of
`queued_tasks`; `queue`, `taskIdMap` and `runningTasks` are the memory of one life of
the server, and `children` remembers which runs that life spawned; `lost` are rows whose
task does not name them, as the server died between the two writes. Node's event loop makes each handler one step; a crash comes between two
writes of the database (`CrashEnqueueing`, `CrashRetrying`, `CrashStarting`,
`CrashFinishing`) or at any other time (`Crash`). Processes are detached and live on:
`proc` is "alive", "terminating" once SIGTERM was sent, "zombie" until the server
that spawned it reaps it, "gone". `pid` and `file` are `pid` and `status.json` in the
directory of the task, which its runs share. `Finish` is the runner's poll that sees
the process gone, `StartRefused` a start that fails before there is a child (the
prompt file, a `spawn` that throws) and `StartFails` one whose error ends the server,
`Timeout` the dispatcher's timer, `Boot` is `serve.ts` with `hydrate`
and `reconnectRunningTasks`. `Run` stands for `task.create`, `task.run`, `task.runAll`
and their REST forms.

Left out: editing, archiving and deleting tasks, `blockedBy`, the output of a run and
its loop id, the configuration files of `ConfigMerger` (only that they may be missing,
`RetryRefused`), planning and the loops manager, reuse of pids, database errors in
`enqueueTask`, and a pid file that cannot be written after the spawn. A poll that starts
several runs is one start after the other, between which nothing else could matter.

## Runs

| run | instance | shows |
|---|---|---|
| `queue` | 2 clients, 2 loops, 5 lines, 1 torn | every event was legal in the prefix its writer had read (`ReadsJustify`), and the queue implements `MergeHistory`: a merge that ended had begun and what began had been queued |
| `lock` | 3 processes, any commands | a running loop is named and alone; a waiter gets in |
| `loops` | 3 runs, 2 mergers, a user who retries or merges, 1 crash, 1 torn line | merged is landed; work is kept; only ended loops are merged; and though checks and appends are not atomic the queue goes through `MergeLifecycle` |
| `loops_live` | 2 runs, 2 mergers, a user with any command, no crash | a spawned merger settles its loop; everyone leaves |
| `loops_orphan` | `ralph loops merge` of an orphan | violation: a loop in preflight is taken for an orphan and merged while it runs |
| `event_loop` | 3 iterations, 5 lines, an agent with six kinds of lines, a judge with a budget of 1, a crash or stop and a `--continue` | completed only with guidance answered and no cancel event; the judge is asked about the last word, once per claim; the process always ends |
| `hats` | 2 hats, 4 configurations, 5 iterations, 4 lines | no event is lost; limits hold where routing is clear; a stall is broken |
| `hooks` | 3 sessions, 3 iterations, hooks of every kind, 4 attempts | the suspend-state is true, verdicts stand, a stop is final and answered, every run ends if the operator asks again |
| `waves` | 3 workers, `wave_total` 4, 2 permits, 1 event each, PTY or ACP | no worker's task outlives its wave; who is shown as done was heard in full and has no process left; every index is answered for; the wave ends |
| `robot` | 2 turns, 2 emitted events, 1 message, both services | no event is read twice or skipped; every question ends |
| `robot_late` | the same | violation: the answer to an earlier question ends the wait for a later one |
| `web_tasks` | 2 tasks, 3 runs, 2 slots, 2 lives | the last run of a task decides its status, the processes a life spawns work on it one at a time but for lost rows, late ends change nothing, a pending run is served |

Bounds. `MaxLog` bounds the lines of the file, `MaxTorn` the appends cut short,
`MaxDead` the crashes, and `Mergers` how many merge-ralph processes are ever
spawned (when they are used up a spawn fails, which the code allows for and
logs). Two clients are enough for every race of a check with an append, and two
loops for one history not to disturb the other; five lines let a loop be queued,
merged, reviewed and merged again. Three runs give a primary loop and two worktree loops
that queue together; two mergers give duplicates for one loop, and a merger
waiting for another. One crash hits every step once.

- `EventLoop`: `MaxLines` is the length of the log up to which agent and humans append
  (the loop itself may still write behind it): guidance, its answer and a claim fit
  into one read in any order, or over several. Three iterations let a claim be
  refused, repeated and judged, `MaxRejections = 1` lets the budget be spent,
  `MaxFailures = 1` lets a failed turn end the loop, and `MaxSessions = 2` is one
  `--continue` (2,782,395 states).
- `Hats` (349,750 states): five iterations exceed every limit of the configurations,
  four lines let two hats be addressed twice or a read mix accepted and refused lines.
- `Hooks` (32,206 states): `Attempts` is the code's own four; three sessions let
  signals and suspend-state be left by one, met by the next and by the one after.
- `Waves` (723,732 states): three workers over two permits leave one waiting when a
  timeout strikes; a total of four gives an index that nobody works on; one event tells
  a worker that spoke from one that did not.
- `Robot` (361,843 states): with two turns a late reply meets the next question; one
  message of the human, to any question or none, at any time, answers in the web included.
- `WebTasks` (1,411,788 states): a task can have a run, its retry and a run that a restart
  restored; two slots and two tasks let runs overlap and wait. The last life of the
  server that `MaxLives` allows has no end, as nothing would follow it.

The proofs below have no bounds.

`CHECK_DEADLOCK FALSE` is set where processes end and nothing restarts them.

Fairness. `WF_vars(Acts(p))` for every process that has started: the OS runs
it, the event loop ends (`check_termination` stops it at `max_iterations` and
`max_runtime_seconds`), and a free flock is given to a waiter. One fairness
condition per process is enough, as a process that waits has nothing else to do and
others release the lock only finitely often in these instances. `EventLoop` has
`WF_vars(Step)`: the process goes on, the agent comes to an end (the adapters stop one
that is idle; that none talks for ever is assumed) and so does the judge (it is killed at `timeout_seconds`). What
is not in `Step` (lines of the agent, guidance, stop requests, crashes, `--continue`)
is not forced, and `AlwaysEnds` does not count on the nondeterministic end by cost or
time: the counted limits suffice. No command, run
or crash is ever forced to happen.

`Hats` and `Robot` have fairness of the loop alone (`WF_vars(Loop)`,
`WF_vars(LoopStep)`): a turn of the agent ends, and a wait for a human may end by its
timeout, which is never 0. Nothing is assumed of the human, the polling task or the
API. `Hooks` has `WF_vars(Runs)`, as hooks run under `timeout_seconds` and an agent
under its idle timeout; `EveryRunEnds` has the operator's fairness as a premise
(`Asking`), since a suspended loop waits for as long as nobody resumes it, and
`StopIsAnswered` does without. `Waves` has the loop's and that of each worker's
task: it ends or runs into its own timeout. Of the workers' processes nothing is assumed.
`WebTasks` has `WF_vars` of the dispatcher's start of
some run, refused or not, and of each `Timeout(q)`, which are a poll and a timer of the server. Processes
need not end, the user need not act, and nobody need restart a server.

## Proofs

`tlapm` checks, for every value of the constants:

- `MergeQueue_proofs`: `TypeOK`, `ReadsJustify`, `HistoryMakesSense`, and the
  refinement of `MergeHistory`. The invariant `IInv` adds `PendJustified`: the
  event a client is holding was justified by the prefix it read. Without it an
  append could not be shown to keep `ReadsJustify`; with it, the argument is that
  a prefix of an append-only file never changes.
- `ParallelLoops_proofs`: `TypeOK`, `MergersHaveTheLock`, `HistoryMakesSense` of the
  system's queue by the theorem of MergeQueue_proofs, as its steps are those of
  MergeQueue's clients (`UsesTheQueue`),
  and `MergedIsLanded` when no user runs the API's merge. Its invariant
  says who may hold a pending event (`Busy`), that a merger past `new` has a loop to
  merge (`JobsNamed`), and which phases have the lock (`LockHeld`). Three more hold
  when users run only the commands that the assumption allows:
  - `MergesEndedLoops` if no user merges an orphan (`loops_orphan` shows what happens
    then). `LoopsOver`: a loop gets into the queue by its own hand, after its event
    loop, and every listing, decision and merger is about a loop with a line in the
    file. It holds across crashes as what a dead process had decided is dropped with it.
  - `WorkIsKept` if, further, no user discards. `Keeping`: a worktree is there before
    its loop is set up, goes when preflight fails, which is before anything is queued,
    or when a merger has landed the branch; whatever has a line is saved.
  - `LifecycleSpec` if the commands are process, retry and merge: the queue goes
    through MergeLifecycle, one transition at a time, though each operation reads
    and later appends. `Serial` is the reason: what a client has checked still holds
    when it appends, since only the merger that has the loop lock has decided to mark
    anything, and a loop that queues itself is not in the file yet.
- `EventLoop_proofs`: `TypeOK` (with it, no loop passes `max_iterations`, the turns
  before `--continue` included), `GuidanceIsAnswered`, `CancelWins`,
  `EachClaimIsAnsweredOnce`, `NothingLingers`, `ClaimIsTheLastWord`, and
  `RequiredAreSeen` if `build.blocked` is not a required event (backpressure makes it
  of a `build.done` without evidence). `IInv` relates
  `LoopState` to the lines read: a debt of guidance, a cancel event and a seen topic are
  what those lines say (`DebtIsKnown`, `CancelIsKnown`, `SeenIsRead`), which a read
  keeps as the log only grows and is read front to back; while the judge is asked
  nothing is read, so what passed the gates still passes them (`GatesPassed`); and each
  claim is settled before another is taken up (`ClaimsCounted`, `TurnIsClean`,
  `ClaimIsLast`). For debts within one read the proof needs that a finite set of
  lines has a last one, which is the well-foundedness of the naturals (`HasLast`).

- `Waves_proofs`: `TypeOK`, `TasksEndWithWave`, `DoneWorkersAreHeard`,
  `WaveIsAccountedFor`, for any number of workers, any `wave_total` and any number of
  permits. `IInv` says that workers are spawned in order (`InTurn`), that a task without
  a report has not ended (`Reported`), that the join and the drain are left only when
  every task has ended (`Waited`, `Quiet`), and what the sweep, the merge and the re-read
  have done by their phase (`Swept`, `Appended`, `ReadBack`, `NothingRead`).
- `Workspace_proofs`, of Hooks: `TypeOK`, `SuspensionIsTrue`, `StopIsFinal`, `VerdictStands`, for any
  configuration of hooks, any number of retries, iterations and sessions. `IInv` says
  in which phases a loop waits (`WaitsInPhase`), that a hook under retry has attempts
  left (`AttemptsLeft`), that the gate is reached only without a block (`GateIsClean`),
  that the terminate event names the reason that stands (`WrittenBefore`), and that
  iterations keep to their limit (`IterationAllowed`).
  Of LoopLock, for any processes and commands: `LockTypeOK`, `RunningLoopIsNamed`,
  `NamedProcessHadTheLock`. The strengthening is `HolderInside`: a process is in a phase
  with the lock exactly if the kernel gave it the flock.
- `WebTasks_proofs`: `TypeOK`, `LastRunSpeaks`, `OneAtATime`, `LateEndsAreIgnored`, for
  any number of tasks, priorities, runs, slots and restarts. `OneAtATime` is not
  inductive, nor is `LastRunSpeaks`: the point is `Known`, which says of each run the
  bridge knows that it is the last of its task, that its task has not failed, that no
  later run of its task waits, and that once it executes no run of its task waits and
  the pid in the task's directory is its own. A run that a restart restored is not known;
  if its task was told of it, nothing makes that task fail or run again (`Waits`,
  `Quiet`), through any number of lives. `Heard` puts the two together: whatever waits,
  or works for this life, is known or is the last and quiet run of its task, and so is
  one of a kind. `Mirror` and `Spawned` tie rows and processes to the queue, `Truthful`
  and `Detached` the status to the run or to the process found at the start.
- `Hats_proofs`: `TypeOK`, `NothingIsLost`, `ClearRoutingHolds`, for any hats, limits,
  patterns and lines. `NothingIsLost` becomes inductive with `Delivered`: an event that
  waits for a hat was routed to it and waits for all hats it was routed to, so a prompt
  takes it from all or, when they are barred, from none. The limits need `Running` (the
  loop is over after its last iteration, which bounds the hats that have no limit). What
  a read keeps is `Kept`, a recursive function; that it keeps only good lines
  (`KeptIsGood`) is shown from the least length at which it would not, which is the
  well-foundedness of the naturals (`LeastNumber`).
- `Robot_proofs`: `TypeOK`, `ReadExactlyOnce`, for any number of turns, lines, messages
  and questions, with either service. That two lines have run together is irrevocable as
  the log only grows, so the invariant speaks of the reader under that premise:
  it is between lines (`BetweenLines`), and what was taken up is behind it
  (`TakenIsBehind`). A read from there takes up just the lines it passes. A wait scans
  from a mark that the reader has not passed (`WaitIsAhead`), so the answer it finds is
  still unread, and going behind it takes up what stood before it and nothing twice.
  `LinesAreWhole` (the two cells of a line stay together, whoever writes next) and
  `AnswerStands` (an answer in hand is a response in the log) are what this needs of the
  log. `DataOK` and `OneService` type the cells and messages, and say that the service a
  run does not have is at rest.

They assume what the named `ASSUME`s of the modules say: the model values are
distinct from one another, and the bounds are numbers.

`LockTypeOK` and `NamedProcessHadTheLock` of LoopLock, `TypeOK` and `MergersHaveTheLock`
of ParallelLoops, `HistoryMakesSense` of MergeQueue, and `NothingLingers` and
`RequiredAreSeen` of EventLoop are proved and in no run; TLC agreed with them before
they were proved.

Every invariant, action property and refinement that a passing run checks is proved.
Only model-checked are the liveness properties, as fairness and ENABLED are out of the
prover's reach: `WaiterGetsIn`, `SpawnedMergerSettles`, `EveryoneLeaves`, `AlwaysEnds`,
`StallIsBroken`, `StopIsAnswered`, `EveryRunEnds`, `WaveEnds`, `EveryQuestionEnds` and
`EveryRunIsServed`.

## Known disagreements

Two are runs that end in a violation, and PROJECT.json quotes the sentence of the code
that the run contradicts: `loops_orphan` (a registration that comes after the check it
is meant for) and `robot_late` (a late reply ends the wait for the next question).

The others are in the models as the code has them, and the properties are stated so
that they hold beside them:

- queue and lock: `is_locked` takes the lock to look at it (`loop_lock.rs:264`), so a
  run that starts just then goes to a worktree though no loop runs. A loop queued
  after the last primary loop looked is merged by nobody (`loop_runner.rs:871`).
  The API's `loop.merge` marks a loop merged without a merge (`loop_domain.rs:386`). The
  entry of a merger that died stays merging (`merge_queue.rs:128`).
- event loop: guidance read before a stop or a crash is not owed an answer after
  `--continue` (`event_loop/mod.rs:943`). `resume` looks and then writes
  (`loops.rs:919-964`), so its signal may release a later suspension.
- hats: `max_activations` (`config.rs:2103`) is exceeded where the patterns of hats
  overlap, as activation goes by topic and the limit by queue
  (`event_loop/mod.rs:1165`, `1801`). The scope of the active hats is applied to
  `human.guidance` and `loop.cancel` lines too, which are then dropped
  (`event_loop/mod.rs:2552`). The audit of file modifications (`config.rs:2118`) never
  runs in multi-hat mode, as `process_output` is called for "ralph", who has no
  configuration (`event_loop/mod.rs:2096`).
- waves: a worker's process may outlive its task and its wave: after a panic or when the
  reader of its terminal fails (`loop_runner.rs:6125`) nobody kills it, and the wait for
  its exit ends after 5 s (`loop_runner.rs:6211`). It then works beside the next
  iteration, its permit is another's, so that there are more processes than
  `hat.concurrency`, and what it emits is read by nobody. The warning of the aggregate
  timeout says "cancelling remaining workers" (`loop_runner.rs:5577`), but none is
  cancelled. Results, and the stand-ins of failed workers, may be dropped
  when they are read back: with `enforce_hat_scope` if the active hats may not publish
  them, and if a concurrent hat is triggered by them, as they carry a wave id
  (`event_loop/mod.rs:2552`, `3337`). After the aggregate timeout "the aggregator activates with whatever results
  are available" (`config.rs:2156`), but the results of workers that had finished are
  discarded as well (`loop_runner.rs:5578`).
- robot: after a web answer the reader is set to the length measured after the answer
  was recorded, and lines appended between the two measurements are skipped
  (`event_loop/mod.rs:3222`). `append_event` says "atomically" (`handler.rs:144`) of a
  `writeln!`, which is two writes.
- web server: when the server dies between the row of a run and the task that names it
  (`TaskBridge.ts:477-492`), the next life restores the row while the task, still open,
  can be run again, and two processes work on the task at once; `OneAtATime` leaves such
  rows out (`lost`). It speaks of the processes that one life spawned: detached ones of
  an earlier life may work beside them. `taskIdMap` is not restored, so the outcome of a run that a restart
  restored reaches no task, and its task cannot be run again ("already queued") while
  that server lives; nor can a task whose run has ended, except through `retry`. A
  task that a restart finds with its process stays running after the process has ended,
  until it is cancelled. A ralph that was killed from outside is recorded as
  closed (`RunnerState.CANCELLED` is returned by the handler like a success). A forced
  shutdown leaves the status running, as nobody subscribes to `task.cancelled`, and
  writes "cancelled" into a column declared without it (`schema.ts:60`). Closing a task
  leaves its process running. `status.json` belongs to the task, so the exit of a run
  that timed out may be read as the end of its retry. `recoverCrashed` and
  `recoverStuckTasks` are called by nothing.

The design note `.ralph/tasks/multi-loop-concurrency.code-task.md` also describes
a merge lock of its own and merge loops that run beside a primary loop. The code
has neither: merge-ralph is started with `--exclusive` and takes the loop lock,
which is what `MergersHaveTheLock` says.

## Not modelled

- The registry's file (`loop_registry.rs`): rewritten in place, so that a crash leaves
  it empty, and pruned by pid, which may be reused. ParallelLoops has it as a set.
- `ralph loops stop` and `prune`: stop reads the lock metadata of a worktree, which
  worktree loops never write; discard of a loop that runs leaves a queued entry without
  a worktree.
- Stop requests are looked at after the counted limits, so a loop that ends by a limit
  leaves the request to the next; Hooks and EventLoop have this, and the code does not say
  whose stop it was.
- Task and memory stores, loop history: read-modify-write under one flock, with no
  second critical section to interleave.
- The API server: its idempotency store and streams.
- Adapters, terminal UI, web dashboard, the harnesses and the gauntlet's judge:
  I/O, rendering and prompts. They are most of the code by lines, with the reading and
  validation of the configuration, which is why the modules stand for a small share of
  it and for most of its concurrency.

## Plan

1. `LoopRegistry`: the file under `with_lock`, crashes between `set_len(0)` and the
   write, pruning by pid; then ParallelLoops with stop and prune.
2. `Idempotency`: the API's store, whose check and store are separate critical
   sections.
3. Task and memory stores, shared by the loops of a repository.
4. Proofs: all safety of the present modules is proved. What could be said more
   strongly: `MergedIsLanded` and `WorkIsKept` for systems with discards, of the loops
   that nobody discarded; `ReadExactlyOnce` for the lines before the first two that ran
   together; and the theorems of the modules above.

Modules that share a file or a caller are to be composed into one instance where that
keeps the instance small, so that a run shows them together and the runs stay few.
