------------------------------ MODULE WebTasks ------------------------------
(***************************************************************************)
(* The task queue of the web server (backend/ralph-web-server): the        *)
(* TaskBridge between the tasks of the database and the runs of the queue, *)
(* the PersistentTaskQueueService and its rows, the Dispatcher, and the    *)
(* detached ralph processes of the ProcessSupervisor, which outlive the    *)
(* server.                                                                 *)
(*                                                                         *)
(* The server is one event loop: a step is what it does between two turns  *)
(* of the loop, and only its death cuts a step between two writes of the   *)
(* database.                                                               *)
(***************************************************************************)
EXTENDS Naturals, FiniteSets

CONSTANTS
    Tasks,          \* tasks of the database
    Priority,       \* the priority of each task, lower goes first
    MaxRuns,        \* bound: runs enqueued, over all lives of the server
    MaxConcurrent,  \* runs that may execute at once (RALPH_MAX_CONCURRENT)
    MaxLives,       \* bound: lives of the server
    NoTask, NoRun

ASSUME ConstantsOK ==
    /\ Priority \in [Tasks -> Nat]
    /\ MaxRuns \in Nat
    /\ MaxConcurrent \in Nat \ {0}
    /\ MaxLives \in Nat \ {0}
    /\ NoTask \notin Tasks
    /\ NoRun \notin 1..MaxRuns

\* Runs are numbered in the order of their creation.
Runs == 1..MaxRuns

VARIABLES
    status, queuedTaskId,       \* table tasks
    taskOf, row,                \* table queued_tasks: payload.dbTaskId, state
    lost,                       \* history: rows whose task was not told
    server, lives,              \* "up", "stopping" (graceful), "down"
    queue, taskIdMap,           \* memory of the queue and of the bridge
    runningTasks,               \* memory of the dispatcher
    children,                   \* processes spawned in this life
    attached,                   \* tasks reconnectRunningTasks found running
    proc,                       \* the process of a run
    pid, file                   \* pid and status.json of a task's directory

database == <<status, queuedTaskId, taskOf, row, lost>>
memory == <<queue, taskIdMap, runningTasks, children, attached>>
files == <<pid, file>>
vars == <<database, server, lives, memory, proc, files>>

Statuses == {"open", "pending", "running", "closed", "failed"}
RunStates == {"none", "pending", "running", "completed", "failed", "cancelled"}

\* How a process ends: exit code 0, SIGTERM or SIGKILL; or another code.
Ends == {"good", "bad"}
Procs == {"none", "alive", "terminating", "zombie", "gone"}

TypeOK ==
    /\ status \in [Tasks -> Statuses]
    /\ queuedTaskId \in [Tasks -> Runs \cup {NoRun}]
    /\ taskOf \in [Runs -> Tasks \cup {NoTask}]
    /\ row \in [Runs -> RunStates]
    /\ lost \subseteq Runs
    /\ server \in {"up", "stopping", "down"}
    /\ lives \in 1..MaxLives
    /\ queue \in [Runs -> RunStates]
    /\ taskIdMap \subseteq Runs
    /\ runningTasks \subseteq Runs
    /\ children \subseteq Runs
    /\ attached \subseteq Tasks
    /\ proc \in [Runs -> Procs]
    /\ pid \in [Tasks -> Runs \cup {NoRun}]
    /\ file \in [Tasks -> Ends \cup {"none", "running"}]

Init ==
    /\ status = [t \in Tasks |-> "open"]
    /\ queuedTaskId = [t \in Tasks |-> NoRun]
    /\ taskOf = [q \in Runs |-> NoTask]
    /\ row = [q \in Runs |-> "none"]
    /\ lost = {}
    /\ server = "up"
    /\ lives = 1
    /\ queue = [q \in Runs |-> "none"]
    /\ taskIdMap = {}
    /\ runningTasks = {}
    /\ children = {}
    /\ attached = {}
    /\ proc = [q \in Runs |-> "none"]
    /\ pid = [t \in Tasks |-> NoRun]
    /\ file = [t \in Tasks |-> "none"]

-----------------------------------------------------------------------------
(* Helpers                                                                 *)

Serving == server \in {"up", "stopping"}

\* isAlive: signal 0 reaches a process, a zombie too, until it is reaped.
IsAlive(q) == proc[q] \in {"alive", "terminating", "zombie"}

\* SIGTERM to a process, if it is there to take it.
Sigterm(Q) == [q \in Runs |->
    IF q \in Q /\ proc[q] = "alive" THEN "terminating" ELSE proc[q]]

(***************************************************************************)
(* The end of the server: its memory goes, and init reaps its zombies.     *)
(* The last life that MaxLives allows has no end.                          *)
(***************************************************************************)
Dies(p) ==
    /\ lives < MaxLives
    /\ server' = "down"
    /\ queue' = [q \in Runs |-> "none"]
    /\ taskIdMap' = {}
    /\ runningTasks' = {}
    /\ children' = {}
    /\ attached' = {}
    /\ proc' = [q \in Runs |-> IF p[q] = "zombie" THEN "gone" ELSE p[q]]
    /\ UNCHANGED lives

-----------------------------------------------------------------------------
(* Requests of the user                                                    *)

\* generateId: the next number.
IsNext(q) ==
    /\ taskOf[q] = NoTask
    /\ \A r \in Runs : r < q => taskOf[r] # NoTask

\* enqueue's row in queued_tasks.
CreateRow(t, q) ==
    /\ IsNext(q)
    /\ taskOf' = [taskOf EXCEPT ![q] = t]
    /\ row' = [row EXCEPT ![q] = "pending"]

\* enqueueTask, past its checks.
Enqueue(t, q) ==
    /\ CreateRow(t, q)
    /\ queue' = [queue EXCEPT ![q] = "pending"]
    /\ taskIdMap' = taskIdMap \cup {q}
    /\ attached' = attached \ {t}
    /\ status' = [status EXCEPT ![t] = "pending"]
    /\ queuedTaskId' = [queuedTaskId EXCEPT ![t] = q]
    /\ UNCHANGED <<lost, server, lives, runningTasks, children, proc, files>>

\* Not running, and its last run unknown to the queue of this life.
MayRun(t) ==
    /\ status[t] # "running"
    /\ queuedTaskId[t] # NoRun => queue[queuedTaskId[t]] = "none"

\* Mutant: without the look at the queue.
RunAgain(t) ==
    /\ Serving
    /\ status[t] # "running"
    /\ \E q \in Runs : Enqueue(t, q)

\* task.create, task.run, task.runAll and their REST forms.
Run(t) ==
    /\ Serving
    /\ MayRun(t)
    /\ \E q \in Runs : Enqueue(t, q)

\* retryTask.
Retry(t) ==
    /\ Serving
    /\ status[t] = "failed"
    /\ \E q \in Runs : Enqueue(t, q)

\* The task is open again, but ConfigMerger finds no configuration.
RetryRefused(t) ==
    /\ Serving
    /\ status[t] = "failed"
    /\ status' = [status EXCEPT ![t] = "open"]
    /\ queuedTaskId' = [queuedTaskId EXCEPT ![t] = NoRun]
    /\ UNCHANGED <<taskOf, row, lost, server, lives, memory, proc, files>>

(***************************************************************************)
(* cancelTask.  ProcessSupervisor.stop signals the process whose pid is in *)
(* the task's directory and blocks the event loop until it has ended, so   *)
(* that a child becomes a zombie that is reaped later.  A task without a   *)
(* pid cannot be cancelled.                                                *)
(***************************************************************************)
Ended(q) == [proc EXCEPT ![q] =
    IF @ \in {"alive", "terminating"}
      THEN IF q \in children THEN "zombie" ELSE "gone"
      ELSE @]

\* Mutant: the mapping is left.
CancelStillMapped(t) ==
    /\ Serving
    /\ status[t] = "running"
    /\ pid[t] # NoRun
    /\ proc' = Ended(pid[t])
    /\ status' = [status EXCEPT ![t] = "failed"]
    /\ UNCHANGED <<queuedTaskId, taskOf, row, lost, server, lives, memory, files>>

Cancel(t) ==
    /\ Serving
    /\ status[t] = "running"
    /\ pid[t] # NoRun
    /\ proc' = Ended(pid[t])
    /\ status' = [status EXCEPT ![t] = "failed"]
    /\ taskIdMap' = taskIdMap \ {queuedTaskId[t]}
    /\ UNCHANGED <<queuedTaskId, taskOf, row, lost, server, lives, queue,
                   runningTasks, children, attached, files>>

(***************************************************************************)
(* task.close while a run of the task is under way: nobody tells the run.  *)
(* (At any other time the task is then as good as open.)                   *)
(***************************************************************************)
Close(t) ==
    /\ Serving
    /\ status[t] \in {"pending", "running"}
    /\ status' = [status EXCEPT ![t] = "closed"]
    /\ UNCHANGED <<queuedTaskId, taskOf, row, lost, server, lives, memory,
                   proc, files>>

-----------------------------------------------------------------------------
(* The dispatcher                                                          *)

\* dequeue: by priority, then in the order of creation.
Precedes(q, r) ==
    LET p == Priority[taskOf[q]]
        o == Priority[taskOf[r]]
    IN  p < o \/ (p = o /\ q < r)

MayStart(q) ==
    /\ server = "up"
    /\ Cardinality(runningTasks) < MaxConcurrent
    /\ queue[q] = "pending"
    /\ \A r \in Runs \ {q} : queue[r] = "pending" => Precedes(q, r)

\* handleTaskStarted, handleTaskFailed, ...: of runs this life has enqueued.
Record(q, s) ==
    status' = IF q \in taskIdMap THEN [status EXCEPT ![taskOf[q]] = s]
                                 ELSE status

(***************************************************************************)
(* poll and executeTask up to the spawned process: the row, task.started,  *)
(* the new status.json, the process and its pid.                           *)
(***************************************************************************)
Start(q) ==
    /\ MayStart(q)
    /\ row' = [row EXCEPT ![q] = "running"]
    /\ queue' = [queue EXCEPT ![q] = "running"]
    /\ runningTasks' = runningTasks \cup {q}
    /\ Record(q, "running")
    /\ proc' = [proc EXCEPT ![q] = "alive"]
    /\ children' = children \cup {q}
    /\ pid' = [pid EXCEPT ![taskOf[q]] = q]
    /\ file' = [file EXCEPT ![taskOf[q]] = "running"]
    /\ UNCHANGED <<queuedTaskId, taskOf, lost, server, lives, taskIdMap,
                   attached>>

(***************************************************************************)
(* spawn finds no program: the run and the task fail, and then the child's *)
(* error event, which nobody listens to, ends the server.                  *)
(***************************************************************************)
StartFails(q) ==
    /\ MayStart(q)
    /\ row' = [row EXCEPT ![q] = "failed"]
    /\ Record(q, "failed")
    /\ file' = [file EXCEPT ![taskOf[q]] = "running"]
    /\ Dies(proc)
    /\ UNCHANGED <<queuedTaskId, taskOf, lost, pid>>

\* complete, fail: the queue, its row, and the slot of the dispatcher.
Leave(q, s) ==
    /\ row' = [row EXCEPT ![q] = s]
    /\ queue' = [queue EXCEPT ![q] = s]
    /\ runningTasks' = runningTasks \ {q}
    /\ taskIdMap' = taskIdMap \ {q}

(***************************************************************************)
(* The prompt file cannot be written, or the directory, the logs or the    *)
(* arguments of the process make spawn throw, before there is a child: the *)
(* run fails, and the server goes on.  The new status.json may be there.   *)
(***************************************************************************)
StartRefused(q) ==
    /\ MayStart(q)
    /\ Leave(q, "failed")
    /\ Record(q, "failed")
    /\ file' \in {file, [file EXCEPT ![taskOf[q]] = "running"]}
    /\ UNCHANGED <<queuedTaskId, taskOf, lost, server, lives, children,
                   attached, proc, pid>>

\* External: a ralph process ends.  A child stays a zombie until reaped.
ProcessEnds(q) ==
    /\ proc[q] \in {"alive", "terminating"}
    /\ proc' = Ended(q)
    /\ UNCHANGED <<database, server, lives, memory, files>>

\* The exit event of a child: status.json says how it ended.
Reap(q) ==
    /\ Serving
    /\ proc[q] = "zombie"
    /\ proc' = [proc EXCEPT ![q] = "gone"]
    /\ \E how \in Ends : file' = [file EXCEPT ![taskOf[q]] = how]
    /\ UNCHANGED <<database, server, lives, memory, pid>>

\* Mutant: the state of the run is written for the status of the task.
FinishUntranslated(q) ==
    LET t == taskOf[q]
        good == file[t] = "good"
    IN  /\ Serving
        /\ q \in runningTasks
        /\ ~IsAlive(q)
        /\ Leave(q, IF good THEN "completed" ELSE "failed")
        /\ Record(q, IF good THEN "completed" ELSE "failed")
        /\ UNCHANGED <<queuedTaskId, taskOf, lost, server, lives, children,
                       attached, proc, files>>

(***************************************************************************)
(* The runner sees the process gone and reads status.json: zero, or a      *)
(* signal (RunnerState.CANCELLED, which the handler returns), completes.   *)
(***************************************************************************)
Finish(q) ==
    LET t == taskOf[q]
        good == file[t] = "good"
    IN  /\ Serving
        /\ q \in runningTasks
        /\ ~IsAlive(q)
        /\ Leave(q, IF good THEN "completed" ELSE "failed")
        /\ Record(q, IF good THEN "closed" ELSE "failed")
        /\ UNCHANGED <<queuedTaskId, taskOf, lost, server, lives, children,
                       attached, proc, files>>

\* Mutant: the slot is freed only when the process has ended.
TimeoutKeepsSlot(q) ==
    /\ Serving
    /\ q \in runningTasks
    /\ row' = [row EXCEPT ![q] = "failed"]
    /\ queue' = [queue EXCEPT ![q] = "failed"]
    /\ taskIdMap' = taskIdMap \ {q}
    /\ Record(q, "failed")
    /\ proc' = Sigterm({q})
    /\ UNCHANGED <<queuedTaskId, taskOf, lost, server, lives, runningTasks,
                   children, attached, files>>

\* taskTimeoutMs: the run fails at once, and its process is told to end.
Timeout(q) ==
    /\ Serving
    /\ q \in runningTasks
    /\ Leave(q, "failed")
    /\ Record(q, "failed")
    /\ proc' = Sigterm({q})
    /\ UNCHANGED <<queuedTaskId, taskOf, lost, server, lives, children,
                   attached, files>>

-----------------------------------------------------------------------------
(* The end of the server, and its start                                    *)

\* SIGTERM or SIGINT: nothing is started any more.
StopServer ==
    /\ server = "up"
    /\ server' = "stopping"
    /\ UNCHANGED <<database, lives, memory, proc, files>>

\* dispatcher.stop has waited for the last run.
StopDone ==
    /\ server = "stopping"
    /\ runningTasks = {}
    /\ Dies(proc)
    /\ UNCHANGED <<database, files>>

\* It has waited long enough: the runs are aborted, and their rows cancelled.
StopForced ==
    /\ server = "stopping"
    /\ row' = [q \in Runs |-> IF q \in runningTasks THEN "cancelled"
                                                    ELSE row[q]]
    /\ Dies(Sigterm(runningTasks))
    /\ UNCHANGED <<status, queuedTaskId, taskOf, lost, files>>

Crash ==
    /\ Serving
    /\ Dies(proc)
    /\ UNCHANGED <<database, files>>

\* A row whose task is not told of it: the next start takes it up all the same.
LoseRow(t, q) == CreateRow(t, q) /\ lost' = lost \cup {q}

\* The server dies when a run has its row and its task does not name it yet.
CrashEnqueueing(t) ==
    /\ Serving
    /\ MayRun(t)
    /\ \E q \in Runs : LoseRow(t, q)
    /\ Dies(proc)
    /\ UNCHANGED <<status, queuedTaskId, files>>

\* ... when a failed task is open again, or has the row of its new run too.
CrashRetrying(t) ==
    /\ Serving
    /\ status[t] = "failed"
    /\ \/ UNCHANGED <<taskOf, row, lost>>
       \/ \E q \in Runs : LoseRow(t, q)
    /\ status' = [status EXCEPT ![t] = "open"]
    /\ queuedTaskId' = [queuedTaskId EXCEPT ![t] = NoRun]
    /\ Dies(proc)
    /\ UNCHANGED files

(***************************************************************************)
(* ... between the writes of a start: after the row, after task.started,   *)
(* after the process, whose pid is not in its file yet, or after the row   *)
(* of a run that could not be started.                                     *)
(***************************************************************************)
CrashStarting(q) ==
    LET RowIs(s) == row' = [row EXCEPT ![q] = s]
        fresh == [file EXCEPT ![taskOf[q]] = "running"]
    IN
    /\ MayStart(q)
    /\ \/ RowIs("running") /\ UNCHANGED <<status, file>> /\ Dies(proc)
       \/ /\ RowIs("running") \/ RowIs("failed")
          /\ Record(q, "running")
          /\ file' \in {file, fresh}
          /\ Dies(proc)
       \/ /\ RowIs("running")
          /\ Record(q, "running")
          /\ file' = fresh
          /\ Dies([proc EXCEPT ![q] = "alive"])
    /\ UNCHANGED <<queuedTaskId, taskOf, lost, pid>>

\* ... when the outcome of a run is in its row and not in its task.
CrashFinishing(q) ==
    /\ Serving
    /\ q \in runningTasks
    /\ \/ /\ ~IsAlive(q)
          /\ row' = [row EXCEPT ![q] =
                IF file[taskOf[q]] = "good" THEN "completed" ELSE "failed"]
          /\ Dies(proc)
       \/ /\ row' = [row EXCEPT ![q] = "failed"]
          /\ Dies(Sigterm({q}))
    /\ UNCHANGED <<status, queuedTaskId, taskOf, lost, files>>

(***************************************************************************)
(* serve.ts: hydrate takes the pending rows into the queue, and            *)
(* reconnectRunningTasks fails the running tasks whose process is gone.    *)
(* taskIdMap is not restored.                                              *)
(***************************************************************************)
Alive(t) == pid[t] # NoRun /\ IsAlive(pid[t])

\* Mutant: running tasks stay as they are.
BootTrusting ==
    /\ server = "down"
    /\ lives < MaxLives
    /\ lives' = lives + 1
    /\ server' = "up"
    /\ queue' = [q \in Runs |-> IF row[q] = "pending" THEN "pending"
                                                      ELSE "none"]
    /\ attached' = {t \in Tasks : status[t] = "running" /\ Alive(t)}
    /\ UNCHANGED <<database, taskIdMap, runningTasks, children,
                   proc, files>>

Boot ==
    /\ server = "down"
    /\ lives < MaxLives
    /\ lives' = lives + 1
    /\ server' = "up"
    /\ queue' = [q \in Runs |-> IF row[q] = "pending" THEN "pending"
                                                      ELSE "none"]
    /\ attached' = {t \in Tasks : status[t] = "running" /\ Alive(t)}
    /\ status' = [t \in Tasks |->
          IF status[t] = "running" /\ ~Alive(t) THEN "failed" ELSE status[t]]
    /\ UNCHANGED <<queuedTaskId, taskOf, row, lost, taskIdMap, runningTasks,
                   children, proc, files>>

-----------------------------------------------------------------------------
User(t) == Run(t) \/ Retry(t) \/ RetryRefused(t) \/ Cancel(t) \/ Close(t)

Ending ==
    \/ StopServer \/ StopDone \/ StopForced \/ Crash
    \/ \E t \in Tasks : CrashEnqueueing(t) \/ CrashRetrying(t)
    \/ \E q \in Runs : CrashStarting(q) \/ CrashFinishing(q)

Next ==
    \/ \E t \in Tasks : User(t)
    \/ \E q \in Runs : \/ Start(q) \/ StartFails(q) \/ StartRefused(q)
                       \/ ProcessEnds(q) \/ Reap(q) \/ Finish(q) \/ Timeout(q)
    \/ Ending
    \/ Boot

Spec == Init /\ [][Next]_vars

(***************************************************************************)
(* The dispatcher polls (poll, setTimeout), the timeout of a run is a      *)
(* timer.  Nothing is assumed of the processes, the user or the restart.   *)
(***************************************************************************)
Fairness ==
    /\ WF_vars(\E q \in Runs : Start(q) \/ StartRefused(q))
    /\ \A q \in Runs : WF_vars(Timeout(q))

FairSpec == Spec /\ Fairness

-----------------------------------------------------------------------------
(* Properties                                                              *)

(***************************************************************************)
(* While the server runs, a run whose outcome will be recorded is the last *)
(* run of its task and still to end; and a task is called running only     *)
(* when such a run executes, or when its process was found at the start.   *)
(***************************************************************************)
LastRunSpeaks ==
    /\ \A q \in taskIdMap :
          /\ queuedTaskId[taskOf[q]] = q
          /\ queue[q] \in {"pending", "running"}
    /\ \A t \in Tasks :
          server # "down" /\ status[t] = "running" =>
              t \in attached \/ queuedTaskId[t] \in taskIdMap \cap runningTasks

(***************************************************************************)
(* Of the processes that one life of the server has spawned, for runs it   *)
(* has enqueued or restored, no two of a task work at once: all but one    *)
(* were told to end.  The exception is a row whose enqueuing a death cut   *)
(* short: its task can be run again while the restored row executes.       *)
(***************************************************************************)
OneAtATime ==
    \A q, r \in children \ lost :
        proc[q] = "alive" /\ proc[r] = "alive" /\ taskOf[q] = taskOf[r] => q = r

(***************************************************************************)
(* What a run ends with is recorded only if the run is the last of its     *)
(* task and the task has not failed meanwhile: the runner of a run that    *)
(* was cancelled sees its process end later, completes the run (a signal   *)
(* is no failure), and must leave the task alone.                          *)
(***************************************************************************)
LateEndsAreIgnored ==
    [][\A q \in runningTasks :
          q \notin runningTasks' /\ status' # status /\ server' # "down" =>
              queuedTaskId[taskOf[q]] = q /\ status[taskOf[q]] # "failed"]_vars

(***************************************************************************)
(* A pending run is executed and ends, unless the server stops: those a    *)
(* restart has restored too.                                               *)
(***************************************************************************)
EveryRunIsServed ==
    \A q \in Runs :
        row[q] = "pending" /\ server = "up" ~>
            row[q] \in {"completed", "failed"} \/ server # "up"

=============================================================================
