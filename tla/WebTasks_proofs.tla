--------------------------- MODULE WebTasks_proofs ---------------------------
(***************************************************************************)
(* What is proved of the web server's task queue, for any number of tasks, *)
(* runs, slots and restarts.                                               *)
(***************************************************************************)
EXTENDS WebTasks, TLAPS

\* Runs are numbered without gaps, and a number that is not used has nothing.
InOrder ==
    \A q, r \in Runs : taskOf[q] = NoTask /\ q < r => taskOf[r] = NoTask
Unused ==
    \A q \in Runs : taskOf[q] = NoTask =>
        /\ row[q] = "none" /\ queue[q] = "none" /\ proc[q] = "none"
        /\ q \notin taskIdMap /\ q \notin children /\ q \notin lost
\* A task names a run of its own.
Named == \A t \in Tasks : queuedTaskId[t] # NoRun => taskOf[queuedTaskId[t]] = t

\* The memory of the server goes with the server.
Forgotten ==
    server = "down" =>
        /\ taskIdMap = {} /\ runningTasks = {} /\ children = {} /\ attached = {}
        /\ \A q \in Runs : queue[q] = "none"

\* The dispatcher and the queue agree on what is running.
Agree == \A q \in Runs : q \in runningTasks <=> queue[q] = "running"

(***************************************************************************)
(* A run that the bridge knows is the last of its task, which has not      *)
(* failed; no later run of the task is pending, and once it executes no    *)
(* other run of the task is pending and the pid of the task is its own.    *)
(***************************************************************************)
Known ==
    \A q \in taskIdMap :
        /\ queuedTaskId[taskOf[q]] = q
        /\ queue[q] \in {"pending", "running"}
        /\ status[taskOf[q]] # "failed"
        /\ \A r \in Runs : queue[r] = "pending" /\ taskOf[r] = taskOf[q] =>
              r = q \/ (r < q /\ queue[q] = "pending")
        /\ queue[q] = "running" => pid[taskOf[q]] = q

\* What waits is in the queue, while there is one.
Mirror == server # "down" =>
    \A q \in Runs : row[q] = "pending" <=> queue[q] = "pending"
Spawned == \A q \in children : queue[q] \notin {"none", "pending"}

\* The last run of a task that nothing makes fail or run again.
Quiet(q) == /\ queuedTaskId[taskOf[q]] = q
            /\ status[taskOf[q]] \in {"pending", "closed"}

\* A run that waits is quiet, through any number of lives, if its task was told.
Waits == \A q \in Runs \ lost : row[q] = "pending" => Quiet(q)

\* A run that waits, or whose process of this life was not told to end, is known
\* to the bridge, or was restored and stays quiet: its start is not heard.
Heard ==
    \A q \in Runs \ lost :
        queue[q] = "pending" \/ (q \in children /\ proc[q] = "alive") =>
            q \in taskIdMap \/ Quiet(q)

\* A task that is called running is.
Truthful ==
    \A t \in Tasks : server # "down" /\ status[t] = "running" =>
        t \in attached \/ queuedTaskId[t] \in taskIdMap \cap runningTasks
Detached == \A t \in attached : queuedTaskId[t] \notin taskIdMap

IInv == /\ TypeOK /\ InOrder /\ Unused /\ Named /\ Forgotten /\ Agree
        /\ Mirror /\ Spawned /\ Waits /\ Known /\ Heard /\ Truthful /\ Detached

-----------------------------------------------------------------------------
LEMMA Initially == Init => IInv
<1> SUFFICES ASSUME Init
             PROVE  IInv
  OBVIOUS
<1>1. TypeOK
  BY ConstantsOK DEF Init, TypeOK, Runs, Statuses, RunStates, Procs, Ends
<1>2. QED
  BY <1>1, ConstantsOK
     DEF Init, IInv, InOrder, Unused, Named, Forgotten, Agree, Mirror, Spawned,
         Waits, Known, Heard, Truthful, Detached, Runs

-----------------------------------------------------------------------------
(* Types                                                                   *)

LEMMA RunsAreNumbers == Runs \subseteq Nat /\ NoRun \notin Runs
BY ConstantsOK DEF Runs

LEMMA DiesTypes ==
  ASSUME TypeOK, NEW p \in [Runs -> Procs], Dies(p)
  PROVE  /\ server' = "down" /\ lives' \in 1..MaxLives
         /\ queue' \in [Runs -> RunStates] /\ taskIdMap' \subseteq Runs
         /\ runningTasks' \subseteq Runs /\ children' \subseteq Runs
         /\ attached' \subseteq Tasks
         /\ proc' \in [Runs -> Procs]
BY DEF TypeOK, Dies, RunStates, Procs

LEMMA SigtermType ==
  ASSUME TypeOK, NEW Q
  PROVE  Sigterm(Q) \in [Runs -> Procs]
BY DEF TypeOK, Sigterm, Procs

LEMMA EndedType ==
  ASSUME TypeOK, NEW q \in Runs
  PROVE  Ended(q) \in [Runs -> Procs]
BY DEF TypeOK, Ended, Procs

LEMMA CreateRowTypes ==
  ASSUME TypeOK, NEW t \in Tasks, NEW q \in Runs, CreateRow(t, q)
  PROVE  taskOf' \in [Runs -> Tasks \cup {NoTask}] /\ row' \in [Runs -> RunStates]
BY DEF TypeOK, CreateRow, RunStates

LEMMA EnqueueTypes ==
  ASSUME TypeOK, NEW t \in Tasks, NEW q \in Runs, Enqueue(t, q)
  PROVE  TypeOK'
<1>1. taskOf' \in [Runs -> Tasks \cup {NoTask}] /\ row' \in [Runs -> RunStates]
  BY CreateRowTypes DEF Enqueue
<1>2. QED
  BY <1>1 DEF TypeOK, Enqueue, files, Statuses, RunStates

\* A run that waits, executes or is known has a task.
LEMMA HasTask ==
  ASSUME TypeOK, Unused, Agree, NEW q \in Runs,
         \/ queue[q] # "none" \/ row[q] # "none" \/ q \in taskIdMap
         \/ q \in runningTasks \/ q \in children
  PROVE  taskOf[q] \in Tasks
BY DEF TypeOK, Unused, Agree

LEMMA RecordType ==
  ASSUME TypeOK, NEW q \in Runs, taskOf[q] \in Tasks,
         NEW s \in Statuses, Record(q, s)
  PROVE  status' \in [Tasks -> Statuses]
BY DEF TypeOK, Record

LEMMA UserTypes ==
  ASSUME TypeOK, NEW t \in Tasks, User(t)
  PROVE  TypeOK'
<1>1. CASE Run(t)
  BY <1>1, EnqueueTypes DEF Run
<1>2. CASE Retry(t)
  BY <1>2, EnqueueTypes DEF Retry
<1>3. CASE RetryRefused(t)
  BY <1>3 DEF TypeOK, RetryRefused, memory, files, Statuses
<1>4. CASE Cancel(t)
  <2>1. pid[t] \in Runs
    BY <1>4 DEF TypeOK, Cancel
  <2>2. proc' \in [Runs -> Procs]
    BY <1>4, <2>1, EndedType DEF Cancel
  <2>3. QED
    BY <1>4, <2>2 DEF TypeOK, Cancel, files, Statuses
<1>5. CASE Close(t)
  BY <1>5 DEF TypeOK, Close, memory, files, Statuses
<1>6. QED
  BY <1>1, <1>2, <1>3, <1>4, <1>5 DEF User

LEMMA RunTypes ==
  ASSUME TypeOK, Unused, Agree, NEW q \in Runs,
         \/ Start(q) \/ StartFails(q) \/ StartRefused(q) \/ ProcessEnds(q)
         \/ Reap(q) \/ Finish(q) \/ Timeout(q)
  PROVE  TypeOK'
<1>1. CASE Start(q)
  <2>1. taskOf[q] \in Tasks
    BY <1>1, HasTask DEF Start, MayStart
  <2>2. status' \in [Tasks -> Statuses]
    BY <1>1, <2>1, RecordType DEF Start, Statuses
  <2>3. QED
    BY <1>1, <2>1, <2>2 DEF TypeOK, Start, RunStates, Procs
<1>2. CASE StartFails(q)
  <2>1. taskOf[q] \in Tasks
    BY <1>2, HasTask DEF StartFails, MayStart
  <2>2. status' \in [Tasks -> Statuses]
    BY <1>2, <2>1, RecordType DEF StartFails, Statuses
  <2>3. proc \in [Runs -> Procs] /\ Dies(proc)
    BY <1>2 DEF TypeOK, StartFails
  <2>4. QED
    BY <1>2, <2>1, <2>2, <2>3, DiesTypes DEF TypeOK, StartFails, RunStates
<1>3. CASE ProcessEnds(q)
  BY <1>3, EndedType DEF TypeOK, ProcessEnds, database, memory, files
<1>4. CASE Reap(q)
  BY <1>4 DEF TypeOK, Reap, database, memory, Procs
<1>5. CASE Finish(q)
  <2>1. taskOf[q] \in Tasks
    BY <1>5, HasTask DEF Finish
  <2>2. status' \in [Tasks -> Statuses]
    BY <1>5, <2>1, RecordType DEF Finish, Statuses
  <2>3. QED
    BY <1>5, <2>2 DEF TypeOK, Finish, Leave, RunStates, files
<1>6. CASE Timeout(q)
  <2>1. taskOf[q] \in Tasks
    BY <1>6, HasTask DEF Timeout
  <2>2. status' \in [Tasks -> Statuses]
    BY <1>6, <2>1, RecordType DEF Timeout, Statuses
  <2>3. QED
    BY <1>6, <2>2, SigtermType DEF TypeOK, Timeout, Leave, RunStates, files
<1>7. CASE StartRefused(q)
  <2>1. taskOf[q] \in Tasks
    BY <1>7, HasTask DEF StartRefused, MayStart
  <2>2. status' \in [Tasks -> Statuses]
    BY <1>7, <2>1, RecordType DEF StartRefused, Statuses
  <2>3. file' \in [Tasks -> Ends \cup {"none", "running"}]
    BY <1>7 DEF TypeOK, StartRefused
  <2>4. QED
    BY <1>7, <2>2, <2>3 DEF TypeOK, StartRefused, Leave, RunStates
<1>8. QED
  BY <1>1, <1>2, <1>3, <1>4, <1>5, <1>6, <1>7

LEMMA EndingTypes ==
  ASSUME TypeOK, Unused, Agree, Ending
  PROVE  TypeOK'
<1>0. proc \in [Runs -> Procs] /\ \A Q : Sigterm(Q) \in [Runs -> Procs]
  BY SigtermType DEF TypeOK
<1>1. CASE StopServer
  BY <1>1 DEF TypeOK, StopServer, database, memory, files
<1>2. CASE StopDone \/ Crash
  BY <1>0, <1>2, DiesTypes DEF TypeOK, StopDone, Crash, database, files
<1>3. CASE StopForced
  <2>1. row' \in [Runs -> RunStates]
    BY <1>3 DEF TypeOK, StopForced, RunStates
  <2>2. QED
    BY <1>0, <1>3, <2>1, DiesTypes DEF TypeOK, StopForced, files
<1>4. ASSUME NEW t \in Tasks, CrashEnqueueing(t)
      PROVE  TypeOK'
  <2>1. PICK q \in Runs : CreateRow(t, q) /\ lost' = lost \cup {q}
    BY <1>4 DEF CrashEnqueueing, LoseRow
  <2>2. QED
    BY <1>0, <1>4, <2>1, CreateRowTypes, DiesTypes DEF TypeOK, CrashEnqueueing, files
<1>5. ASSUME NEW t \in Tasks, CrashRetrying(t)
      PROVE  TypeOK'
  <2>1. /\ taskOf' \in [Runs -> Tasks \cup {NoTask}]
        /\ row' \in [Runs -> RunStates] /\ lost' \subseteq Runs
    BY <1>5, CreateRowTypes DEF TypeOK, CrashRetrying, LoseRow
  <2>2. QED
    BY <1>0, <1>5, <2>1, DiesTypes DEF TypeOK, CrashRetrying, files, Statuses
<1>6. ASSUME NEW q \in Runs, CrashStarting(q)
      PROVE  TypeOK'
  <2>1. taskOf[q] \in Tasks
    BY <1>6, HasTask DEF CrashStarting, MayStart
  <2>2. [proc EXCEPT ![q] = "alive"] \in [Runs -> Procs]
    BY DEF TypeOK, Procs
  <2>3. status' \in [Tasks -> Statuses]
    <3>1. Record(q, "running") => status' \in [Tasks -> Statuses]
      BY <2>1, RecordType DEF Statuses
    <3>2. QED
      BY <1>6, <3>1 DEF TypeOK, CrashStarting
  <2>4. row' \in [Runs -> RunStates]
        /\ file' \in [Tasks -> Ends \cup {"none", "running"}]
    BY <1>6, <2>1 DEF TypeOK, CrashStarting, RunStates
  <2>5. \/ Dies(proc) \/ Dies([proc EXCEPT ![q] = "alive"])
    BY <1>6 DEF CrashStarting
  <2>6. QED
    BY <1>0, <1>6, <2>2, <2>3, <2>4, <2>5, DiesTypes DEF TypeOK, CrashStarting
<1>7. ASSUME NEW q \in Runs, CrashFinishing(q)
      PROVE  TypeOK'
  <2>1. row' \in [Runs -> RunStates]
    BY <1>7 DEF TypeOK, CrashFinishing, RunStates
  <2>2. Dies(proc) \/ Dies(Sigterm({q}))
    BY <1>7 DEF CrashFinishing
  <2>3. QED
    BY <1>0, <1>7, <2>1, <2>2, DiesTypes DEF TypeOK, CrashFinishing, files
<1>8. QED
  BY <1>1, <1>2, <1>3, <1>4, <1>5, <1>6, <1>7 DEF Ending

LEMMA TypeStep == TypeOK /\ Unused /\ Agree /\ [Next]_vars => TypeOK'
<1> SUFFICES ASSUME TypeOK, Unused, Agree, [Next]_vars
             PROVE  TypeOK'
  OBVIOUS
<1>1. CASE Boot
  BY <1>1, ConstantsOK DEF TypeOK, Boot, files, Statuses, RunStates
<1>2. CASE UNCHANGED vars
  BY <1>2 DEF TypeOK, vars, database, memory, files
<1>3. QED
  BY <1>1, <1>2, UserTypes, RunTypes, EndingTypes DEF Next

-----------------------------------------------------------------------------
(* The end of the server: nothing is left but the database and the files.  *)

\* What a step that ends the server leaves to show.
LEMMA AfterDeath ==
  ASSUME TypeOK, NEW p, Dies(p)
  PROVE  /\ Forgotten' /\ Agree' /\ Mirror' /\ Spawned' /\ Known' /\ Heard'
         /\ Truthful' /\ Detached'
BY DEF Dies, Forgotten, Agree, Mirror, Spawned, Known, Heard, Truthful, Detached

\* What is recorded of a run leaves the quiet runs that wait as they are.
LEMMA RecordQuiet ==
  ASSUME IInv, NEW q \in Runs, NEW s, Record(q, s), UNCHANGED <<queuedTaskId, taskOf>>,
         NEW r \in Runs, r # q, Quiet(r), taskOf[r] \in Tasks
  PROVE  Quiet(r)'
<1>1. q \in taskIdMap => taskOf[q] # taskOf[r]
  BY DEF IInv, Known, Quiet
<1>2. status'[taskOf[r]] = status[taskOf[r]]
  BY <1>1 DEF IInv, TypeOK, Record
<1>3. QED
  BY <1>2 DEF Quiet

\* A row for a new run leaves the numbers in order.
LEMMA NewRow ==
  ASSUME TypeOK, InOrder, Unused, NEW t \in Tasks, NEW q \in Runs, CreateRow(t, q)
  PROVE  /\ InOrder'
         /\ taskOf'[q] = t
         /\ \A r \in Runs : taskOf'[r] = NoTask => taskOf[r] = NoTask /\ row'[r] = row[r]
         /\ \A r \in Runs : taskOf[r] # NoTask => r < q /\ taskOf'[r] = taskOf[r]
<1> t # NoTask
  BY ConstantsOK
<1>1. \A r \in Runs : r < q => taskOf[r] # NoTask
  BY DEF CreateRow, IsNext
<1>2. taskOf[q] = NoTask /\ taskOf' = [taskOf EXCEPT ![q] = t]
      /\ row' = [row EXCEPT ![q] = "pending"]
  BY DEF CreateRow, IsNext
<1>3. \A r \in Runs : taskOf[r] # NoTask => r < q
  BY <1>2, RunsAreNumbers DEF InOrder
<1>4. QED
  BY <1>1, <1>2, <1>3, RunsAreNumbers DEF TypeOK, InOrder

LEMMA EndingStep ==
  ASSUME IInv, Ending
  PROVE  IInv'
<1> USE DEF IInv
<1>1. TypeOK'
  BY EndingTypes
<1>2. CASE StopServer
  <2>1. UNCHANGED <<database, memory, proc, files>> /\ server' = "stopping"
        /\ server = "up"
    BY <1>2 DEF StopServer
  <2>2. QED
    BY <1>1, <2>1
       DEF database, memory, files, InOrder, Unused, Named, Forgotten, Agree,
           Mirror, Spawned, Waits, Quiet, Known, Heard, Truthful, Detached
<1>3. CASE ~StopServer
  <2>1. PICK p : Dies(p)
    BY <1>3 DEF Ending, StopDone, StopForced, Crash, CrashEnqueueing,
                CrashRetrying, CrashStarting, CrashFinishing
  <2>2. /\ Forgotten' /\ Agree' /\ Mirror' /\ Spawned' /\ Known' /\ Heard'
        /\ Truthful' /\ Detached'
    BY <2>1, AfterDeath
  <2>3. InOrder' /\ Unused' /\ Named'
    <3>0. queue' = [q \in Runs |-> "none"] /\ taskIdMap' = {} /\ children' = {}
      BY <2>1 DEF Dies
    <3>1. ASSUME NEW q \in Runs, proc[q] = "none", taskOf[q] = NoTask
          PROVE  proc'[q] = "none"
      <4>1. q \notin runningTasks /\ ~MayStart(q)
        BY <3>1 DEF Unused, Agree, MayStart
      <4>2. \A r \in Runs \ {q} : [proc EXCEPT ![r] = "alive"][q] = "none"
        BY <3>1 DEF TypeOK
      <4>3. \A Q : Sigterm(Q)[q] = "none"
        BY <3>1 DEF Sigterm
      <4>4. \/ Dies(proc) \/ \E Q : Dies(Sigterm(Q))
            \/ \E r \in Runs \ {q} : Dies([proc EXCEPT ![r] = "alive"])
        BY <1>3, <4>1 DEF Ending, StopDone, StopForced, Crash, CrashEnqueueing,
                CrashRetrying, CrashStarting, CrashFinishing
      <4>5. QED
        BY <3>1, <4>2, <4>3, <4>4 DEF Dies
    <3>2. ASSUME \A q \in Runs : taskOf[q] # NoTask => taskOf'[q] = taskOf[q]
          PROVE  Named'
      <4>1. \/ UNCHANGED queuedTaskId
            \/ \E t \in Tasks : queuedTaskId' = [queuedTaskId EXCEPT ![t] = NoRun]
        BY <1>3 DEF Ending, StopDone, StopForced, Crash, CrashEnqueueing,
                CrashRetrying, CrashStarting, CrashFinishing, database
      <4>2. QED
        BY <3>2, <4>1, ConstantsOK DEF Named, TypeOK
    <3>3. CASE \E t \in Tasks, q \in Runs : LoseRow(t, q)
      <4>1. PICK t \in Tasks, q \in Runs : CreateRow(t, q) /\ lost' = lost \cup {q}
        BY <3>3 DEF LoseRow
      <4>2. taskOf'[q] # NoTask
        BY <4>1, NewRow, ConstantsOK
      <4>3. QED
        BY <3>0, <3>1, <3>2, <4>1, <4>2, NewRow DEF Unused
    <3>4. CASE /\ UNCHANGED <<taskOf, lost>>
               /\ \A q \in Runs : taskOf[q] = NoTask => row'[q] = row[q]
      BY <3>0, <3>1, <3>4, <3>2 DEF InOrder, Unused
    <3>5. QED
      <4>1. CASE StopDone \/ Crash
        BY <3>4, <4>1 DEF StopDone, Crash, database
      <4>2. CASE StopForced
        <5>1. \A q \in Runs : taskOf[q] = NoTask => q \notin runningTasks
          BY DEF Unused, Agree
        <5>2. QED
          BY <3>4, <4>2, <5>1 DEF StopForced
      <4>3. ASSUME NEW t \in Tasks, CrashEnqueueing(t) \/ CrashRetrying(t)
            PROVE  InOrder' /\ Unused' /\ Named'
        BY <3>3, <3>4, <4>3 DEF CrashEnqueueing, CrashRetrying
      <4>4. ASSUME NEW q \in Runs, CrashStarting(q)
            PROVE  InOrder' /\ Unused' /\ Named'
        <5>1. UNCHANGED <<taskOf, lost>> /\ queue[q] = "pending"
              /\ \E s \in {"running", "failed"} : row' = [row EXCEPT ![q] = s]
          BY <4>4 DEF CrashStarting, MayStart
        <5>2. QED
          BY <3>4, <5>1 DEF Unused, TypeOK
      <4>5. ASSUME NEW q \in Runs, CrashFinishing(q)
            PROVE  InOrder' /\ Unused' /\ Named'
        BY <3>4, <4>5 DEF CrashFinishing, Unused, Agree, TypeOK
      <4>6. QED
        BY <1>3, <4>1, <4>2, <4>3, <4>4, <4>5 DEF Ending
  <2>4. Waits'
    <3>1. ASSUME UNCHANGED <<status, queuedTaskId, taskOf, lost>>,
                 \A q \in Runs : row'[q] = "pending" => row[q] = "pending"
          PROVE  Waits'
      BY <3>1 DEF Waits, Quiet
    <3>2. CASE StopDone \/ Crash
      BY <3>1, <3>2 DEF StopDone, Crash, database
    <3>3. CASE StopForced
      BY <3>1, <3>3 DEF StopForced
    <3>4. ASSUME NEW t \in Tasks, CrashEnqueueing(t) \/ CrashRetrying(t)
          PROVE  Waits'
      <4>1. \/ UNCHANGED <<taskOf, row, lost>>
            \/ \E q \in Runs : CreateRow(t, q) /\ lost' = lost \cup {q}
        BY <3>4 DEF CrashEnqueueing, CrashRetrying, LoseRow
      <4>2. ASSUME NEW r \in Runs \ lost', row'[r] = "pending"
            PROVE  /\ r \in Runs \ lost /\ row[r] = "pending"
                   /\ taskOf'[r] = taskOf[r] /\ taskOf[r] \in Tasks
        <5>1. r \in Runs \ lost /\ row[r] = "pending"
          BY <4>1, <4>2 DEF CreateRow, TypeOK
        <5>2. taskOf[r] \in Tasks
          BY <5>1, HasTask
        <5>3. taskOf'[r] = taskOf[r]
          BY <4>1, <5>2, ConstantsOK DEF CreateRow, IsNext, TypeOK
        <5>4. QED
          BY <5>1, <5>2, <5>3
      <4>3. \/ UNCHANGED <<status, queuedTaskId>>
            \/ /\ status[t] = "failed"
               /\ status' = [status EXCEPT ![t] = "open"]
               /\ queuedTaskId' = [queuedTaskId EXCEPT ![t] = NoRun]
        BY <3>4 DEF CrashEnqueueing, CrashRetrying
      <4>4. ASSUME NEW r \in Runs \ lost', row'[r] = "pending"
            PROVE  Quiet(r)'
        <5>1. Quiet(r) /\ taskOf[r] \in Tasks /\ taskOf'[r] = taskOf[r]
          BY <4>2, <4>4 DEF Waits
        <5>2. QED
          BY <4>3, <5>1 DEF Quiet, TypeOK
      <4>5. QED
        BY <4>4 DEF Waits
    <3>5. ASSUME NEW q \in Runs, CrashStarting(q)
          PROVE  Waits'
      <4>1. /\ UNCHANGED <<queuedTaskId, taskOf, lost>>
            /\ \E s \in {"running", "failed"} : row' = [row EXCEPT ![q] = s]
            /\ UNCHANGED status \/ Record(q, "running")
        BY <3>5 DEF CrashStarting
      <4>2. ASSUME NEW r \in Runs \ lost, row'[r] = "pending"
            PROVE  Quiet(r)'
        <5>1. r # q /\ row[r] = "pending"
          BY <4>1, <4>2 DEF TypeOK
        <5>2. Quiet(r) /\ taskOf[r] \in Tasks
          BY <5>1, HasTask DEF Waits
        <5>3. QED
          BY <4>1, <5>1, <5>2, RecordQuiet DEF Quiet
      <4>3. QED
        BY <4>1, <4>2 DEF Waits
    <3>6. ASSUME NEW q \in Runs, CrashFinishing(q)
          PROVE  Waits'
      BY <3>1, <3>6 DEF CrashFinishing, TypeOK
    <3>7. QED
      BY <1>3, <3>2, <3>3, <3>4, <3>5, <3>6 DEF Ending
  <2>5. QED
    BY <1>1, <2>2, <2>3, <2>4
<1>4. QED
  BY <1>2, <1>3

-----------------------------------------------------------------------------
(* Requests                                                                *)

LEMMA EnqueueStep ==
  ASSUME IInv, Serving, NEW t \in Tasks, NEW q \in Runs, Enqueue(t, q),
         \A r \in taskIdMap : taskOf[r] # t,
         \A r \in Runs : queue[r] # "none" /\ taskOf[r] = t => ~Quiet(r)
  PROVE  IInv'
<1> USE DEF IInv
<1>1. TypeOK'
  BY EnqueueTypes
<1>2. /\ InOrder' /\ taskOf'[q] = t
      /\ \A r \in Runs : taskOf'[r] = NoTask => taskOf[r] = NoTask /\ row'[r] = row[r]
      /\ \A r \in Runs : taskOf[r] # NoTask => r < q /\ taskOf'[r] = taskOf[r]
  BY NewRow DEF Enqueue
<1>3. /\ queue' = [queue EXCEPT ![q] = "pending"]
      /\ row' = [row EXCEPT ![q] = "pending"]
      /\ taskIdMap' = taskIdMap \cup {q}
      /\ attached' = attached \ {t}
      /\ status' = [status EXCEPT ![t] = "pending"]
      /\ queuedTaskId' = [queuedTaskId EXCEPT ![t] = q]
      /\ UNCHANGED <<lost, server, runningTasks, children, proc, pid>>
  BY DEF Enqueue, CreateRow, files
<1>4. taskOf[q] = NoTask /\ t # NoTask
  BY ConstantsOK DEF Enqueue, CreateRow, IsNext
<1>5. queue[q] = "none" /\ proc[q] = "none" /\ q \notin taskIdMap
      /\ q \notin runningTasks /\ q \notin children
  BY <1>4 DEF Unused, Agree
<1>6. Unused' /\ Named'
  BY <1>2, <1>3, <1>4, ConstantsOK DEF Unused, Named, TypeOK
<1>7. Forgotten' /\ Agree'
  BY <1>3, <1>5 DEF Forgotten, Agree, Serving, TypeOK
<1>8. \A r \in taskIdMap : /\ taskOf[r] \in Tasks \ {t} /\ r \in Runs /\ r # q
                           /\ taskOf'[r] = taskOf[r]
  BY <1>2, <1>5, HasTask, ConstantsOK DEF TypeOK
<1>9. Known'
  <2>1. ASSUME NEW s \in taskIdMap
        PROVE  /\ queuedTaskId'[taskOf'[s]] = s
               /\ queue'[s] = queue[s]
               /\ status'[taskOf'[s]] # "failed"
               /\ \A r \in Runs : queue'[r] = "pending" /\ taskOf'[r] = taskOf'[s] =>
                     r = s \/ (r < s /\ queue'[s] = "pending")
               /\ queue'[s] = "running" => pid'[taskOf'[s]] = s
    <3>1. \A r \in Runs : queue'[r] = "pending" /\ taskOf'[r] = taskOf'[s] =>
            r # q /\ queue[r] = "pending" /\ taskOf[r] = taskOf[s]
      BY <1>2, <1>3, <1>8, HasTask, ConstantsOK DEF TypeOK
    <3>2. QED
      BY <1>3, <1>8, <3>1 DEF Known, TypeOK
  <2>2. /\ queuedTaskId'[taskOf'[q]] = q
        /\ queue'[q] = "pending"
        /\ status'[taskOf'[q]] # "failed"
        /\ \A r \in Runs : queue'[r] = "pending" => r = q \/ r < q
    BY <1>2, <1>3, HasTask, ConstantsOK DEF TypeOK
  <2>3. QED
    BY <1>3, <2>1, <2>2 DEF Known
<1>10. ASSUME NEW r \in Runs, r # q, Quiet(r), queue[r] # "none" \/ r \in children
       PROVE  Quiet(r)'
  <2>1. queue[r] # "none" /\ taskOf[r] \in Tasks
    BY <1>10, HasTask DEF Spawned
  <2>2. taskOf[r] # t /\ taskOf'[r] = taskOf[r]
    BY <1>2, <1>10, <2>1, ConstantsOK
  <2>3. QED
    BY <1>3, <1>10, <2>1, <2>2 DEF Quiet, TypeOK
<1>11. Heard'
  <2>1. SUFFICES ASSUME NEW r \in Runs \ lost, r # q,
                        queue'[r] = "pending" \/ (r \in children /\ proc[r] = "alive")
                 PROVE  r \in taskIdMap \/ Quiet(r)'
    BY <1>3 DEF Heard
  <2>2. queue[r] = "pending" \/ (r \in children /\ proc[r] = "alive")
    BY <1>3, <2>1 DEF TypeOK
  <2>3. QED
    BY <1>10, <2>1, <2>2 DEF Heard
<1>12. Mirror' /\ Spawned'
  BY <1>3, <1>5 DEF Mirror, Spawned, Serving, TypeOK
<1>13. Waits'
  <2>1. Quiet(q)'
    BY <1>2, <1>3 DEF Quiet, TypeOK
  <2>2. ASSUME NEW r \in Runs \ lost, r # q, row'[r] = "pending"
        PROVE  Quiet(r)'
    <3>1. row[r] = "pending" /\ queue[r] = "pending"
      BY <1>3, <2>2 DEF Mirror, Serving, TypeOK
    <3>2. QED
      BY <1>10, <2>2, <3>1 DEF Waits
  <2>3. QED
    BY <1>3, <2>1, <2>2 DEF Waits
<1>14. Truthful'
  BY <1>3 DEF Truthful, TypeOK
<1>15. Detached'
  <2>1. \A u \in Tasks : queuedTaskId[u] # q
    BY <1>4, ConstantsOK, RunsAreNumbers DEF Named
  <2>2. QED
    BY <1>3, <2>1 DEF Detached, TypeOK
<1>16. QED
  BY <1>1, <1>2, <1>6, <1>7, <1>9, <1>11, <1>12, <1>13, <1>14, <1>15

LEMMA UserStep ==
  ASSUME IInv, NEW t \in Tasks, User(t)
  PROVE  IInv'
<1> USE DEF IInv
<1>1. TypeOK'
  BY UserTypes
<1>2. \A r \in taskIdMap : /\ r \in Runs /\ taskOf[r] \in Tasks
                           /\ queuedTaskId[taskOf[r]] = r /\ queue[r] # "none"
                           /\ status[taskOf[r]] # "failed"
  BY HasTask DEF Known, TypeOK
<1>3. CASE Run(t)
  <2>1. \A r \in taskIdMap : taskOf[r] # t
    BY <1>2, <1>3, RunsAreNumbers DEF Run, MayRun
  <2>2. \A r \in Runs : queue[r] # "none" /\ taskOf[r] = t => ~Quiet(r)
    BY <1>3, RunsAreNumbers DEF Run, MayRun, Quiet
  <2>3. QED
    BY <1>3, <2>1, <2>2, EnqueueStep DEF Run
<1>4. CASE Retry(t)
  <2>1. \A r \in taskIdMap : taskOf[r] # t
    BY <1>2, <1>4 DEF Retry
  <2>2. \A r \in Runs : queue[r] # "none" /\ taskOf[r] = t => ~Quiet(r)
    BY <1>4 DEF Retry, Quiet
  <2>3. QED
    BY <1>4, <2>1, <2>2, EnqueueStep DEF Retry
<1>5. CASE RetryRefused(t)
  <2>1. \A r \in taskIdMap : taskOf[r] # t
    BY <1>2, <1>5 DEF RetryRefused
  <2>2. /\ status' = [status EXCEPT ![t] = "open"]
        /\ queuedTaskId' = [queuedTaskId EXCEPT ![t] = NoRun]
        /\ UNCHANGED <<taskOf, row, lost, server, queue, taskIdMap, runningTasks,
                       children, attached, proc, pid>>
    BY <1>5 DEF RetryRefused, memory, files
  <2>a. ASSUME NEW r \in Runs, Quiet(r), taskOf[r] \in Tasks
        PROVE  Quiet(r)'
    BY <1>5, <2>2, <2>a DEF RetryRefused, Quiet, TypeOK
  <2>b. Waits' /\ Heard'
    BY <2>2, <2>a, HasTask DEF Waits, Heard
  <2>3. /\ InOrder' /\ Unused' /\ Named' /\ Forgotten' /\ Agree' /\ Mirror'
        /\ Spawned'
    BY <2>2, RunsAreNumbers DEF InOrder, Unused, Named, Forgotten, Agree, Mirror,
                                Spawned, TypeOK
  <2>4. Known'
    BY <1>2, <2>1, <2>2 DEF Known, TypeOK
  <2>5. Truthful' /\ Detached'
    BY <2>2, RunsAreNumbers DEF Truthful, Detached, TypeOK
  <2>6. QED
    BY <1>1, <2>b, <2>3, <2>4, <2>5
<1>6. CASE Cancel(t)
  <2>1. /\ status[t] = "running" /\ server # "down" /\ pid[t] \in Runs
        /\ proc' = Ended(pid[t])
        /\ status' = [status EXCEPT ![t] = "failed"]
        /\ taskIdMap' = taskIdMap \ {queuedTaskId[t]}
        /\ UNCHANGED <<taskOf, row, lost, server, queuedTaskId, queue,
                       runningTasks, children, attached, pid>>
    BY <1>6 DEF Cancel, Serving, TypeOK, files
  <2>2. /\ \A r \in Runs : proc[r] = "none" => proc'[r] = "none"
        /\ \A r \in Runs : proc'[r] = "alive" => proc[r] = "alive" /\ r # pid[t]
    BY <2>1 DEF Ended, TypeOK
  <2>a. ASSUME NEW r \in Runs, Quiet(r), taskOf[r] \in Tasks
        PROVE  Quiet(r)'
    BY <2>1, <2>a DEF Quiet, TypeOK
  <2>b. Waits'
    BY <2>1, <2>a, HasTask DEF Waits
  <2>3. /\ InOrder' /\ Unused' /\ Named' /\ Forgotten' /\ Agree' /\ Mirror'
        /\ Spawned'
    BY <2>1, <2>2 DEF InOrder, Unused, Named, Forgotten, Agree, Mirror, Spawned
  <2>4. Known'
    BY <1>2, <2>1 DEF Known, TypeOK
  <2>5. queuedTaskId[t] \in taskIdMap =>
           /\ queue[queuedTaskId[t]] = "running" /\ pid[t] = queuedTaskId[t]
    <3>1. SUFFICES ASSUME queuedTaskId[t] \in taskIdMap
                   PROVE  /\ queue[queuedTaskId[t]] = "running"
                          /\ pid[t] = queuedTaskId[t]
      OBVIOUS
    <3>2. t \notin attached
      BY <3>1 DEF Detached
    <3>3. queuedTaskId[t] \in runningTasks
      BY <2>1, <3>2 DEF Truthful
    <3>4. queue[queuedTaskId[t]] = "running" /\ queuedTaskId[t] \in Runs
      BY <3>3 DEF Agree, TypeOK
    <3>5. taskOf[queuedTaskId[t]] = t
      BY <3>1, <3>4, RunsAreNumbers DEF Named
    <3>6. QED
      BY <3>1, <3>4, <3>5 DEF Known
  <2>6. Heard'
    <3>1. SUFFICES ASSUME NEW r \in Runs \ lost,
                          \/ queue[r] = "pending"
                          \/ r \in children /\ proc'[r] = "alive"
                   PROVE  r \in taskIdMap' \/ Quiet(r)'
      BY <2>1 DEF Heard
    <3>2. r \in taskIdMap \/ Quiet(r)
      BY <2>2, <3>1 DEF Heard
    <3>3. r \in taskIdMap => r # queuedTaskId[t]
      BY <2>2, <2>5, <3>1
    <3>4. QED
      BY <2>1, <2>a, <3>1, <3>2, <3>3, HasTask
  <2>7. Truthful'
    <3>1. \A u \in Tasks \ {t} : queuedTaskId[u] \in taskIdMap =>
             queuedTaskId[u] # queuedTaskId[t]
      BY RunsAreNumbers DEF Named, TypeOK
    <3>2. QED
      BY <2>1, <3>1 DEF Truthful, TypeOK
  <2>8. Detached'
    BY <2>1 DEF Detached
  <2>9. QED
    BY <1>1, <2>b, <2>3, <2>4, <2>6, <2>7, <2>8
<1>7. CASE Close(t)
  <2>1. /\ status' = [status EXCEPT ![t] = "closed"]
        /\ UNCHANGED <<taskOf, row, lost, server, queuedTaskId, queue, taskIdMap,
                       runningTasks, children, attached, proc, pid>>
    BY <1>7 DEF Close, memory, files
  <2>2. ASSUME NEW r \in Runs, Quiet(r), taskOf[r] \in Tasks
        PROVE  Quiet(r)'
    BY <2>1, <2>2 DEF Quiet, TypeOK
  <2>3. Waits' /\ Heard'
    BY <2>1, <2>2, HasTask DEF Waits, Heard
  <2>4. QED
    BY <1>1, <1>2, <2>1, <2>3
       DEF InOrder, Unused, Named, Forgotten, Agree, Mirror, Spawned, Known,
           Truthful, Detached, TypeOK
<1>8. QED
  BY <1>3, <1>4, <1>5, <1>6, <1>7 DEF User

-----------------------------------------------------------------------------
(* Runs                                                                    *)

\* Two runs of a task that the bridge knows are one.
LEMMA OneIsKnown ==
  ASSUME Known, NEW q \in taskIdMap, NEW r \in taskIdMap, taskOf[q] = taskOf[r]
  PROVE  q = r
BY DEF Known

LEMMA StartStep ==
  ASSUME IInv, NEW q \in Runs, Start(q)
  PROVE  IInv'
<1> USE DEF IInv
<1> DEFINE t == taskOf[q]
<1>1. TypeOK'
  BY RunTypes
<1>2. /\ queue[q] = "pending" /\ server = "up"
      /\ \A r \in Runs \ {q} : queue[r] = "pending" => Precedes(q, r)
  BY DEF Start, MayStart
<1>3. t \in Tasks /\ q \notin runningTasks
  BY <1>2, HasTask DEF Agree
<1>4. /\ row' = [row EXCEPT ![q] = "running"]
      /\ queue' = [queue EXCEPT ![q] = "running"]
      /\ runningTasks' = runningTasks \cup {q}
      /\ proc' = [proc EXCEPT ![q] = "alive"]
      /\ pid' = [pid EXCEPT ![t] = q]
      /\ children' = children \cup {q}
      /\ UNCHANGED <<queuedTaskId, taskOf, lost, server, taskIdMap, attached>>
  BY DEF Start
<1>5. status' = IF q \in taskIdMap THEN [status EXCEPT ![t] = "running"]
                                    ELSE status
  BY DEF Start, Record
<1>6. InOrder' /\ Named' /\ Forgotten' /\ Detached'
  BY <1>2, <1>4 DEF InOrder, Named, Forgotten, Detached
<1>7. Unused' /\ Agree'
  BY <1>3, <1>4, ConstantsOK DEF Unused, Agree, TypeOK
\* A run of the same task that waits was created later.
<1>8. \A r \in Runs \ {q} : queue[r] = "pending" /\ taskOf[r] = t => q < r
  <2>1. SUFFICES ASSUME NEW r \in Runs \ {q}, queue[r] = "pending", taskOf[r] = t
                 PROVE  q < r
    OBVIOUS
  <2>2. Precedes(q, r) /\ Priority[t] \in Nat
    BY <1>2, <1>3, <2>1, ConstantsOK
  <2>3. QED
    BY <2>1, <2>2 DEF Precedes
<1>9. Known'
  <2>1. SUFFICES ASSUME NEW s \in taskIdMap
                 PROVE  /\ queuedTaskId[taskOf[s]] = s
                        /\ queue'[s] \in {"pending", "running"}
                        /\ status'[taskOf[s]] # "failed"
                        /\ \A r \in Runs :
                              queue'[r] = "pending" /\ taskOf[r] = taskOf[s] =>
                                 r = s \/ (r < s /\ queue'[s] = "pending")
                        /\ queue'[s] = "running" => pid'[taskOf[s]] = s
    BY <1>4 DEF Known
  <2>2. /\ queuedTaskId[taskOf[s]] = s /\ s \in Runs /\ taskOf[s] \in Tasks
        /\ queue[s] \in {"pending", "running"}
        /\ status[taskOf[s]] # "failed"
        /\ \A r \in Runs : queue[r] = "pending" /\ taskOf[r] = taskOf[s] =>
              r = s \/ (r < s /\ queue[s] = "pending")
        /\ queue[s] = "running" => pid[taskOf[s]] = s
    BY HasTask DEF Known, TypeOK
  <2>3. status'[taskOf[s]] # "failed"
    BY <1>3, <1>5, <2>2 DEF TypeOK
  <2>4. \A r \in Runs : queue'[r] = "pending" => r # q /\ queue[r] = "pending"
    BY <1>4 DEF TypeOK
  <2>5. CASE s = q
    <3>1. \A r \in Runs : ~(queue'[r] = "pending" /\ taskOf[r] = t)
      BY <1>8, <2>2, <2>4, <2>5, RunsAreNumbers
    <3>2. queue'[s] = "running" /\ pid'[t] = q
      BY <1>3, <1>4, <2>5 DEF TypeOK
    <3>3. QED
      BY <2>2, <2>3, <2>5, <3>1, <3>2
  <2>6. CASE s # q /\ taskOf[s] = t
    <3>1. queue[s] = "pending" /\ queue'[s] = "pending"
      BY <1>2, <1>4, <2>2, <2>6 DEF TypeOK
    <3>2. QED
      BY <2>2, <2>3, <2>4, <3>1
  <2>7. CASE taskOf[s] # t
    <3>1. queue'[s] = queue[s] /\ pid'[taskOf[s]] = pid[taskOf[s]]
      BY <1>3, <1>4, <2>2, <2>7 DEF TypeOK
    <3>2. QED
      BY <2>2, <2>3, <2>4, <3>1
  <2>8. QED
    BY <2>5, <2>6, <2>7
<1>10. ASSUME NEW r \in Runs, r # q, Quiet(r), taskOf[r] \in Tasks
       PROVE  Quiet(r)'
  BY <1>4, <1>10, RecordQuiet DEF Start
<1>11. Heard'
  <2>1. SUFFICES ASSUME NEW r \in Runs \ lost,
                        queue'[r] = "pending" \/ (r \in children' /\ proc'[r] = "alive")
                 PROVE  r \in taskIdMap \/ Quiet(r)'
    BY <1>4 DEF Heard
  <2>2. queue[r] = "pending" \/ (r \in children /\ proc[r] = "alive")
    BY <1>2, <1>4, <2>1 DEF TypeOK
  <2>3. r \in taskIdMap \/ Quiet(r)
    BY <2>1, <2>2 DEF Heard
  <2>4. CASE r = q /\ q \notin taskIdMap
    BY <1>4, <1>5, <2>3, <2>4 DEF Quiet
  <2>5. CASE r # q
    BY <1>10, <2>2, <2>3, <2>5, HasTask
  <2>6. QED
    BY <2>4, <2>5
<1>12. Mirror' /\ Spawned'
  BY <1>2, <1>4 DEF Mirror, Spawned, TypeOK
<1>13. Waits'
  <2>1. SUFFICES ASSUME NEW r \in Runs \ lost, row'[r] = "pending"
                 PROVE  Quiet(r)'
    BY <1>4 DEF Waits
  <2>2. r # q /\ row[r] = "pending"
    BY <1>4, <2>1 DEF TypeOK
  <2>3. QED
    BY <1>10, <2>1, <2>2, HasTask DEF Waits
<1>14. Truthful'
  <2>1. q \in taskIdMap => queuedTaskId[t] = q
    BY DEF Known
  <2>2. QED
    BY <1>2, <1>3, <1>4, <1>5, <2>1 DEF Truthful, TypeOK
<1>15. QED
  BY <1>1, <1>6, <1>7, <1>9, <1>11, <1>12, <1>13, <1>14

\* A run leaves the dispatcher with its outcome.
LEMMA LeaveStep ==
  ASSUME IInv, NEW q \in Runs, Finish(q) \/ Timeout(q) \/ StartRefused(q)
  PROVE  IInv'
<1> USE DEF IInv
<1> DEFINE t == taskOf[q]
<1>1. TypeOK'
  BY RunTypes
<1>2. server # "down" /\ queue[q] # "none" /\ t \in Tasks
  BY HasTask DEF Finish, Timeout, StartRefused, MayStart, Serving, Agree
<1>3. PICK s \in {"completed", "failed"} : Leave(q, s)
  BY DEF Finish, Timeout, StartRefused
<1>4. /\ row' = [row EXCEPT ![q] = s]
      /\ queue' = [queue EXCEPT ![q] = s]
      /\ runningTasks' = runningTasks \ {q}
      /\ taskIdMap' = taskIdMap \ {q}
      /\ UNCHANGED <<queuedTaskId, taskOf, lost, server, children, attached, pid>>
  BY <1>3 DEF Leave, Finish, Timeout, StartRefused, files
<1>5. PICK o \in {"closed", "failed"} : Record(q, o)
  BY DEF Finish, Timeout, StartRefused
<1>6. status' = IF q \in taskIdMap THEN [status EXCEPT ![t] = o] ELSE status
  BY <1>5 DEF Record
<1>7. /\ proc'[q] # "alive" \/ q \notin children
      /\ \A r \in Runs : r # q => proc'[r] = proc[r]
      /\ \A r \in Runs : proc[r] = "none" => proc'[r] = "none"
  <2>1. CASE Finish(q)
    BY <2>1 DEF Finish, IsAlive
  <2>2. CASE Timeout(q)
    BY <2>2 DEF Timeout, Sigterm
  <2>3. CASE StartRefused(q)
    BY <2>3 DEF StartRefused, MayStart, Spawned
  <2>4. QED
    BY <2>1, <2>2, <2>3
<1>8. InOrder' /\ Named' /\ Forgotten' /\ Detached'
  BY <1>2, <1>4 DEF InOrder, Named, Forgotten, Detached
<1>9. Unused' /\ Agree'
  BY <1>2, <1>4, <1>7, ConstantsOK DEF Unused, Agree, TypeOK
<1>10. Known'
  <2>1. SUFFICES ASSUME NEW r \in taskIdMap \ {q}
                 PROVE  /\ queuedTaskId[taskOf[r]] = r
                        /\ queue'[r] \in {"pending", "running"}
                        /\ status'[taskOf[r]] # "failed"
                        /\ \A u \in Runs :
                              queue'[u] = "pending" /\ taskOf[u] = taskOf[r] =>
                                 u = r \/ (u < r /\ queue'[r] = "pending")
                        /\ queue'[r] = "running" => pid[taskOf[r]] = r
    BY <1>4 DEF Known
  <2>2. r \in Runs /\ taskOf[r] \in Tasks /\ queue'[r] = queue[r]
    BY <1>4, HasTask DEF TypeOK
  <2>3. \A u \in Runs : queue'[u] = "pending" => queue[u] = "pending"
    BY <1>4 DEF TypeOK
  <2>4. q \in taskIdMap => taskOf[r] # t
    BY OneIsKnown
  <2>5. status'[taskOf[r]] = status[taskOf[r]]
    BY <1>2, <1>6, <2>2, <2>4 DEF TypeOK
  <2>6. QED
    BY <2>2, <2>3, <2>5 DEF Known
<1>a. ASSUME NEW r \in Runs, r # q, Quiet(r), taskOf[r] \in Tasks
      PROVE  Quiet(r)'
  BY <1>4, <1>5, <1>a, RecordQuiet
<1>b. Mirror' /\ Spawned'
  BY <1>4 DEF Mirror, Spawned, TypeOK
<1>c. Waits'
  <2>1. SUFFICES ASSUME NEW r \in Runs \ lost, row'[r] = "pending"
                 PROVE  Quiet(r)'
    BY <1>4 DEF Waits
  <2>2. r # q /\ row[r] = "pending"
    BY <1>4, <2>1 DEF TypeOK
  <2>3. QED
    BY <1>a, <2>1, <2>2, HasTask DEF Waits
<1>11. Heard'
  <2>1. SUFFICES ASSUME NEW r \in Runs \ lost,
                        queue'[r] = "pending" \/ (r \in children /\ proc'[r] = "alive")
                 PROVE  r \in taskIdMap' \/ Quiet(r)'
    BY <1>4 DEF Heard
  <2>2. /\ r # q
        /\ queue[r] = "pending" \/ (r \in children /\ proc[r] = "alive")
    BY <1>4, <1>7, <2>1 DEF TypeOK
  <2>3. r \in taskIdMap \/ Quiet(r)
    BY <2>1, <2>2 DEF Heard
  <2>4. QED
    BY <1>4, <1>a, <2>2, <2>3, HasTask
<1>12. Truthful'
  <2>1. SUFFICES ASSUME NEW u \in Tasks, status'[u] = "running"
                 PROVE  \/ u \in attached
                        \/ queuedTaskId[u] \in taskIdMap' \cap runningTasks'
    BY <1>4 DEF Truthful
  <2>2. status[u] = "running" /\ (q \in taskIdMap => u # t)
    BY <1>2, <1>6, <2>1 DEF TypeOK
  <2>3. \/ u \in attached
        \/ queuedTaskId[u] \in taskIdMap \cap runningTasks
    BY <1>2, <2>2 DEF Truthful
  <2>4. queuedTaskId[u] \in taskIdMap => queuedTaskId[u] # q
    BY <2>2, RunsAreNumbers DEF Named, TypeOK
  <2>5. QED
    BY <1>4, <2>3, <2>4
<1>13. QED
  BY <1>1, <1>8, <1>9, <1>10, <1>11, <1>12, <1>b, <1>c

LEMMA RunStep ==
  ASSUME IInv, NEW q \in Runs,
         \/ Start(q) \/ StartFails(q) \/ StartRefused(q) \/ ProcessEnds(q)
         \/ Reap(q) \/ Finish(q) \/ Timeout(q)
  PROVE  IInv'
<1> USE DEF IInv
<1>1. TypeOK'
  BY RunTypes
<1>2. CASE StartFails(q)
  <2>1. /\ Forgotten' /\ Agree' /\ Mirror' /\ Spawned' /\ Known' /\ Heard'
        /\ Truthful' /\ Detached'
    BY <1>2, AfterDeath DEF StartFails
  <2>2. /\ UNCHANGED <<queuedTaskId, taskOf, lost>>
        /\ row' = [row EXCEPT ![q] = "failed"]
        /\ queue[q] = "pending" /\ Dies(proc) /\ Record(q, "failed")
    BY <1>2 DEF StartFails, MayStart
  <2>3. InOrder' /\ Named' /\ Unused'
    BY <2>2, RunsAreNumbers DEF InOrder, Named, Unused, Dies, TypeOK
  <2>4. Waits'
    <3>1. SUFFICES ASSUME NEW r \in Runs \ lost, row'[r] = "pending"
                   PROVE  Quiet(r)'
      BY <2>2 DEF Waits
    <3>2. r # q /\ row[r] = "pending"
      BY <2>2, <3>1 DEF TypeOK
    <3>3. QED
      BY <2>2, <3>1, <3>2, RecordQuiet, HasTask DEF Waits
  <2>5. QED
    BY <1>1, <2>1, <2>3, <2>4
<1>3. CASE ProcessEnds(q) \/ Reap(q)
  <2>1. /\ UNCHANGED <<database, server, memory, pid>>
        /\ proc[q] # "none"
        /\ proc'[q] # "alive"
        /\ \A r \in Runs : r # q => proc'[r] = proc[r]
    <3>1. CASE ProcessEnds(q)
      <4>1. proc' = Ended(q) /\ proc[q] \in {"alive", "terminating"}
            /\ UNCHANGED <<database, server, memory, pid>>
        BY <3>1 DEF ProcessEnds, files
      <4>2. QED
        BY <4>1 DEF Ended, TypeOK
    <3>2. CASE Reap(q)
      <4>1. proc' = [proc EXCEPT ![q] = "gone"] /\ proc[q] = "zombie"
            /\ UNCHANGED <<database, server, memory, pid>>
        BY <3>2 DEF Reap
      <4>2. QED
        BY <4>1 DEF TypeOK
    <3>3. QED
      BY <1>3, <3>1, <3>2
  <2>2. UNCHANGED <<status, queuedTaskId, taskOf, row, lost, server, queue,
                    taskIdMap, runningTasks, children, attached, pid>>
    BY <2>1 DEF database, memory
  <2>3. Unused' /\ Heard'
    BY <2>1, <2>2 DEF Unused, Heard, Quiet, TypeOK
  <2>4. /\ InOrder' /\ Named' /\ Forgotten' /\ Agree' /\ Mirror' /\ Spawned'
        /\ Waits' /\ Known' /\ Truthful' /\ Detached'
    BY <2>2 DEF InOrder, Named, Forgotten, Agree, Mirror, Spawned, Waits, Quiet,
                Known, Truthful, Detached
  <2>5. QED
    BY <1>1, <2>3, <2>4
<1>4. QED
  BY <1>2, <1>3, StartStep, LeaveStep

LEMMA BootStep ==
  ASSUME IInv, Boot
  PROVE  IInv'
<1> USE DEF IInv
<1>1. TypeOK'
  BY TypeStep DEF Next
<1>2. /\ taskIdMap' = {} /\ runningTasks' = {} /\ children' = {}
      /\ server' = "up"
      /\ queue' = [q \in Runs |-> IF row[q] = "pending" THEN "pending" ELSE "none"]
      /\ UNCHANGED <<queuedTaskId, taskOf, row, lost, proc>>
  BY DEF Boot, Forgotten
<1>3. InOrder' /\ Unused' /\ Named'
  BY <1>2 DEF InOrder, Unused, Named
<1>4. Forgotten' /\ Agree' /\ Mirror' /\ Spawned' /\ Known' /\ Detached'
  BY <1>2 DEF Forgotten, Agree, Mirror, Spawned, Known, Detached
<1>5. Truthful'
  BY DEF Boot, Truthful
<1>6. ASSUME NEW r \in Runs, Quiet(r), taskOf[r] \in Tasks
      PROVE  Quiet(r)'
  BY <1>2, <1>6 DEF Boot, Quiet, TypeOK
<1>7. Waits' /\ Heard'
  BY <1>2, <1>6, HasTask DEF Waits, Heard
<1>8. QED
  BY <1>1, <1>3, <1>4, <1>5, <1>7

LEMMA Stutter == IInv /\ UNCHANGED vars => IInv'
BY DEF vars, database, memory, files, IInv, TypeOK, InOrder, Unused, Named,
       Forgotten, Agree, Mirror, Spawned, Waits, Quiet, Known, Heard, Truthful,
       Detached

LEMMA InvariantStep == IInv /\ [Next]_vars => IInv'
BY UserStep, RunStep, EndingStep, BootStep, Stutter DEF Next

LEMMA InvariantHolds == Spec => []IInv
<1>1. IInv /\ [Next]_vars => IInv'
  BY InvariantStep
<1>2. QED
  BY Initially, <1>1, PTL DEF Spec

-----------------------------------------------------------------------------
(***************************************************************************)
(* Rows, queue, memory and processes keep their types; a task never names  *)
(* a run the queue has not numbered.                                       *)
(***************************************************************************)
THEOREM TypeCorrect == Spec => []TypeOK
<1>1. IInv => TypeOK
  BY DEF IInv
<1>2. QED
  BY InvariantHolds, <1>1, PTL

(***************************************************************************)
(* Whatever is run, retried, cancelled, closed or lost in a crash, only    *)
(* the last run of a task decides its status, and a running task has a run *)
(* that executes or a process found at the start.                          *)
(***************************************************************************)
THEOREM LastRunAlwaysSpeaks == Spec => []LastRunSpeaks
<1>1. IInv => LastRunSpeaks
  BY DEF IInv, LastRunSpeaks, Known, Truthful
<1>2. QED
  BY InvariantHolds, <1>1, PTL

(***************************************************************************)
(* Of the processes a life of the server has spawned, no two of a task are *)
(* at work, if its task was told of each row: a run that works is known to *)
(* the bridge, or was restored and is the one that its task names; either  *)
(* way the task cannot be run again before it ends.                        *)
(***************************************************************************)
THEOREM AlwaysOneAtATime == Spec => []OneAtATime
<1>1. ASSUME IInv, NEW q \in children \ lost, proc[q] = "alive"
      PROVE  queuedTaskId[taskOf[q]] = q
  BY <1>1 DEF IInv, TypeOK, Heard, Known, Quiet
<1>2. IInv => OneAtATime
  BY <1>1 DEF OneAtATime
<1>3. QED
  BY InvariantHolds, <1>2, PTL

(***************************************************************************)
(* The end of a run that was cancelled, timed out or superseded changes no *)
(* task: the bridge no longer knows the run.                               *)
(***************************************************************************)
THEOREM LateEndsAreAlwaysIgnored == Spec => LateEndsAreIgnored
<1> DEFINE Ignored ==
      \A q \in runningTasks :
        q \notin runningTasks' /\ status' # status /\ server' # "down" =>
          queuedTaskId[taskOf[q]] = q /\ status[taskOf[q]] # "failed"
<1>1. IInv /\ [Next]_vars => [Ignored]_vars
  <2> SUFFICES ASSUME IInv, Next, NEW q \in runningTasks,
                      q \notin runningTasks', status' # status, server' # "down"
               PROVE  queuedTaskId[taskOf[q]] = q /\ status[taskOf[q]] # "failed"
    BY DEF vars, database, memory
  <2>1. q \in Runs /\ server # "down"
    BY DEF IInv, TypeOK, Forgotten
  <2>2. ~Ending /\ ~Boot /\ \A r \in Runs : ~StartFails(r)
    BY <2>1 DEF Ending, StopServer, StopDone, StopForced, Crash, CrashEnqueueing,
        CrashRetrying, CrashStarting, CrashFinishing, Boot, StartFails, Dies,
        memory
  <2>3. \A t \in Tasks : ~User(t)
    BY DEF User, Run, Retry, RetryRefused, Cancel, Close, Enqueue, memory
  <2>4. PICK r \in Runs : \/ Start(r) \/ StartRefused(r) \/ ProcessEnds(r)
                          \/ Reap(r) \/ Finish(r) \/ Timeout(r)
    BY <2>2, <2>3 DEF Next
  <2>5. StartRefused(r) \/ Finish(r) \/ Timeout(r)
    BY <2>4 DEF Start, ProcessEnds, Reap, memory
  <2>6. runningTasks' = runningTasks \ {r} /\ \E s : Record(r, s)
    BY <2>5 DEF StartRefused, Finish, Timeout, Leave
  <2>7. q = r /\ q \in taskIdMap
    BY <2>6 DEF Record
  <2>8. QED
    BY <2>7 DEF IInv, Known
<1>2. QED
  BY InvariantHolds, <1>1, PTL DEF Spec, LateEndsAreIgnored
=============================================================================
