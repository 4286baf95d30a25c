----------------------------- MODULE Waves_proofs -----------------------------
(***************************************************************************)
(* What is proved of waves, for any number of workers, any wave_total and  *)
(* any concurrency: no task outlives its wave, a worker shown as done has  *)
(* been heard to its end, and the wave is accounted for.                   *)
(***************************************************************************)
EXTENDS Waves, FiniteSetTheorems, TLAPS

\* A wave that was run is over; its workers have been waited for.
WaveOver == phase = "done" /\ next > 0
Collected == WaveOver \/ phase \in {"draining", "sweeping", "merging", "rereading"}

\* Workers are spawned in order.
InTurn == \A w \in Workers : w >= next => task[w] = "new"

\* A task that has ended has come to something, and only a result has events.
Reported ==
  \A w \in Workers :
    /\ task[w] = "ended" => report[w] # "none"
    /\ task[w] # "ended" => kept[w] = 0
    /\ kept[w] > 0 => report[w] = "result"

\* Without the aggregate timeout the join waits for every task.
Waited ==
  Collected /\ ~expired => \A w \in Workers : task[w] = "ended"

\* No task runs when the results are recorded.
Quiet == phase \notin {"spawning", "joining", "draining"} => Running = {}

\* What the records are from then on, as no task is left to change them.
Swept ==
  WaveOver \/ phase \in {"merging", "rereading"} =>
    /\ results = {w \in Joined : report[w] = "result"}
    /\ failures = {w \in Joined : report[w] = "failure"}
                  \cup (0..(Total - 1) \ {w \in Joined : report[w] # "panic"})
Appended ==
  WaveOver \/ phase = "rereading" =>
    merged = {<<w, "event">> : w \in {v \in results : kept[v] > 0}}
             \cup (failures \X {"failed", "stand-in"})
ReadBack == WaveOver => seen = {r \in merged : r[2] \in passes}
NothingRead == phase # "done" => seen = {}

IInv == /\ TypeOK /\ InTurn /\ Reported /\ Waited /\ Quiet
        /\ DoneWorkersAreHeard
        /\ Cardinality(Running) <= Concurrency
        /\ Swept /\ Appended /\ ReadBack /\ NothingRead

-----------------------------------------------------------------------------
LEMMA Initially == Init => IInv
<1> SUFFICES ASSUME Init
             PROVE  IInv
  OBVIOUS
<1>1. Running = {}
  BY DEF Init, Running
<1>2. Cardinality(Running) = 0
  BY <1>1, FS_EmptySet
<1>3. TypeOK
  <2>1. phase \in Phases /\ next \in 0..Items /\ 0 \in 0..Emits
    BY WavesAssumption DEF Init, Phases
  <2>2. /\ task \in [Workers -> {"new", "running", "killed", "ended"}]
        /\ report \in [Workers -> Reports]
    BY DEF Init, Reports
  <2>3. /\ box \in [Workers -> 0..Emits]
        /\ kept \in [Workers -> 0..Emits]
        /\ child \in [Workers -> {"none", "alive", "killed", "gone"}]
        /\ success \in [Workers -> BOOLEAN]
    BY <2>1 DEF Init
  <2>4. acp \in BOOLEAN /\ explicit \in BOOLEAN /\ expired \in BOOLEAN
    BY DEF Init
  <2>5. /\ results \subseteq Workers /\ failures \subseteq Indices
        /\ merged \subseteq Indices \X Kinds
        /\ seen \subseteq merged /\ passes \subseteq Kinds
    BY DEF Init
  <2>6. QED
    BY <2>1, <2>2, <2>3, <2>4, <2>5 DEF TypeOK
<1>4. QED
  BY <1>1, <1>2, <1>3, WavesAssumption
     DEF Init, IInv, InTurn, Reported, Waited, Quiet, Swept, Appended,
         ReadBack, NothingRead, WaveOver, Collected, DoneWorkersAreHeard

\* What the steps of a worker keep of the types.
LEMMA BecomesTypes ==
  ASSUME TypeOK, NEW w \in Workers,
         NEW state \in {"new", "running", "killed", "ended"},
         NEW process \in {"none", "alive", "killed", "gone"},
         Becomes(w, state, process)
  PROVE  /\ task' \in [Workers -> {"new", "running", "killed", "ended"}]
         /\ child' \in [Workers -> {"none", "alive", "killed", "gone"}]
BY DEF TypeOK, Becomes

LEMMA EndsTypes ==
  ASSUME TypeOK, NEW w \in Workers, NEW outcome \in Reports,
         NEW events \in 0..Emits, NEW done \in BOOLEAN,
         NEW process \in {"none", "alive", "killed", "gone"},
         Ends(w, outcome, events, done, process)
  PROVE  TypeOK'
<1>1. /\ task' \in [Workers -> {"new", "running", "killed", "ended"}]
      /\ child' \in [Workers -> {"none", "alive", "killed", "gone"}]
  BY BecomesTypes DEF Ends
<1>2. /\ report' \in [Workers -> Reports]
      /\ kept' \in [Workers -> 0..Emits]
      /\ success' \in [Workers -> BOOLEAN]
      /\ box' \in [Workers -> 0..Emits]
  BY WavesAssumption DEF TypeOK, Ends
<1>3. UNCHANGED <<wave, recorded>>
  BY DEF Ends
<1>4. QED
  BY <1>1, <1>2, <1>3 DEF TypeOK, wave, recorded

LEMMA KilledType ==
  ASSUME TypeOK, NEW w \in Workers
  PROVE  Killed(w) \in {"killed", "none", "gone"}
BY DEF TypeOK, Killed

LEMMA TypeStep == TypeOK /\ NothingRead /\ [Next]_vars => TypeOK'
<1> SUFFICES ASSUME TypeOK, NothingRead, [Next]_vars
             PROVE  TypeOK'
  OBVIOUS
<1> USE WavesAssumption
<1>1. CASE Spawn
  <2>1. next' \in 0..Items
    <3>1. next \in 0..Items /\ next < Items /\ next' = next + 1
      BY <1>1 DEF TypeOK, Spawn
    <3>2. QED
      BY <3>1
  <2>2. task' \in [Workers -> {"new", "running", "killed", "ended"}]
    <3>1. task' = [task EXCEPT ![next] = "running"]
      BY <1>1 DEF Spawn
    <3>2. QED
      BY <3>1 DEF TypeOK
  <2>3. UNCHANGED <<phase, acp, child, box, kept, report, success, explicit,
                    expired, results, failures, merged, seen, passes>>
    BY <1>1 DEF Spawn, recorded
  <2>4. QED
    BY <2>1, <2>2, <2>3 DEF TypeOK
<1>2. CASE BackendInvalid
  BY <1>2 DEF TypeOK, BackendInvalid, Moves, workers, recorded, Phases
<1>3. CASE AllSpawned
  BY <1>3 DEF TypeOK, AllSpawned, Moves, workers, recorded, Phases
<1>4. CASE AllJoined
  BY <1>4 DEF TypeOK, AllJoined, Moves, workers, recorded, Phases
<1>5. CASE AggregateTimeout
  BY <1>5 DEF TypeOK, AggregateTimeout, Moves, workers, recorded, Phases
<1>6. CASE Drained
  BY <1>6 DEF TypeOK, Drained, Moves, workers, recorded, Phases
<1>7. CASE Sweep
  <2>1. results' \subseteq Workers /\ failures' \subseteq Indices
    BY <1>7 DEF Sweep, Records, Joined, Indices
  <2>2. UNCHANGED <<next, acp, explicit, expired, workers, merged, seen, passes>>
        /\ phase' \in Phases
    BY <1>7 DEF Sweep, Records, Phases
  <2>3. QED
    BY <2>1, <2>2 DEF TypeOK, workers
<1>8. CASE Merge
  <2>1. merged' \subseteq Indices \X Kinds
    BY <1>8 DEF TypeOK, Merge, Indices, Kinds
  <2>2. seen' = {}
    BY <1>8 DEF NothingRead, Merge
  <2>3. QED
    BY <1>8, <2>1, <2>2 DEF TypeOK, Merge, workers, Phases
<1>9. CASE Reread
  BY <1>9 DEF TypeOK, Reread, workers, Phases
<1>10. ASSUME NEW w \in Workers, Worker(w)
       PROVE  TypeOK'
  <2>1. /\ box[w] \in 0..Emits /\ 0 \in 0..Emits
        /\ child[w] \in {"none", "alive", "killed", "gone"}
        /\ Killed(w) \in {"none", "alive", "killed", "gone"}
    BY KilledType DEF TypeOK
  <2>2. CASE WorkerStarts(w)
    BY <2>2, BecomesTypes DEF TypeOK, WorkerStarts, wave, recorded
  <2>3. CASE WorkerNotStarted(w)
    BY <2>1, <2>3, EndsTypes DEF WorkerNotStarted, Reports
  <2>4. CASE ReaderFails(w)
    BY <2>1, <2>4, EndsTypes DEF ReaderFails, Reports
  <2>5. CASE WorkerFinishes(w)
    BY <2>1, <2>5, EndsTypes DEF WorkerFinishes, Reports
  <2>6. CASE AcpCompletes(w)
    BY <2>1, <2>6, EndsTypes DEF AcpCompletes, Reports
  <2>7. CASE AcpFails(w)
    BY <2>1, <2>7, EndsTypes DEF AcpFails, Reports
  <2>8. CASE WorkerTimesOut(w)
    BY <2>1, <2>8, BecomesTypes DEF TypeOK, WorkerTimesOut, wave, recorded
  <2>9. CASE KilledWorkerReports(w)
    BY <2>1, <2>9, EndsTypes DEF KilledWorkerReports, Reports
  <2>10. CASE WorkerPanics(w)
    <3>1. /\ task' \in [Workers -> {"new", "running", "killed", "ended"}]
          /\ child' \in [Workers -> {"none", "alive", "killed", "gone"}]
      BY <2>1, <2>10, BecomesTypes DEF WorkerPanics
    <3>2. report' \in [Workers -> Reports]
      BY <2>10 DEF TypeOK, WorkerPanics, Reports
    <3>3. UNCHANGED <<wave, box, kept, success, recorded>>
      BY <2>10 DEF WorkerPanics
    <3>4. QED
      BY <3>1, <3>2, <3>3 DEF TypeOK, wave, recorded
  <2>11. QED
    BY <1>10, <2>2, <2>3, <2>4, <2>5, <2>6, <2>7, <2>8, <2>9, <2>10 DEF Worker
<1>11. ASSUME NEW w \in Workers, WorkerEmits(w)
       PROVE  TypeOK'
  <2>1. box' \in [Workers -> 0..Emits]
    BY <1>11 DEF TypeOK, WorkerEmits
  <2>2. QED
    BY <1>11, <2>1 DEF TypeOK, WorkerEmits, wave, recorded
<1>12. ASSUME NEW w \in Workers, ChildExits(w)
       PROVE  TypeOK'
  BY <1>12 DEF TypeOK, ChildExits, wave, recorded
<1>13. CASE UNCHANGED vars
  BY <1>13 DEF TypeOK, vars, wave, workers, recorded
<1>14. QED
  BY <1>1, <1>2, <1>3, <1>4, <1>5, <1>6, <1>7, <1>8, <1>9, <1>10, <1>11,
     <1>12, <1>13 DEF Next, Runner

-----------------------------------------------------------------------------
(* What a step of a worker can do to its task, and what the other steps    *)
(* leave alone.                                                            *)

\* A task that is not running is not touched, and one that is stays as it is,
\* is killed, or ends.
LEMMA WorkerShape ==
  ASSUME TypeOK, NEW w \in Workers, Worker(w)
  PROVE  /\ task[w] \in {"running", "killed"}
         /\ \E t \in {"running", "killed", "ended"} :
              task' = [task EXCEPT ![w] = t]
         /\ UNCHANGED <<wave, recorded>>
<1> USE DEF Becomes
<1>1. CASE WorkerStarts(w)
  BY <1>1 DEF WorkerStarts
<1>2. CASE WorkerNotStarted(w)
  BY <1>2 DEF WorkerNotStarted, Ends
<1>3. CASE ReaderFails(w)
  BY <1>3 DEF ReaderFails, Ends
<1>4. CASE WorkerFinishes(w)
  BY <1>4 DEF WorkerFinishes, Ends
<1>5. CASE AcpCompletes(w)
  BY <1>5 DEF AcpCompletes, Ends
<1>6. CASE AcpFails(w)
  BY <1>6 DEF AcpFails, Ends
<1>7. CASE WorkerTimesOut(w)
  BY <1>7 DEF WorkerTimesOut
<1>8. CASE KilledWorkerReports(w)
  BY <1>8 DEF KilledWorkerReports, Ends
<1>9. CASE WorkerPanics(w)
  BY <1>9 DEF WorkerPanics
<1>10. QED
  BY <1>1, <1>2, <1>3, <1>4, <1>5, <1>6, <1>7, <1>8, <1>9 DEF Worker

\* The steps of the loop but a spawn, those of the processes, and stutters.
LEMMA OtherSteps ==
  ASSUME [Next]_vars, ~Spawn, \A w \in Workers : ~Worker(w)
  PROVE  UNCHANGED <<next, task, kept, report, success>>
<1>1. CASE Runner
  BY <1>1 DEF Runner, BackendInvalid, AllSpawned, AllJoined, AggregateTimeout,
              Drained, Moves, Sweep, Records, Merge, Reread, workers
<1>2. ASSUME NEW w \in Workers, WorkerEmits(w) \/ ChildExits(w)
      PROVE  UNCHANGED <<next, task, kept, report, success>>
  BY <1>2 DEF WorkerEmits, ChildExits, wave
<1>3. CASE UNCHANGED vars
  BY <1>3 DEF vars, wave, workers
<1>4. QED
  BY <1>1, <1>2, <1>3 DEF Next

-----------------------------------------------------------------------------
LEMMA RunningIsFinite == IsFiniteSet(Running)
<1>1. IsFiniteSet(Workers)
  BY WavesAssumption, FS_Interval DEF Workers
<1>2. Running \subseteq Workers
  BY DEF Running
<1>3. QED
  BY <1>1, <1>2, FS_Subset

\* Only a spawn starts a worker, and only what waits for a permit is spawned.
LEMMA RunningStep ==
  ASSUME TypeOK, InTurn, [Next]_vars
  PROVE  \/ Running' \subseteq Running /\ (Running' # {} => Running # {})
         \/ /\ phase = "spawning" /\ phase' = "spawning"
            /\ Cardinality(Running) < Concurrency
            /\ Running' = Running \cup {next}
<1>1. CASE Spawn
  <2>1. next \in Workers
    BY <1>1, WavesAssumption DEF Spawn, TypeOK, Workers
  <2>2. task' = [task EXCEPT ![next] = "running"]
    BY <1>1 DEF Spawn
  <2>3. Running' = Running \cup {next}
    BY <2>1, <2>2 DEF TypeOK, Running
  <2>4. QED
    BY <1>1, <2>3 DEF Spawn
<1>2. CASE UNCHANGED task
  BY <1>2 DEF Running
<1>3. ASSUME NEW w \in Workers, Worker(w)
      PROVE  Running' \subseteq Running
  BY <1>3, WorkerShape DEF TypeOK, Running
<1>4. QED
  BY <1>1, <1>2, <1>3, OtherSteps

\* The permits are enough for the workers that are live.
LEMMA PermitStep ==
  TypeOK /\ InTurn /\ Cardinality(Running) <= Concurrency /\ [Next]_vars
    => Cardinality(Running') <= Concurrency
<1> SUFFICES ASSUME TypeOK, InTurn, Cardinality(Running) <= Concurrency, [Next]_vars
             PROVE  Cardinality(Running') <= Concurrency
  OBVIOUS
<1>1. Cardinality(Running) \in Nat
  BY RunningIsFinite, FS_CardinalityType
<1>2. CASE Running' \subseteq Running
  <2>1. IsFiniteSet(Running') /\ Cardinality(Running') <= Cardinality(Running)
    BY <1>2, RunningIsFinite, FS_Subset
  <2>2. Cardinality(Running') \in Nat
    BY <2>1, FS_CardinalityType
  <2>3. QED
    BY <1>1, <2>1, <2>2, WavesAssumption
<1>3. CASE Cardinality(Running) < Concurrency /\ Running' = Running \cup {next}
  <2>1. /\ IsFiniteSet(Running \cup {next})
        /\ \/ Cardinality(Running \cup {next}) = Cardinality(Running)
           \/ Cardinality(Running \cup {next}) = Cardinality(Running) + 1
    BY RunningIsFinite, FS_AddElement
  <2>2. Cardinality(Running') \in Nat
    BY <1>3, <2>1, FS_CardinalityType
  <2>3. QED
    BY <1>1, <1>3, <2>1, <2>2, WavesAssumption
<1>4. QED
  BY <1>2, <1>3, RunningStep

\* Workers are spawned in order, and none but the next.
LEMMA OrderStep == TypeOK /\ InTurn /\ [Next]_vars => InTurn'
<1> SUFFICES ASSUME TypeOK, InTurn, [Next]_vars
             PROVE  InTurn'
  OBVIOUS
<1> USE WavesAssumption
<1>1. CASE Spawn
  BY <1>1 DEF TypeOK, InTurn, Spawn, Workers
<1>2. CASE UNCHANGED <<task, next>>
  BY <1>2 DEF InTurn
<1>3. ASSUME NEW w \in Workers, Worker(w)
      PROVE  InTurn'
  <2>1. /\ next' = next /\ task[w] # "new"
        /\ \E t \in {"running", "killed", "ended"} : task' = [task EXCEPT ![w] = t]
    BY <1>3, WorkerShape DEF wave
  <2>2. \A v \in Workers : task[v] = "new" => task'[v] = "new"
    BY <2>1 DEF TypeOK
  <2>3. QED
    BY <2>1, <2>2 DEF InTurn
<1>4. QED
  BY <1>1, <1>2, <1>3, OtherSteps

\* What a task came to is told from how it ended, and is not changed after.
LEMMA ReportStep == TypeOK /\ InTurn /\ Reported /\ [Next]_vars => Reported'
<1> SUFFICES ASSUME TypeOK, InTurn, Reported, [Next]_vars
             PROVE  Reported'
  OBVIOUS
<1>1. CASE Spawn
  <2>1. next \in Workers /\ task[next] = "new"
    BY <1>1, WavesAssumption DEF Spawn, TypeOK, InTurn, Workers
  <2>2. QED
    BY <1>1, <2>1 DEF Spawn, TypeOK, Reported
<1>2. CASE UNCHANGED <<task, report, kept>>
  BY <1>2 DEF Reported
<1>3. ASSUME NEW w \in Workers, NEW outcome \in Reports, NEW events \in Nat,
             NEW done \in BOOLEAN,
             NEW process \in {"none", "alive", "killed", "gone"},
             Ends(w, outcome, events, done, process),
             outcome # "none", events # 0 => outcome = "result"
      PROVE  Reported'
  BY <1>3 DEF TypeOK, Reported, Ends, Becomes
<1>4. ASSUME NEW w \in Workers, Worker(w)
      PROVE  Reported'
  <2>1. /\ box[w] \in Nat /\ 0 \in Nat
        /\ child[w] \in {"none", "alive", "killed", "gone"}
        /\ Killed(w) \in {"none", "alive", "killed", "gone"}
    BY WavesAssumption, KilledType DEF TypeOK
  <2>2. CASE WorkerStarts(w) \/ WorkerTimesOut(w)
    <3>1. PICK t \in {"running", "killed"} : task' = [task EXCEPT ![w] = t]
      BY <2>2 DEF WorkerStarts, WorkerTimesOut, Becomes
    <3>2. task[w] = "running" /\ UNCHANGED <<kept, report>>
      BY <2>2 DEF WorkerStarts, WorkerTimesOut
    <3>3. QED
      BY <3>1, <3>2 DEF TypeOK, Reported
  <2>3. CASE WorkerNotStarted(w)
    BY <2>1, <2>3, <1>3 DEF WorkerNotStarted, Reports
  <2>4. CASE ReaderFails(w)
    BY <2>1, <2>4, <1>3 DEF ReaderFails, Reports
  <2>5. CASE WorkerFinishes(w)
    BY <2>1, <2>5, <1>3 DEF WorkerFinishes, Reports
  <2>6. CASE AcpCompletes(w)
    BY <2>1, <2>6, <1>3 DEF AcpCompletes, Reports
  <2>7. CASE AcpFails(w)
    BY <2>1, <2>7, <1>3 DEF AcpFails, Reports
  <2>8. CASE KilledWorkerReports(w)
    BY <2>1, <2>8, <1>3 DEF KilledWorkerReports, Reports
  <2>9. CASE WorkerPanics(w)
    BY <2>9 DEF WorkerPanics, Becomes, TypeOK, Reported
  <2>10. QED
    BY <1>4, <2>2, <2>3, <2>4, <2>5, <2>6, <2>7, <2>8, <2>9 DEF Worker
<1>5. QED
  BY <1>1, <1>2, <1>4, OtherSteps

\* A worker is shown as done by the end of its task only, when its process runs
\* no more; and a process that does not run does not write.
LEMMA HeardStep ==
  TypeOK /\ InTurn /\ DoneWorkersAreHeard /\ [Next]_vars => DoneWorkersAreHeard'
<1> SUFFICES ASSUME TypeOK, InTurn, DoneWorkersAreHeard, [Next]_vars
             PROVE  DoneWorkersAreHeard'
  OBVIOUS
<1>1. CASE Spawn
  <2>1. next \in Workers /\ task[next] = "new"
    BY <1>1, WavesAssumption DEF Spawn, TypeOK, InTurn, Workers
  <2>2. QED
    BY <1>1, <2>1 DEF Spawn, TypeOK, DoneWorkersAreHeard
<1>2. CASE UNCHANGED workers
  BY <1>2 DEF workers, DoneWorkersAreHeard
<1>3. ASSUME NEW w \in Workers, NEW outcome, NEW events, NEW done \in BOOLEAN,
             NEW process, Ends(w, outcome, events, done, process),
             done => process # "alive"
      PROVE  DoneWorkersAreHeard'
  BY <1>3 DEF TypeOK, DoneWorkersAreHeard, Ends, Becomes
<1>4. ASSUME NEW w \in Workers, Worker(w)
      PROVE  DoneWorkersAreHeard'
  <2>1. Killed(w) # "alive"
    BY KilledType
  <2>2. CASE WorkerStarts(w) \/ WorkerTimesOut(w) \/ WorkerPanics(w)
    <3>1. PICK t, c : task' = [task EXCEPT ![w] = t] /\ child' = [child EXCEPT ![w] = c]
      BY <2>2 DEF WorkerStarts, WorkerTimesOut, WorkerPanics, Becomes
    <3>2. task[w] = "running" /\ UNCHANGED <<box, success>>
      BY <2>2 DEF WorkerStarts, WorkerTimesOut, WorkerPanics
    <3>3. QED
      BY <3>1, <3>2 DEF TypeOK, DoneWorkersAreHeard
  <2>3. CASE WorkerNotStarted(w)
    BY <2>3, <1>3 DEF WorkerNotStarted
  <2>4. CASE ReaderFails(w)
    BY <2>4, <1>3 DEF ReaderFails
  <2>5. CASE WorkerFinishes(w)
    <3>1. PICK done \in BOOLEAN :
            /\ done => child[w] = "gone"
            /\ Ends(w, "result", box[w], done, child[w])
      BY <2>5 DEF WorkerFinishes
    <3>2. QED
      BY <3>1, <1>3
  <2>6. CASE AcpCompletes(w)
    BY <2>1, <2>6, <1>3 DEF AcpCompletes
  <2>7. CASE AcpFails(w)
    BY <2>7, <1>3 DEF AcpFails
  <2>8. CASE KilledWorkerReports(w)
    BY <2>8, <1>3 DEF KilledWorkerReports
  <2>9. QED
    BY <1>4, <2>2, <2>3, <2>4, <2>5, <2>6, <2>7, <2>8 DEF Worker
<1>5. ASSUME NEW w \in Workers, WorkerEmits(w)
      PROVE  DoneWorkersAreHeard'
  BY <1>5 DEF WorkerEmits, TypeOK, DoneWorkersAreHeard
<1>6. ASSUME NEW w \in Workers, ChildExits(w)
      PROVE  DoneWorkersAreHeard'
  BY <1>6 DEF ChildExits, TypeOK, DoneWorkersAreHeard
<1>7. CASE Runner /\ ~Spawn
  BY <1>2, <1>7 DEF Runner, BackendInvalid, AllSpawned, AllJoined,
                    AggregateTimeout, Drained, Moves, Sweep, Records, Merge, Reread
<1>8. QED
  BY <1>1, <1>2, <1>4, <1>5, <1>6, <1>7 DEF Next, vars

\* Once the workers have been waited for there is nobody left to change what is
\* recorded of them.
LEMMA RecordStep == IInv /\ [Next]_vars =>
                      Waited' /\ Quiet' /\ Swept' /\ Appended' /\ ReadBack' /\ NothingRead'
<1> SUFFICES ASSUME IInv, [Next]_vars
             PROVE  Waited' /\ Quiet' /\ Swept' /\ Appended' /\ ReadBack' /\ NothingRead'
  OBVIOUS
<1> USE DEF WaveOver, Collected
<1> DEFINE Kept == /\ Waited' /\ Quiet' /\ Swept' /\ Appended'
                   /\ ReadBack' /\ NothingRead'
<1>1. CASE Spawn
  BY <1>1 DEF Spawn, recorded, IInv, Waited, Quiet, Swept, Appended, ReadBack,
              NothingRead
<1>2. CASE BackendInvalid
  <2>1. Running' = {}
    BY <1>2 DEF BackendInvalid, Moves, workers, IInv, TypeOK, InTurn, Running, Workers
  <2>2. QED
    BY <1>2, <2>1 DEF BackendInvalid, Moves, workers, recorded, IInv, Waited,
                      Quiet, Swept, Appended, ReadBack, NothingRead
<1>3. CASE AllSpawned
  BY <1>3 DEF AllSpawned, Moves, workers, recorded, IInv, Waited, Quiet, Swept,
              Appended, ReadBack, NothingRead
<1>4. CASE AllJoined
  BY <1>4 DEF AllJoined, Moves, workers, recorded, IInv, Waited, Quiet, Swept,
              Appended, ReadBack, NothingRead
<1>5. CASE AggregateTimeout
  BY <1>5 DEF AggregateTimeout, Moves, workers, recorded, IInv, Waited, Quiet,
              Swept, Appended, ReadBack, NothingRead
<1>6. CASE Drained
  <2>1. Running' = {}
    BY <1>6 DEF Drained, Moves, workers, Running
  <2>2. QED
    BY <1>6, <2>1 DEF Drained, Moves, workers, recorded, IInv, Waited, Quiet,
                      Swept, Appended, ReadBack, NothingRead
<1>7. CASE Sweep
  <2>1. Running' = Running
    BY <1>7 DEF Sweep, Records, workers, Running
  <2>2. QED
    BY <1>7, <2>1 DEF Sweep, Records, workers, Joined, IInv, Waited, Quiet,
                      Swept, Appended, ReadBack, NothingRead
<1>8. CASE Merge
  <2>1. Running' = Running
    BY <1>8 DEF Merge, workers, Running
  <2>2. QED
    BY <1>8, <2>1 DEF Merge, workers, Joined, IInv, Waited, Quiet, Swept,
                      Appended, ReadBack, NothingRead
<1>9. CASE Reread
  <2>1. Running' = Running
    BY <1>9 DEF Reread, workers, Running
  <2>2. QED
    BY <1>9, <2>1 DEF Reread, workers, Joined, IInv, Waited, Quiet, Swept,
                      Appended, ReadBack, NothingRead
<1>10. ASSUME NEW w \in Workers, Worker(w)
       PROVE  Kept
  <2>1. w \in Running
    BY <1>10, WorkerShape DEF IInv, Running
  <2>2. phase \in {"spawning", "joining", "draining"}
    BY <2>1 DEF IInv, Quiet
  <2>3. UNCHANGED <<wave, recorded>>
    BY <1>10, WorkerShape DEF IInv
  <2>4. Waited'
    <3>1. task[w] # "ended"
      BY <2>1 DEF Running
    <3>2. QED
      BY <2>3, <3>1 DEF IInv, Waited, wave
  <2>5. QED
    BY <2>2, <2>3, <2>4 DEF wave, recorded, IInv, Quiet, Swept, Appended,
                            ReadBack, NothingRead
<1>11. CASE UNCHANGED <<wave, task, kept, report, recorded>>
  <2>1. Running' = Running
    BY <1>11 DEF Running
  <2>2. QED
    BY <1>11, <2>1 DEF wave, recorded, Joined, IInv, Waited, Quiet, Swept,
                       Appended, ReadBack, NothingRead
<1>12. \/ Runner
       \/ \E w \in Workers : Worker(w)
       \/ UNCHANGED <<wave, task, kept, report, recorded>>
  BY DEF Next, WorkerEmits, ChildExits, vars, workers
<1>13. QED
  BY <1>1, <1>2, <1>3, <1>4, <1>5, <1>6, <1>7, <1>8, <1>9, <1>10, <1>11, <1>12
     DEF Runner

LEMMA InvariantHolds == Spec => []IInv
<1>1. IInv /\ [Next]_vars => IInv'
  BY TypeStep, OrderStep, ReportStep, PermitStep, HeardStep, RecordStep DEF IInv
<1>2. QED
  BY <1>1, Initially, PTL DEF Spec

-----------------------------------------------------------------------------
\* The types of the variables.
THEOREM TypeCorrect == Spec => []TypeOK
<1>1. IInv => TypeOK
  BY DEF IInv
<1>2. QED
  BY <1>1, InvariantHolds, PTL

\* No task runs once the results of its wave are recorded, and never more than
\* the hat allows, for any number of workers.
THEOREM TasksNeverOutliveWave == Spec => []TasksEndWithWave
<1>1. IInv => TasksEndWithWave
  BY DEF IInv, Quiet, TasksEndWithWave
<1>2. QED
  BY <1>1, InvariantHolds, PTL

\* Whatever the processes do, and whatever fails, a worker that was shown as
\* done runs no more and left nothing unread: its task ended with the process
\* gone or killed, and only a process that runs writes.
THEOREM DoneWorkersAreAlwaysHeard == Spec => []DoneWorkersAreHeard
<1>1. IInv => DoneWorkersAreHeard
  BY DEF IInv
<1>2. QED
  BY <1>1, InvariantHolds, PTL

\* Each index of a wave that is over has its result or its failure, and the
\* events of the workers that were joined are in the file, and published as far
\* as the configuration lets them, whatever wave_total says: a task without a
\* report has not ended, and the join waits for all.
THEOREM WavesAreAccountedFor == Spec => []WaveIsAccountedFor
<1>1. ASSUME IInv, phase = "done", next > 0
      PROVE  WaveIsAccountedFor
  <2>1. /\ results = {w \in Joined : report[w] = "result"}
        /\ failures = {w \in Joined : report[w] = "failure"}
                      \cup (0..(Total - 1) \ {w \in Joined : report[w] # "panic"})
        /\ merged = {<<w, "event">> : w \in {v \in results : kept[v] > 0}}
                    \cup (failures \X {"failed", "stand-in"})
        /\ seen = {r \in merged : r[2] \in passes}
    BY <1>1 DEF IInv, Swept, Appended, ReadBack, WaveOver
  <2>2. \A w \in Joined : w \in Workers /\ report[w] \in {"result", "failure", "panic"}
    BY <1>1 DEF IInv, TypeOK, Joined, Waited, Collected, WaveOver, Reported, Reports
  <2>3. ASSUME NEW i \in 0..(Total - 1)
        PROVE  IF i \in results THEN i \notin failures
                                 ELSE Told(i, "stand-in")
    <3>1. CASE i \in results
      BY <3>1, <2>1
    <3>2. CASE i \notin results
      <4>1. i \in failures
        BY <3>2, <2>1, <2>2
      <4>2. QED
        BY <3>2, <4>1, <2>1 DEF Told
    <3>3. QED
      BY <3>1, <3>2
  <2>4. ASSUME NEW w \in Workers, w \in results \/ ~expired, kept[w] > 0
        PROVE  Told(w, "event")
    <3>1. report[w] = "result"
      BY <1>1, <2>4 DEF IInv, Reported
    <3>2. w \in results
      BY <2>1, <2>4, <3>1 DEF Joined
    <3>3. QED
      BY <2>1, <2>4, <3>2 DEF Told
  <2>5. QED
    BY <2>3, <2>4 DEF WaveIsAccountedFor
<1>2. IInv => WaveIsAccountedFor
  BY <1>1 DEF WaveIsAccountedFor
<1>3. QED
  BY <1>2, InvariantHolds, PTL
===============================================================================
