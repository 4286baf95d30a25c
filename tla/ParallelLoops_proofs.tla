------------------------ MODULE ParallelLoops_proofs ------------------------
(***************************************************************************)
(* What holds of any number of runs, mergers and commands, crashes         *)
(* included: they use the queue as MergeQueue says, so that what is proved *)
(* of the queue holds of the system; mergers are serialised by the lock;   *)
(* but for the API's merge, merged means merged; without the commands for  *)
(* orphans and to discard, only loops that have ended are merged and no    *)
(* work is lost; and runs, mergers and the commands that spawn them take   *)
(* the queue through MergeLifecycle.                                       *)
(***************************************************************************)
EXTENDS ParallelLoops, FiniteSetTheorems, TLAPS

QueueProofs == INSTANCE MergeQueue_proofs WITH Clients <- Procs

\* The phases of a merger: it never goes to a worktree, nor runs a command.
MergerPhases == {"new", "trying", "waiting"} \cup AtWork \cup Ended

(***************************************************************************)
(* The strengthening.  Who has a queue operation to do knows its loop; who *)
(* is past try_acquire in the main workspace has the lock; and a merger is *)
(* in none of the phases of the others.                                    *)
(***************************************************************************)
JobsNamed ==
    /\ \A m \in Mergers : pc[m] # "new" => job[m] \in Loops
    /\ \A u \in Users :
        pc[u] \in {"discarding", "removing", "queueing", "reserving", "claiming"}
            => job[u] \in Loops

\* A process between the two halves of a queue operation is where it began it.
Busy ==
    /\ \A r \in Loops : pend[r] # Idle => pc[r] = "completed" /\ holder # r
    /\ \A m \in Mergers :
        pend[m] # Idle => pc[m] \in {"marking", "completed", "stopped"}
    /\ \A u \in Users :
        pend[u] # Idle =>
            pc[u] \in {"discarding", "queueing", "reserving", "claiming"}

LockHeld ==
    /\ \A m \in Mergers : pc[m] \in MergerPhases
    /\ \A p \in Procs : pc[p] = "starting" => holder = p
    /\ MergersHaveTheLock

IInv == TypeOK /\ JobsNamed /\ Busy /\ LockHeld

-----------------------------------------------------------------------------
\* The queue's lines are the lines of MergeLog.
LEMMA LogIsLines == TypeOK => log \in Seq(Line)
BY DEF TypeOK, Queue!TypeOK, Queue!Line, Queue!Kinds, Line, Kinds

\* A list of pending merges is a sequence of loops, however long the file.
LEMMA PendingAreLoops ==
  ASSUME log \in Seq(Line)
  PROVE  PendingOrders \subseteq Seq(Loops)
<1> DEFINE waiting == {l \in Loops : InState(log, l, "queued")}
<1>1. IsFiniteSet(waiting)
  <2> DEFINE names == {log[i].loop : i \in 1..Len(log)}
             named == [i \in 1..Len(log) |-> log[i].loop]
  <2>1. IsFiniteSet(1..Len(log))
    BY FS_Interval
  <2>2. named \in Surjection(1..Len(log), names)
    BY DEF Surjection
  <2>3. IsFiniteSet(names)
    BY <2>1, <2>2, FS_Surjection
  <2>4. waiting \subseteq names
    BY DEF InState, InStateAt
  <2>5. QED
    BY <2>3, <2>4, FS_Subset
<1>2. Cardinality(waiting) \in Nat
  BY <1>1, FS_CardinalityType
<1>3. PendingOrders \subseteq [1..Cardinality(waiting) -> waiting]
  BY DEF PendingOrders
<1>4. waiting \subseteq Loops
  OBVIOUS
<1> HIDE DEF waiting
<1>5. QED
  BY <1>2, <1>3, <1>4

(***************************************************************************)
(* MergeQueue as the system uses it, and as its proofs are instantiated,   *)
(* is one specification.                                                   *)
(***************************************************************************)
LEMMA SameQueue ==
  /\ Queue!Init <=> QueueProofs!Init
  /\ Queue!Next <=> QueueProofs!Next
  /\ Queue!TypeOK <=> QueueProofs!TypeOK
<1>1. Queue!Init <=> QueueProofs!Init
  BY DEF Queue!Init, QueueProofs!Init
<1>2. Queue!Next <=> QueueProofs!Next
  <2>1. \A l, n, k : Queue!Event(l, k, n) = QueueProofs!Event(l, k, n)
    BY DEF Queue!Event, QueueProofs!Event
  <2>2. \A f, l, n, k : Queue!InStateAt(f, n, l, k) <=> QueueProofs!InStateAt(f, n, l, k)
    BY DEF Queue!InStateAt, QueueProofs!InStateAt
  <2>3. \A f, l, ks : Queue!InStates(f, l, ks) <=> QueueProofs!InStates(f, l, ks)
    BY <2>2 DEF Queue!InStates, QueueProofs!InStates, Queue!InState, QueueProofs!InState
  <2>4. \A k : Queue!From(k) = QueueProofs!From(k)
    BY DEF Queue!From, QueueProofs!From
  <2>5. \A f : Queue!Readable(f) <=> QueueProofs!Readable(f)
    BY DEF Queue!Readable, QueueProofs!Readable
  <2>6. \A c, l, k : Queue!Check(c, l, k) <=> QueueProofs!Check(c, l, k)
    BY <2>1, <2>3, <2>4, <2>5 DEF Queue!Check, QueueProofs!Check
  <2>7. \A c, l : Queue!Enqueue(c, l) <=> QueueProofs!Enqueue(c, l)
    BY <2>1 DEF Queue!Enqueue, QueueProofs!Enqueue
  <2>8. \A line : Queue!Remains(line) = QueueProofs!Remains(line)
    BY DEF Queue!Remains, QueueProofs!Remains
  <2>9. \A c : Queue!AppendEvent(c) <=> QueueProofs!AppendEvent(c)
    BY DEF Queue!AppendEvent, QueueProofs!AppendEvent
  <2>10. \A c : Queue!CrashBeforeAppend(c) <=> QueueProofs!CrashBeforeAppend(c)
    BY DEF Queue!CrashBeforeAppend, QueueProofs!CrashBeforeAppend
  <2>11. \A c : Queue!CrashInAppend(c) <=> QueueProofs!CrashInAppend(c)
    <3>1. \A S : Queue!Cardinality(S) = QueueProofs!Cardinality(S)
      BY DEF Queue!Cardinality, QueueProofs!Cardinality
    <3>2. QED
      BY <2>8, <3>1, Zenon DEF Queue!CrashInAppend, QueueProofs!CrashInAppend
  <2>12. QED
    BY <2>6, <2>7, <2>9, <2>10, <2>11, Zenon
       DEF Queue!Next, QueueProofs!Next, Queue!MarkMerging,
           QueueProofs!MarkMerging, Queue!MarkMerged, QueueProofs!MarkMerged,
           Queue!MarkNeedsReview, QueueProofs!MarkNeedsReview,
           Queue!Discard, QueueProofs!Discard
<1>3. Queue!TypeOK <=> QueueProofs!TypeOK
  BY DEF Queue!TypeOK, QueueProofs!TypeOK, Queue!Line,
         QueueProofs!Line, Queue!Pending, QueueProofs!Pending,
         Queue!Kinds, QueueProofs!Kinds
<1>4. QED
  BY <1>1, <1>2, <1>3

\* The queue's own proof that its steps keep its types, brought here.
LEMMA QueueTypeStep == Queue!TypeOK /\ [Queue!Next]_queue => Queue!TypeOK'
<1>1. Queue!TypeOK' <=> QueueProofs!TypeOK'
  BY SameQueue, PTL
<1>2. QueueProofs!TypeOK /\ [QueueProofs!Next]_(QueueProofs!vars) => QueueProofs!TypeOK'
  BY QueueProofs!TypeStep, ParallelLoopsAssumption, NoLoopAssumption
     DEF QueueProofs!Line, QueueProofs!Kinds, Line, Kinds
<1>3. QED
  BY <1>1, <1>2, SameQueue DEF queue, QueueProofs!vars

-----------------------------------------------------------------------------
(***************************************************************************)
(* Every step is a step of the queue, or leaves it alone.                  *)
(***************************************************************************)
LEMMA QueueStep == IInv /\ [Next]_vars => [Queue!Next]_queue
<1> SUFFICES ASSUME IInv, [Next]_vars
             PROVE  [Queue!Next]_queue
  OBVIOUS
<1> USE DEF Procs
<1>1. ASSUME NEW r \in Loops, Start(r)
      PROVE  [Queue!Next]_queue
  BY <1>1 DEF Start
<1>2. ASSUME NEW u \in Users, UserBegins(u)
      PROVE  [Queue!Next]_queue
  BY <1>2 DEF UserBegins, UserProcess, UserRetry, UserMerge, UserMergeOrphan,
              UserDiscard, ApiMerge
<1>3. ASSUME NEW r \in Loops, RunActs(r)
      PROVE  [Queue!Next]_queue
  <2>1. CASE EnqueueSelf(r)
    BY <2>1 DEF EnqueueSelf, Queue!Next
  <2>2. CASE ~EnqueueSelf(r)
    BY <1>3, <2>2 DEF RunActs, TakeLock, GoToWorktree, ParseFails, Preflight,
       PreflightFails, Completes, Stops, LeaveForManualMerge, Land, GiveUp
  <2>3. QED
    BY <2>1, <2>2
<1>4. ASSUME NEW m \in Mergers, MergerActs(m)
      PROVE  [Queue!Next]_queue
  <2>1. ASSUME pc[m] # "new" PROVE job[m] \in Loops
    BY <2>1 DEF IInv, JobsNamed
  <2>2. CASE MarkMerging(m)
    BY <2>1, <2>2 DEF MarkMerging, Queue!Next
  <2>3. CASE MarkMerged(m)
    BY <2>1, <2>3 DEF MarkMerged, Queue!Next
  <2>4. CASE MarkNeedsReview(m)
    BY <2>1, <2>4 DEF MarkNeedsReview, Queue!Next
  <2>5. CASE ~MarkMerging(m) /\ ~MarkMerged(m) /\ ~MarkNeedsReview(m)
    BY <1>4, <2>5 DEF MergerActs, TakeLock, WaitForLock, ParseFails, Preflight,
       PreflightFails, MarkMergingSkipped, MergesBranch, Completes, Stops,
       OutcomeRefused
  <2>6. QED
    BY <2>2, <2>3, <2>4, <2>5
<1>5. ASSUME NEW u \in Users, UserActs(u)
      PROVE  [Queue!Next]_queue
  <2>1. ASSUME pc[u] \in {"discarding", "queueing", "reserving", "claiming"}
        PROVE  job[u] \in Loops
    BY <2>1 DEF IInv, JobsNamed
  <2>2. CASE EnqueueOrphan(u)
    BY <2>1, <2>2 DEF EnqueueOrphan, Queue!Next
  <2>3. CASE DiscardEntry(u)
    BY <2>1, <2>3 DEF DiscardEntry, Queue!Next
  <2>4. CASE ApiMarkMerging(u)
    BY <2>1, <2>4 DEF ApiMarkMerging, Queue!Next
  <2>5. CASE ApiMarkMerged(u)
    BY <2>1, <2>5 DEF ApiMarkMerged, Queue!Next
  <2>6. CASE DiscardWithoutEntry(u) \/ DiscardRefused(u) \/ RemoveTree(u) \/ ApiRefused(u)
    BY <2>6 DEF DiscardWithoutEntry, DiscardRefused, RemoveTree, ApiRefused
  <2>7. QED
    BY <1>5, <2>2, <2>3, <2>4, <2>5, <2>6 DEF UserActs
<1>6. ASSUME NEW p \in Procs, SharedActs(p)
      PROVE  [Queue!Next]_queue
  <2>1. CASE AppendEvent(p)
    BY <2>1 DEF AppendEvent, Queue!Next
  <2>2. CASE ~AppendEvent(p)
    BY <1>6, <2>2 DEF SharedActs, ListPending, Spawn, SpawnFails, AllSpawned, Exit
  <2>3. QED
    BY <2>1, <2>2
<1>7. ASSUME NEW p \in Procs, Die(p)
      PROVE  [Queue!Next]_queue
  BY <1>7 DEF Die, Queue!Next
<1>8. CASE UNCHANGED vars
  BY <1>8 DEF vars, queue
<1>9. QED
  BY <1>1, <1>2, <1>3, <1>4, <1>5, <1>6, <1>7, <1>8 DEF Next, Acts

-----------------------------------------------------------------------------
\* The types of the variables that are not the queue's.
Shape ==
    /\ holder \in Procs \cup {Nobody}
    /\ pc \in [Procs -> Phases]
    /\ job \in [Procs -> Loops \cup {NoLoop}]
    /\ todo \in [Procs -> Seq(Loops)]
    /\ trees \subseteq Loops
    /\ registered \subseteq Loops
    /\ landed \subseteq Loops

\* Every step keeps them.
LEMMA ShapeStep == IInv /\ [Next]_vars => Shape'
<1> SUFFICES ASSUME IInv, [Next]_vars
             PROVE  Shape'
  OBVIOUS
<1>0. Shape /\ LockHeld /\ Busy /\ log \in Seq(Line)
  BY LogIsLines DEF IInv, TypeOK, Shape
<1> USE DEF Shape, Procs, Phases, Goto, files, LockHeld, MergerPhases, AtWork, Ended
<1>1. ASSUME NEW r \in Loops, Start(r)
      PROVE  Shape'
  BY <1>0, <1>1 DEF Start
<1>2. ASSUME NEW u \in Users, UserBegins(u)
      PROVE  Shape'
  <2>1. CASE UserProcess(u)
    BY <1>0, <2>1 DEF UserProcess, Begin
  <2>2. ASSUME NEW l \in Loops, UserRetry(u, l)
        PROVE  Shape'
    BY <1>0, <2>2 DEF UserRetry, Begin
  <2>3. ASSUME NEW l \in Loops, UserMerge(u, l)
        PROVE  Shape'
    BY <1>0, <2>3 DEF UserMerge, Begin
  <2>4. ASSUME NEW l \in Loops, UserMergeOrphan(u, l)
        PROVE  Shape'
    BY <1>0, <2>4 DEF UserMergeOrphan, Begin
  <2>5. ASSUME NEW l \in Loops, UserDiscard(u, l)
        PROVE  Shape'
    BY <1>0, <2>5 DEF UserDiscard, Begin
  <2>6. ASSUME NEW l \in Loops, ApiMerge(u, l)
        PROVE  Shape'
    BY <1>0, <2>6 DEF ApiMerge, Begin
  <2>7. QED
    BY <1>2, <2>1, <2>2, <2>3, <2>4, <2>5, <2>6 DEF UserBegins
<1>3. ASSUME NEW r \in Loops, RunActs(r)
      PROVE  Shape'
  <2>1. CASE TakeLock(r)
    BY <1>0, <2>1 DEF TakeLock
  <2>2. CASE GoToWorktree(r)
    BY <1>0, <2>2 DEF GoToWorktree
  <2>3. CASE ParseFails(r)
    BY <1>0, <2>3 DEF ParseFails
  <2>4. CASE Preflight(r)
    BY <1>0, <2>4 DEF Preflight
  <2>5. CASE PreflightFails(r)
    BY <1>0, <2>5 DEF PreflightFails
  <2>6. CASE Completes(r)
    BY <1>0, <2>6 DEF Completes
  <2>7. CASE Stops(r)
    BY <1>0, <2>7 DEF Stops
  <2>8. CASE EnqueueSelf(r)
    BY <1>0, <2>8 DEF EnqueueSelf
  <2>9. CASE LeaveForManualMerge(r)
    BY <1>0, <2>9 DEF LeaveForManualMerge
  <2>10. CASE Land(r)
    BY <1>0, <2>10 DEF Land
  <2>11. CASE GiveUp(r)
    BY <1>0, <2>11 DEF GiveUp
  <2>12. QED
    BY <1>3, <2>1, <2>2, <2>3, <2>4, <2>5, <2>6, <2>7, <2>8, <2>9, <2>10,
       <2>11
       DEF RunActs
<1>4. ASSUME NEW m \in Mergers, MergerActs(m)
      PROVE  Shape'
  <2>1. CASE TakeLock(m)
    BY <1>0, <2>1 DEF TakeLock
  <2>2. CASE WaitForLock(m)
    BY <1>0, <2>2 DEF WaitForLock
  <2>3. CASE ParseFails(m)
    BY <1>0, <2>3 DEF ParseFails
  <2>4. CASE Preflight(m)
    BY <1>0, <2>4 DEF Preflight
  <2>5. CASE PreflightFails(m)
    BY <1>0, <2>5 DEF PreflightFails
  <2>6. CASE MarkMerging(m)
    BY <1>0, <2>6 DEF MarkMerging
  <2>7. CASE MarkMergingSkipped(m)
    BY <1>0, <2>7 DEF MarkMergingSkipped
  <2>8. CASE MergesBranch(m)
    BY <1>0, <2>8 DEF MergesBranch
  <2>9. CASE Completes(m)
    BY <1>0, <2>9 DEF Completes
  <2>10. CASE Stops(m)
    BY <1>0, <2>10 DEF Stops
  <2>11. CASE MarkMerged(m)
    BY <1>0, <2>11 DEF MarkMerged
  <2>12. CASE MarkNeedsReview(m)
    BY <1>0, <2>12 DEF MarkNeedsReview
  <2>13. CASE OutcomeRefused(m)
    BY <1>0, <2>13 DEF OutcomeRefused, AfterOutcome
  <2>14. QED
    BY <1>4, <2>1, <2>2, <2>3, <2>4, <2>5, <2>6, <2>7, <2>8, <2>9, <2>10,
       <2>11, <2>12, <2>13
       DEF MergerActs
<1>5. ASSUME NEW u \in Users, UserActs(u)
      PROVE  Shape'
  <2>1. CASE EnqueueOrphan(u)
    BY <1>0, <2>1 DEF EnqueueOrphan
  <2>2. CASE DiscardEntry(u)
    BY <1>0, <2>2 DEF DiscardEntry
  <2>3. CASE DiscardWithoutEntry(u)
    BY <1>0, <2>3 DEF DiscardWithoutEntry
  <2>4. CASE DiscardRefused(u)
    BY <1>0, <2>4 DEF DiscardRefused
  <2>5. CASE RemoveTree(u)
    BY <1>0, <2>5 DEF RemoveTree
  <2>6. CASE ApiMarkMerging(u)
    BY <1>0, <2>6 DEF ApiMarkMerging
  <2>7. CASE ApiMarkMerged(u)
    BY <1>0, <2>7 DEF ApiMarkMerged
  <2>8. CASE ApiRefused(u)
    BY <1>0, <2>8 DEF ApiRefused
  <2>9. QED
    BY <1>5, <2>1, <2>2, <2>3, <2>4, <2>5, <2>6, <2>7, <2>8
       DEF UserActs
<1>6. ASSUME NEW p \in Procs, SharedActs(p)
      PROVE  Shape'
  <2>1. CASE ListPending(p)
    BY <1>0, <2>1, PendingAreLoops DEF ListPending
  <2>2. ASSUME NEW m \in Mergers, Spawn(p, m)
        PROVE  Shape'
    BY <1>0, <2>2 DEF Spawn
  <2>3. CASE SpawnFails(p)
    BY <1>0, <2>3 DEF SpawnFails
  <2>4. CASE AllSpawned(p)
    BY <1>0, <2>4 DEF AllSpawned
  <2>5. CASE AppendEvent(p)
    BY <1>0, <2>5 DEF AppendEvent, AfterAppend, AfterOutcome, Busy,
       Queue!AppendEvent
  <2>6. CASE Exit(p)
    BY <1>0, <2>6 DEF Exit
  <2>7. QED
    BY <1>6, <2>1, <2>2, <2>3, <2>4, <2>5, <2>6 DEF SharedActs
<1>7. ASSUME NEW p \in Procs, Die(p)
      PROVE  Shape'
  BY <1>0, <1>7 DEF Die
<1>8. CASE UNCHANGED vars
  BY <1>0, <1>8 DEF vars
<1>9. QED
  BY <1>1, <1>2, <1>3, <1>4, <1>5, <1>6, <1>7, <1>8 DEF Next, Acts

\* Every step keeps a merger, and a command about a loop, on a loop.
LEMMA JobsStep == IInv /\ [Next]_vars => JobsNamed'
<1> SUFFICES ASSUME IInv, [Next]_vars
             PROVE  JobsNamed'
  OBVIOUS
<1>0. JobsNamed /\ Shape /\ Busy
  BY DEF IInv, TypeOK, Shape
<1> USE ParallelLoopsAssumption DEF JobsNamed, Shape, Procs, Goto
<1>1. ASSUME NEW r \in Loops, Start(r)
      PROVE  JobsNamed'
  BY <1>0, <1>1 DEF Start
<1>2. ASSUME NEW u \in Users, UserBegins(u)
      PROVE  JobsNamed'
  <2>1. CASE UserProcess(u)
    BY <1>0, <2>1 DEF UserProcess, Begin
  <2>2. ASSUME NEW l \in Loops, UserRetry(u, l)
        PROVE  JobsNamed'
    BY <1>0, <2>2 DEF UserRetry, Begin
  <2>3. ASSUME NEW l \in Loops, UserMerge(u, l)
        PROVE  JobsNamed'
    BY <1>0, <2>3 DEF UserMerge, Begin
  <2>4. ASSUME NEW l \in Loops, UserMergeOrphan(u, l)
        PROVE  JobsNamed'
    BY <1>0, <2>4 DEF UserMergeOrphan, Begin
  <2>5. ASSUME NEW l \in Loops, UserDiscard(u, l)
        PROVE  JobsNamed'
    BY <1>0, <2>5 DEF UserDiscard, Begin
  <2>6. ASSUME NEW l \in Loops, ApiMerge(u, l)
        PROVE  JobsNamed'
    BY <1>0, <2>6 DEF ApiMerge, Begin
  <2>7. QED
    BY <1>2, <2>1, <2>2, <2>3, <2>4, <2>5, <2>6 DEF UserBegins
<1>3. ASSUME NEW r \in Loops, RunActs(r)
      PROVE  JobsNamed'
  <2>1. CASE TakeLock(r)
    BY <1>0, <2>1 DEF TakeLock
  <2>2. CASE GoToWorktree(r)
    BY <1>0, <2>2 DEF GoToWorktree
  <2>3. CASE ParseFails(r)
    BY <1>0, <2>3 DEF ParseFails
  <2>4. CASE Preflight(r)
    BY <1>0, <2>4 DEF Preflight
  <2>5. CASE PreflightFails(r)
    BY <1>0, <2>5 DEF PreflightFails
  <2>6. CASE Completes(r)
    BY <1>0, <2>6 DEF Completes
  <2>7. CASE Stops(r)
    BY <1>0, <2>7 DEF Stops
  <2>8. CASE EnqueueSelf(r)
    BY <1>0, <2>8 DEF EnqueueSelf
  <2>9. CASE LeaveForManualMerge(r)
    BY <1>0, <2>9 DEF LeaveForManualMerge
  <2>10. CASE Land(r)
    BY <1>0, <2>10 DEF Land
  <2>11. CASE GiveUp(r)
    BY <1>0, <2>11 DEF GiveUp
  <2>12. QED
    BY <1>3, <2>1, <2>2, <2>3, <2>4, <2>5, <2>6, <2>7, <2>8, <2>9, <2>10,
       <2>11
       DEF RunActs
<1>4. ASSUME NEW m \in Mergers, MergerActs(m)
      PROVE  JobsNamed'
  <2>1. CASE TakeLock(m)
    BY <1>0, <2>1 DEF TakeLock
  <2>2. CASE WaitForLock(m)
    BY <1>0, <2>2 DEF WaitForLock
  <2>3. CASE ParseFails(m)
    BY <1>0, <2>3 DEF ParseFails
  <2>4. CASE Preflight(m)
    BY <1>0, <2>4 DEF Preflight
  <2>5. CASE PreflightFails(m)
    BY <1>0, <2>5 DEF PreflightFails
  <2>6. CASE MarkMerging(m)
    BY <1>0, <2>6 DEF MarkMerging
  <2>7. CASE MarkMergingSkipped(m)
    BY <1>0, <2>7 DEF MarkMergingSkipped
  <2>8. CASE MergesBranch(m)
    BY <1>0, <2>8 DEF MergesBranch
  <2>9. CASE Completes(m)
    BY <1>0, <2>9 DEF Completes
  <2>10. CASE Stops(m)
    BY <1>0, <2>10 DEF Stops
  <2>11. CASE MarkMerged(m)
    BY <1>0, <2>11 DEF MarkMerged
  <2>12. CASE MarkNeedsReview(m)
    BY <1>0, <2>12 DEF MarkNeedsReview
  <2>13. CASE OutcomeRefused(m)
    BY <1>0, <2>13 DEF OutcomeRefused, AfterOutcome
  <2>14. QED
    BY <1>4, <2>1, <2>2, <2>3, <2>4, <2>5, <2>6, <2>7, <2>8, <2>9, <2>10,
       <2>11, <2>12, <2>13
       DEF MergerActs
<1>5. ASSUME NEW u \in Users, UserActs(u)
      PROVE  JobsNamed'
  <2>1. CASE EnqueueOrphan(u)
    BY <1>0, <2>1 DEF EnqueueOrphan
  <2>2. CASE DiscardEntry(u)
    BY <1>0, <2>2 DEF DiscardEntry
  <2>3. CASE DiscardWithoutEntry(u)
    BY <1>0, <2>3 DEF DiscardWithoutEntry
  <2>4. CASE DiscardRefused(u)
    BY <1>0, <2>4 DEF DiscardRefused
  <2>5. CASE RemoveTree(u)
    BY <1>0, <2>5 DEF RemoveTree
  <2>6. CASE ApiMarkMerging(u)
    BY <1>0, <2>6 DEF ApiMarkMerging
  <2>7. CASE ApiMarkMerged(u)
    BY <1>0, <2>7 DEF ApiMarkMerged
  <2>8. CASE ApiRefused(u)
    BY <1>0, <2>8 DEF ApiRefused
  <2>9. QED
    BY <1>5, <2>1, <2>2, <2>3, <2>4, <2>5, <2>6, <2>7, <2>8
       DEF UserActs
<1>6. ASSUME NEW p \in Procs, SharedActs(p)
      PROVE  JobsNamed'
  <2>1. CASE ListPending(p)
    BY <1>0, <2>1 DEF ListPending
  <2>2. ASSUME NEW m \in Mergers, Spawn(p, m)
        PROVE  JobsNamed'
    BY <1>0, <2>2 DEF Spawn
  <2>3. CASE SpawnFails(p)
    BY <1>0, <2>3 DEF SpawnFails
  <2>4. CASE AllSpawned(p)
    BY <1>0, <2>4 DEF AllSpawned
  <2>5. CASE AppendEvent(p)
    BY <1>0, <2>5 DEF AppendEvent, AfterAppend, AfterOutcome, Busy,
       Queue!AppendEvent
  <2>6. CASE Exit(p)
    BY <1>0, <2>6 DEF Exit
  <2>7. QED
    BY <1>6, <2>1, <2>2, <2>3, <2>4, <2>5, <2>6 DEF SharedActs
<1>7. ASSUME NEW p \in Procs, Die(p)
      PROVE  JobsNamed'
  BY <1>0, <1>7 DEF Die
<1>8. CASE UNCHANGED vars
  BY <1>0, <1>8 DEF vars
<1>9. QED
  BY <1>1, <1>2, <1>3, <1>4, <1>5, <1>6, <1>7, <1>8 DEF Next, Acts

\* Every step keeps the lock with the merger that is at work.
LEMMA LockStep == IInv /\ [Next]_vars => LockHeld'
<1> SUFFICES ASSUME IInv, [Next]_vars
             PROVE  LockHeld'
  OBVIOUS
<1>0. LockHeld /\ Shape /\ Busy
  BY DEF IInv, TypeOK, Shape
<1> USE ParallelLoopsAssumption
    DEF LockHeld, MergersHaveTheLock, MergerPhases, AtWork, Ended,
        Shape, Procs, Goto
<1>1. ASSUME NEW r \in Loops, Start(r)
      PROVE  LockHeld'
  BY <1>0, <1>1 DEF Start
<1>2. ASSUME NEW u \in Users, UserBegins(u)
      PROVE  LockHeld'
  <2>1. CASE UserProcess(u)
    BY <1>0, <2>1 DEF UserProcess, Begin
  <2>2. ASSUME NEW l \in Loops, UserRetry(u, l)
        PROVE  LockHeld'
    BY <1>0, <2>2 DEF UserRetry, Begin
  <2>3. ASSUME NEW l \in Loops, UserMerge(u, l)
        PROVE  LockHeld'
    BY <1>0, <2>3 DEF UserMerge, Begin
  <2>4. ASSUME NEW l \in Loops, UserMergeOrphan(u, l)
        PROVE  LockHeld'
    BY <1>0, <2>4 DEF UserMergeOrphan, Begin
  <2>5. ASSUME NEW l \in Loops, UserDiscard(u, l)
        PROVE  LockHeld'
    BY <1>0, <2>5 DEF UserDiscard, Begin
  <2>6. ASSUME NEW l \in Loops, ApiMerge(u, l)
        PROVE  LockHeld'
    BY <1>0, <2>6 DEF ApiMerge, Begin
  <2>7. QED
    BY <1>2, <2>1, <2>2, <2>3, <2>4, <2>5, <2>6 DEF UserBegins
<1>3. ASSUME NEW r \in Loops, RunActs(r)
      PROVE  LockHeld'
  <2>1. CASE TakeLock(r)
    BY <1>0, <2>1 DEF TakeLock
  <2>2. CASE GoToWorktree(r)
    BY <1>0, <2>2 DEF GoToWorktree
  <2>3. CASE ParseFails(r)
    BY <1>0, <2>3 DEF ParseFails
  <2>4. CASE Preflight(r)
    BY <1>0, <2>4 DEF Preflight
  <2>5. CASE PreflightFails(r)
    BY <1>0, <2>5 DEF PreflightFails
  <2>6. CASE Completes(r)
    BY <1>0, <2>6 DEF Completes
  <2>7. CASE Stops(r)
    BY <1>0, <2>7 DEF Stops
  <2>8. CASE EnqueueSelf(r)
    BY <1>0, <2>8 DEF EnqueueSelf
  <2>9. CASE LeaveForManualMerge(r)
    BY <1>0, <2>9 DEF LeaveForManualMerge
  <2>10. CASE Land(r)
    BY <1>0, <2>10 DEF Land
  <2>11. CASE GiveUp(r)
    BY <1>0, <2>11 DEF GiveUp
  <2>12. QED
    BY <1>3, <2>1, <2>2, <2>3, <2>4, <2>5, <2>6, <2>7, <2>8, <2>9, <2>10,
       <2>11
       DEF RunActs
<1>4. ASSUME NEW m \in Mergers, MergerActs(m)
      PROVE  LockHeld'
  <2>1. CASE TakeLock(m)
    BY <1>0, <2>1 DEF TakeLock
  <2>2. CASE WaitForLock(m)
    BY <1>0, <2>2 DEF WaitForLock
  <2>3. CASE ParseFails(m)
    BY <1>0, <2>3 DEF ParseFails
  <2>4. CASE Preflight(m)
    BY <1>0, <2>4 DEF Preflight
  <2>5. CASE PreflightFails(m)
    BY <1>0, <2>5 DEF PreflightFails
  <2>6. CASE MarkMerging(m)
    BY <1>0, <2>6 DEF MarkMerging
  <2>7. CASE MarkMergingSkipped(m)
    BY <1>0, <2>7 DEF MarkMergingSkipped
  <2>8. CASE MergesBranch(m)
    BY <1>0, <2>8 DEF MergesBranch
  <2>9. CASE Completes(m)
    BY <1>0, <2>9 DEF Completes
  <2>10. CASE Stops(m)
    BY <1>0, <2>10 DEF Stops
  <2>11. CASE MarkMerged(m)
    BY <1>0, <2>11 DEF MarkMerged
  <2>12. CASE MarkNeedsReview(m)
    BY <1>0, <2>12 DEF MarkNeedsReview
  <2>13. CASE OutcomeRefused(m)
    BY <1>0, <2>13 DEF OutcomeRefused, AfterOutcome
  <2>14. QED
    BY <1>4, <2>1, <2>2, <2>3, <2>4, <2>5, <2>6, <2>7, <2>8, <2>9, <2>10,
       <2>11, <2>12, <2>13
       DEF MergerActs
<1>5. ASSUME NEW u \in Users, UserActs(u)
      PROVE  LockHeld'
  <2>1. CASE EnqueueOrphan(u)
    BY <1>0, <2>1 DEF EnqueueOrphan
  <2>2. CASE DiscardEntry(u)
    BY <1>0, <2>2 DEF DiscardEntry
  <2>3. CASE DiscardWithoutEntry(u)
    BY <1>0, <2>3 DEF DiscardWithoutEntry
  <2>4. CASE DiscardRefused(u)
    BY <1>0, <2>4 DEF DiscardRefused
  <2>5. CASE RemoveTree(u)
    BY <1>0, <2>5 DEF RemoveTree
  <2>6. CASE ApiMarkMerging(u)
    BY <1>0, <2>6 DEF ApiMarkMerging
  <2>7. CASE ApiMarkMerged(u)
    BY <1>0, <2>7 DEF ApiMarkMerged
  <2>8. CASE ApiRefused(u)
    BY <1>0, <2>8 DEF ApiRefused
  <2>9. QED
    BY <1>5, <2>1, <2>2, <2>3, <2>4, <2>5, <2>6, <2>7, <2>8
       DEF UserActs
<1>6. ASSUME NEW p \in Procs, SharedActs(p)
      PROVE  LockHeld'
  <2>1. CASE ListPending(p)
    BY <1>0, <2>1 DEF ListPending
  <2>2. ASSUME NEW m \in Mergers, Spawn(p, m)
        PROVE  LockHeld'
    BY <1>0, <2>2 DEF Spawn
  <2>3. CASE SpawnFails(p)
    BY <1>0, <2>3 DEF SpawnFails
  <2>4. CASE AllSpawned(p)
    BY <1>0, <2>4 DEF AllSpawned
  <2>5. CASE AppendEvent(p)
    BY <1>0, <2>5 DEF AppendEvent, AfterAppend, AfterOutcome, Busy,
       Queue!AppendEvent
  <2>6. CASE Exit(p)
    BY <1>0, <2>6 DEF Exit
  <2>7. QED
    BY <1>6, <2>1, <2>2, <2>3, <2>4, <2>5, <2>6 DEF SharedActs
<1>7. ASSUME NEW p \in Procs, Die(p)
      PROVE  LockHeld'
  BY <1>0, <1>7 DEF Die
<1>8. CASE UNCHANGED vars
  BY <1>0, <1>8 DEF vars
<1>9. QED
  BY <1>1, <1>2, <1>3, <1>4, <1>5, <1>6, <1>7, <1>8 DEF Next, Acts

\* Every step keeps a process where it began its queue operation.
LEMMA BusyStep == IInv /\ [Next]_vars => Busy'
<1> SUFFICES ASSUME IInv, [Next]_vars
             PROVE  Busy'
  OBVIOUS
<1>0. LockHeld /\ Shape /\ Busy /\ pend \in [Procs -> Queue!Pending \cup {Idle}]
  BY DEF IInv, TypeOK, Shape, Queue!TypeOK
<1> USE ParallelLoopsAssumption
    DEF Busy, LockHeld, MergersHaveTheLock, Ended, Shape, Procs, Goto, queue
<1>1. ASSUME NEW r \in Loops, Start(r)
      PROVE  Busy'
  BY <1>0, <1>1 DEF Start
<1>2. ASSUME NEW u \in Users, UserBegins(u)
      PROVE  Busy'
  <2>1. CASE UserProcess(u)
    BY <1>0, <2>1 DEF UserProcess, Begin
  <2>2. ASSUME NEW l \in Loops, UserRetry(u, l)
        PROVE  Busy'
    BY <1>0, <2>2 DEF UserRetry, Begin
  <2>3. ASSUME NEW l \in Loops, UserMerge(u, l)
        PROVE  Busy'
    BY <1>0, <2>3 DEF UserMerge, Begin
  <2>4. ASSUME NEW l \in Loops, UserMergeOrphan(u, l)
        PROVE  Busy'
    BY <1>0, <2>4 DEF UserMergeOrphan, Begin
  <2>5. ASSUME NEW l \in Loops, UserDiscard(u, l)
        PROVE  Busy'
    BY <1>0, <2>5 DEF UserDiscard, Begin
  <2>6. ASSUME NEW l \in Loops, ApiMerge(u, l)
        PROVE  Busy'
    BY <1>0, <2>6 DEF ApiMerge, Begin
  <2>7. QED
    BY <1>2, <2>1, <2>2, <2>3, <2>4, <2>5, <2>6 DEF UserBegins
<1>3. ASSUME NEW r \in Loops, RunActs(r)
      PROVE  Busy'
  <2>1. CASE TakeLock(r)
    BY <1>0, <2>1 DEF TakeLock
  <2>2. CASE GoToWorktree(r)
    BY <1>0, <2>2 DEF GoToWorktree
  <2>3. CASE ParseFails(r)
    BY <1>0, <2>3 DEF ParseFails
  <2>4. CASE Preflight(r)
    BY <1>0, <2>4 DEF Preflight
  <2>5. CASE PreflightFails(r)
    BY <1>0, <2>5 DEF PreflightFails
  <2>6. CASE Completes(r)
    BY <1>0, <2>6 DEF Completes
  <2>7. CASE Stops(r)
    BY <1>0, <2>7 DEF Stops
  <2>8. CASE EnqueueSelf(r)
    BY <1>0, <2>8 DEF EnqueueSelf, Queue!Enqueue
  <2>9. CASE LeaveForManualMerge(r)
    BY <1>0, <2>9 DEF LeaveForManualMerge
  <2>10. CASE Land(r)
    BY <1>0, <2>10 DEF Land
  <2>11. CASE GiveUp(r)
    BY <1>0, <2>11 DEF GiveUp
  <2>12. QED
    BY <1>3, <2>1, <2>2, <2>3, <2>4, <2>5, <2>6, <2>7, <2>8, <2>9, <2>10,
       <2>11
       DEF RunActs
<1>4. ASSUME NEW m \in Mergers, MergerActs(m)
      PROVE  Busy'
  <2>1. CASE TakeLock(m)
    BY <1>0, <2>1 DEF TakeLock
  <2>2. CASE WaitForLock(m)
    BY <1>0, <2>2 DEF WaitForLock
  <2>3. CASE ParseFails(m)
    BY <1>0, <2>3 DEF ParseFails
  <2>4. CASE Preflight(m)
    BY <1>0, <2>4 DEF Preflight
  <2>5. CASE PreflightFails(m)
    BY <1>0, <2>5 DEF PreflightFails
  <2>6. CASE MarkMerging(m)
    BY <1>0, <2>6 DEF MarkMerging, Queue!MarkMerging, Queue!Check
  <2>7. CASE MarkMergingSkipped(m)
    BY <1>0, <2>7 DEF MarkMergingSkipped
  <2>8. CASE MergesBranch(m)
    BY <1>0, <2>8 DEF MergesBranch
  <2>9. CASE Completes(m)
    BY <1>0, <2>9 DEF Completes
  <2>10. CASE Stops(m)
    BY <1>0, <2>10 DEF Stops
  <2>11. CASE MarkMerged(m)
    BY <1>0, <2>11 DEF MarkMerged, Queue!MarkMerged, Queue!Check
  <2>12. CASE MarkNeedsReview(m)
    BY <1>0, <2>12 DEF MarkNeedsReview, Queue!MarkNeedsReview, Queue!Check
  <2>13. CASE OutcomeRefused(m)
    BY <1>0, <2>13 DEF OutcomeRefused, AfterOutcome
  <2>14. QED
    BY <1>4, <2>1, <2>2, <2>3, <2>4, <2>5, <2>6, <2>7, <2>8, <2>9, <2>10,
       <2>11, <2>12, <2>13
       DEF MergerActs
<1>5. ASSUME NEW u \in Users, UserActs(u)
      PROVE  Busy'
  <2>1. CASE EnqueueOrphan(u)
    BY <1>0, <2>1 DEF EnqueueOrphan, Queue!Enqueue
  <2>2. CASE DiscardEntry(u)
    BY <1>0, <2>2 DEF DiscardEntry, Queue!Discard, Queue!Check
  <2>3. CASE DiscardWithoutEntry(u)
    BY <1>0, <2>3 DEF DiscardWithoutEntry
  <2>4. CASE DiscardRefused(u)
    BY <1>0, <2>4 DEF DiscardRefused
  <2>5. CASE RemoveTree(u)
    BY <1>0, <2>5 DEF RemoveTree
  <2>6. CASE ApiMarkMerging(u)
    BY <1>0, <2>6 DEF ApiMarkMerging, Queue!MarkMerging, Queue!Check
  <2>7. CASE ApiMarkMerged(u)
    BY <1>0, <2>7 DEF ApiMarkMerged, Queue!MarkMerged, Queue!Check
  <2>8. CASE ApiRefused(u)
    BY <1>0, <2>8 DEF ApiRefused
  <2>9. QED
    BY <1>5, <2>1, <2>2, <2>3, <2>4, <2>5, <2>6, <2>7, <2>8
       DEF UserActs
<1>6. ASSUME NEW p \in Procs, SharedActs(p)
      PROVE  Busy'
  <2>1. CASE ListPending(p)
    BY <1>0, <2>1 DEF ListPending
  <2>2. ASSUME NEW m \in Mergers, Spawn(p, m)
        PROVE  Busy'
    BY <1>0, <2>2 DEF Spawn
  <2>3. CASE SpawnFails(p)
    BY <1>0, <2>3 DEF SpawnFails
  <2>4. CASE AllSpawned(p)
    BY <1>0, <2>4 DEF AllSpawned
  <2>5. CASE AppendEvent(p)
    BY <1>0, <2>5 DEF AppendEvent, AfterAppend, AfterOutcome,
       Queue!AppendEvent
  <2>6. CASE Exit(p)
    BY <1>0, <2>6 DEF Exit
  <2>7. QED
    BY <1>6, <2>1, <2>2, <2>3, <2>4, <2>5, <2>6 DEF SharedActs
<1>7. ASSUME NEW p \in Procs, Die(p)
      PROVE  Busy'
  BY <1>0, <1>7 DEF Die, Queue!CrashBeforeAppend,
     Queue!CrashInAppend
<1>8. CASE UNCHANGED vars
  BY <1>0, <1>8 DEF vars, queue
<1>9. QED
  BY <1>1, <1>2, <1>3, <1>4, <1>5, <1>6, <1>7, <1>8 DEF Next, Acts

-----------------------------------------------------------------------------
\* The invariant holds at first: nothing runs.
LEMMA Initially == Init => IInv
<1> SUFFICES ASSUME Init
             PROVE  IInv
  OBVIOUS
<1>1. Queue!TypeOK
  BY DEF Init, Queue!Init, Queue!TypeOK
<1>2. TypeOK
  BY <1>1 DEF Init, TypeOK, Phases
<1>3. JobsNamed /\ Busy
  BY DEF Init, Queue!Init, JobsNamed, Busy, Procs
<1>4. LockHeld
  BY DEF Init, LockHeld, MergersHaveTheLock, MergerPhases, AtWork, Procs
<1>5. QED
  BY <1>2, <1>3, <1>4 DEF IInv

\* The invariant holds for ever.
LEMMA InvariantHolds == Spec => []IInv
<1>1. IInv /\ [Next]_vars => IInv'
  <2> SUFFICES ASSUME IInv, [Next]_vars
               PROVE  IInv'
    OBVIOUS
  <2>1. Queue!TypeOK'
    BY QueueStep, QueueTypeStep DEF IInv, TypeOK
  <2>2. Shape'
    BY ShapeStep
  <2>3. TypeOK'
    BY <2>1, <2>2 DEF TypeOK, Shape
  <2>4. QED
    BY <2>3, JobsStep, BusyStep, LockStep DEF IInv
<1>2. QED
  BY Initially, <1>1, PTL DEF Spec

\* The variables have their types, whatever is run, spawned and killed.
THEOREM TypeCorrect == Spec => []TypeOK
BY InvariantHolds, PTL DEF IInv

(***************************************************************************)
(* A merge-ralph is in the main workspace only with the loop lock, so that *)
(* only one merges at a time and none beside a primary loop, whatever runs,*)
(* mergers and commands there are and whichever of them die.               *)
(***************************************************************************)
THEOREM MergersAlwaysHaveTheLock == Spec => []MergersHaveTheLock
BY InvariantHolds, PTL DEF IInv, LockHeld

\* For the queue, a step of the system is one of its clients' steps or none.
LEMMA UsesTheQueue == Spec => Queue!Spec
<1>1. Init => Queue!Init
  BY DEF Init
<1>2. IInv /\ [Next]_vars => [Queue!Next]_(Queue!vars)
  BY QueueStep DEF queue, Queue!vars
<1>3. QED
  BY <1>1, <1>2, InvariantHolds, PTL DEF Spec, Queue!Spec

(***************************************************************************)
(* What is proved of the queue holds of it in the system: whoever reads    *)
(* it may rely on a merge that ended having begun, and on a merge that     *)
(* began, or a discard, being of a loop that was queued.                   *)
(***************************************************************************)
THEOREM SystemHistoryMakesSense == Spec => []Queue!HistoryMakesSense
<1>1. QueueProofs!Spec => []QueueProofs!HistoryMakesSense
  BY QueueProofs!HistoryAlwaysMakesSense, ParallelLoopsAssumption, NoLoopAssumption
     DEF QueueProofs!Line, QueueProofs!Kinds, Line, Kinds
<1>2. Queue!HistoryMakesSense <=> QueueProofs!HistoryMakesSense
  BY DEF Queue!HistoryMakesSense, QueueProofs!HistoryMakesSense,
         Queue!Checked, QueueProofs!Checked, Queue!Kinds, QueueProofs!Kinds
<1>3. [Queue!Next]_(Queue!vars) => [QueueProofs!Next]_(QueueProofs!vars)
  BY SameQueue DEF Queue!vars, QueueProofs!vars
<1>4. Queue!Init => QueueProofs!Init
  BY SameQueue
<1>5. QED
  BY UsesTheQueue, <1>1, <1>2, <1>3, <1>4, PTL
     DEF Queue!Spec, QueueProofs!Spec

-----------------------------------------------------------------------------
(***************************************************************************)
(* Merged means merged, but for the API.  Where a "merged" comes from: the *)
(* agent of a merger says it is done once the branch is landed, only then  *)
(* does the merger decide to say so, and only then is it in the file.      *)
(***************************************************************************)
Landing ==
    /\ \A i \in DOMAIN log : log[i].kind = "merged" => log[i].loop \in landed
    /\ \A p \in Procs :
        pend[p] # Idle /\ pend[p].kind = "merged" => pend[p].loop \in landed
    /\ \A m \in Mergers : pc[m] = "completed" => job[m] \in landed
    /\ \A u \in Users : pc[u] \notin {"reserving", "claiming"}

\* Every step keeps each merged event, in the file or decided, on a landed loop.
LEMMA LandingStep ==
  ASSUME "api" \notin Commands
  PROVE  IInv /\ Landing /\ [Next]_vars => Landing'
<1> SUFFICES ASSUME IInv, Landing, [Next]_vars
             PROVE  Landing'
  OBVIOUS
<1>0. /\ LockHeld /\ Shape /\ Busy
      /\ log \in Seq(Line)
      /\ pend \in [Procs -> Queue!Pending \cup {Idle}]
  BY LogIsLines DEF IInv, TypeOK, Shape, Queue!TypeOK
<1> USE ParallelLoopsAssumption
    DEF Landing, Busy, LockHeld, MergerPhases, AtWork, Ended, Shape,
        Procs, Goto, queue, files
<1>1. ASSUME NEW r \in Loops, Start(r)
      PROVE  Landing'
  BY <1>0, <1>1 DEF Start
<1>2. ASSUME NEW u \in Users, UserBegins(u)
      PROVE  Landing'
  <2>1. CASE UserProcess(u)
    BY <1>0, <2>1 DEF UserProcess, Begin
  <2>2. ASSUME NEW l \in Loops, UserRetry(u, l)
        PROVE  Landing'
    BY <1>0, <2>2 DEF UserRetry, Begin
  <2>3. ASSUME NEW l \in Loops, UserMerge(u, l)
        PROVE  Landing'
    BY <1>0, <2>3 DEF UserMerge, Begin
  <2>4. ASSUME NEW l \in Loops, UserMergeOrphan(u, l)
        PROVE  Landing'
    BY <1>0, <2>4 DEF UserMergeOrphan, Begin
  <2>5. ASSUME NEW l \in Loops, UserDiscard(u, l)
        PROVE  Landing'
    BY <1>0, <2>5 DEF UserDiscard, Begin
  <2>6. ASSUME NEW l \in Loops, ApiMerge(u, l)
        PROVE  Landing'
    BY <1>0, <2>6 DEF ApiMerge, Begin
  <2>7. QED
    BY <1>2, <2>1, <2>2, <2>3, <2>4, <2>5, <2>6 DEF UserBegins
<1>3. ASSUME NEW r \in Loops, RunActs(r)
      PROVE  Landing'
  <2>1. CASE TakeLock(r)
    BY <1>0, <2>1 DEF TakeLock
  <2>2. CASE GoToWorktree(r)
    BY <1>0, <2>2 DEF GoToWorktree
  <2>3. CASE ParseFails(r)
    BY <1>0, <2>3 DEF ParseFails
  <2>4. CASE Preflight(r)
    BY <1>0, <2>4 DEF Preflight
  <2>5. CASE PreflightFails(r)
    BY <1>0, <2>5 DEF PreflightFails
  <2>6. CASE Completes(r)
    BY <1>0, <2>6 DEF Completes
  <2>7. CASE Stops(r)
    BY <1>0, <2>7 DEF Stops
  <2>8. CASE EnqueueSelf(r)
    BY <1>0, <2>8 DEF EnqueueSelf, Queue!Enqueue, Queue!Event
  <2>9. CASE LeaveForManualMerge(r)
    BY <1>0, <2>9 DEF LeaveForManualMerge
  <2>10. CASE Land(r)
    BY <1>0, <2>10 DEF Land
  <2>11. CASE GiveUp(r)
    BY <1>0, <2>11 DEF GiveUp
  <2>12. QED
    BY <1>3, <2>1, <2>2, <2>3, <2>4, <2>5, <2>6, <2>7, <2>8, <2>9, <2>10,
       <2>11
       DEF RunActs
<1>4. ASSUME NEW m \in Mergers, MergerActs(m)
      PROVE  Landing'
  <2>1. CASE TakeLock(m)
    BY <1>0, <2>1 DEF TakeLock
  <2>2. CASE WaitForLock(m)
    BY <1>0, <2>2 DEF WaitForLock
  <2>3. CASE ParseFails(m)
    BY <1>0, <2>3 DEF ParseFails
  <2>4. CASE Preflight(m)
    BY <1>0, <2>4 DEF Preflight
  <2>5. CASE PreflightFails(m)
    BY <1>0, <2>5 DEF PreflightFails
  <2>6. CASE MarkMerging(m)
    BY <1>0, <2>6 DEF MarkMerging, Queue!MarkMerging, Queue!Check, Queue!Event
  <2>7. CASE MarkMergingSkipped(m)
    BY <1>0, <2>7 DEF MarkMergingSkipped
  <2>8. CASE MergesBranch(m)
    BY <1>0, <2>8 DEF MergesBranch
  <2>9. CASE Completes(m)
    BY <1>0, <2>9 DEF Completes
  <2>10. CASE Stops(m)
    BY <1>0, <2>10 DEF Stops
  <2>11. CASE MarkMerged(m)
    BY <1>0, <2>11 DEF MarkMerged, Queue!MarkMerged, Queue!Check, Queue!Event
  <2>12. CASE MarkNeedsReview(m)
    BY <1>0, <2>12 DEF MarkNeedsReview, Queue!MarkNeedsReview, Queue!Check, Queue!Event
  <2>13. CASE OutcomeRefused(m)
    BY <1>0, <2>13 DEF OutcomeRefused, AfterOutcome
  <2>14. QED
    BY <1>4, <2>1, <2>2, <2>3, <2>4, <2>5, <2>6, <2>7, <2>8, <2>9, <2>10,
       <2>11, <2>12, <2>13
       DEF MergerActs
<1>5. ASSUME NEW u \in Users, UserActs(u)
      PROVE  Landing'
  <2>1. CASE EnqueueOrphan(u)
    BY <1>0, <2>1 DEF EnqueueOrphan, Queue!Enqueue, Queue!Event
  <2>2. CASE DiscardEntry(u)
    BY <1>0, <2>2 DEF DiscardEntry, Queue!Discard, Queue!Check, Queue!Event
  <2>3. CASE DiscardWithoutEntry(u)
    BY <1>0, <2>3 DEF DiscardWithoutEntry
  <2>4. CASE DiscardRefused(u)
    BY <1>0, <2>4 DEF DiscardRefused
  <2>5. CASE RemoveTree(u)
    BY <1>0, <2>5 DEF RemoveTree
  <2>6. CASE ApiMarkMerging(u)
    BY <1>0, <2>6 DEF ApiMarkMerging, Queue!MarkMerging, Queue!Check, Queue!Event
  <2>7. CASE ApiMarkMerged(u)
    BY <1>0, <2>7 DEF ApiMarkMerged, Queue!MarkMerged, Queue!Check, Queue!Event
  <2>8. CASE ApiRefused(u)
    BY <1>0, <2>8 DEF ApiRefused
  <2>9. QED
    BY <1>5, <2>1, <2>2, <2>3, <2>4, <2>5, <2>6, <2>7, <2>8
       DEF UserActs
<1>6. ASSUME NEW p \in Procs, SharedActs(p)
      PROVE  Landing'
  <2>1. CASE ListPending(p)
    BY <1>0, <2>1 DEF ListPending
  <2>2. ASSUME NEW m \in Mergers, Spawn(p, m)
        PROVE  Landing'
    BY <1>0, <2>2 DEF Spawn
  <2>3. CASE SpawnFails(p)
    BY <1>0, <2>3 DEF SpawnFails
  <2>4. CASE AllSpawned(p)
    BY <1>0, <2>4 DEF AllSpawned
  <2>5. CASE AppendEvent(p)
    BY <1>0, <2>5 DEF AppendEvent, AfterAppend, AfterOutcome,
       Queue!AppendEvent
  <2>6. CASE Exit(p)
    BY <1>0, <2>6 DEF Exit
  <2>7. QED
    BY <1>6, <2>1, <2>2, <2>3, <2>4, <2>5, <2>6 DEF SharedActs
<1>7. ASSUME NEW p \in Procs, Die(p)
      PROVE  Landing'
  <2>1. /\ \A q \in Mergers : pc'[q] = "completed" => job'[q] \in landed'
        /\ \A q \in Users : pc'[q] \notin {"reserving", "claiming"}
    BY <1>0, <1>7 DEF Die
  <2>2. CASE pend[p] = Idle /\ UNCHANGED queue
    BY <1>0, <1>7, <2>1, <2>2 DEF Die
  <2>3. CASE Queue!CrashBeforeAppend(p)
    BY <1>0, <1>7, <2>1, <2>3 DEF Die, Queue!CrashBeforeAppend
  <2>4. CASE Queue!CrashInAppend(p)
    <3>1. PICK line \in Queue!Remains(pend[p]) : log' = Append(log, line)
      BY <2>4 DEF Queue!CrashInAppend
    <3>2. pend[p] \in Queue!Pending
      BY <1>0, <2>4 DEF Queue!CrashInAppend
    <3>3. line \in Line /\ (line.kind = "merged" => line.loop \in landed)
      <4> DEFINE cut == [pend[p] EXCEPT !.eol = FALSE]
                 torn == [pend[p] EXCEPT !.eol = FALSE, !.loop = NoLoop,
                                         !.kind = "torn"]
      <4>1. line = cut \/ line = torn
        BY <3>1 DEF Queue!Remains
      <4>2. /\ cut \in Line
            /\ cut.kind = pend[p].kind
            /\ cut.loop = pend[p].loop
        BY <3>2 DEF Queue!Pending, Queue!Kinds, Line, Kinds
      <4>3. torn \in Line /\ torn.kind = "torn"
        BY <3>2 DEF Queue!Pending, Queue!Kinds, Line, Kinds
      <4>4. pend[p].kind = "merged" => pend[p].loop \in landed
        BY <2>4 DEF Queue!CrashInAppend
      <4> HIDE DEF cut, torn
      <4>5. QED
        BY <4>1, <4>2, <4>3, <4>4
    <3>4. /\ landed' = landed
          /\ pend' = [pend EXCEPT ![p] = Idle]
      BY <1>7, <2>4 DEF Die, Queue!CrashInAppend
    <3>5. \A i \in DOMAIN log' : log'[i].kind = "merged" => log'[i].loop \in landed
      BY <1>0, <3>1, <3>3
    <3>6. QED
      BY <1>0, <2>1, <3>4, <3>5
  <2>5. QED
    BY <1>7, <2>2, <2>3, <2>4 DEF Die
<1>8. CASE UNCHANGED vars
  BY <1>0, <1>8 DEF vars, queue
<1>9. QED
  BY <1>1, <1>2, <1>3, <1>4, <1>5, <1>6, <1>7, <1>8 DEF Next, Acts

\* In every system without the API's merge, a loop the queue calls merged is
\* in the main branch, however the runs, mergers and commands interleave.
THEOREM MergedIsAlwaysLanded ==
  ASSUME "api" \notin Commands
  PROVE  Spec => []MergedIsLanded
<1>1. Init => Landing
  BY DEF Init, Queue!Init, Landing, Procs
<1>2. IInv /\ Landing /\ [Next]_vars => Landing'
  BY LandingStep
<1>3. TypeOK /\ Landing => MergedIsLanded
  BY LogIsLines DEF Landing, MergedIsLanded, InState, InStateAt
<1>4. IInv => TypeOK
  BY DEF IInv
<1>5. QED
  BY <1>1, <1>2, <1>3, <1>4, InvariantHolds, PTL DEF Spec

-----------------------------------------------------------------------------
(***************************************************************************)
(* Mergers merge ended loops, but for orphans.  A loop gets into the queue *)
(* by its own hand, when its event loop is over; every other operation and *)
(* every merger is about a loop the queue knows.                           *)
(***************************************************************************)
\* The loops whose process has left its event loop, and has no enqueue to do.
Left == {l \in Loops : pc[l] \notin {"new", "trying", "waiting", "starting", "setup",
                                    "marking", "looping", "completed"}}

LoopsOver ==
    /\ \A i \in DOMAIN log : log[i].loop # NoLoop => log[i].loop \in Left
    /\ \A p \in Procs : pend[p] # Idle => pend[p].loop \in Left \/ p = pend[p].loop
    /\ \A p \in Procs : \A i \in DOMAIN todo[p] : todo[p][i] \in Left
    /\ \A m \in Mergers : pc[m] # "new" => job[m] \in Left
    /\ \A u \in Users : pc[u] # "queueing"

\* A loop that is found in a state has a line.
LEMMA FoundHasLine ==
  ASSUME log \in Seq(Line), NEW l, NEW kinds
  PROVE  /\ InStates(log, l, kinds) => \E i \in DOMAIN log : log[i].loop = l
         /\ Queue!InStates(log, l, kinds) <=> InStates(log, l, kinds)
BY DEF InStates, InState, InStateAt, Queue!InStates, Queue!InState, Queue!InStateAt

\* A list of pending merges is of loops that have lines.
LEMMA PendingHaveLines ==
  ASSUME log \in Seq(Line), NEW s \in PendingOrders, NEW i \in DOMAIN s
  PROVE  s[i] \in Loops /\ \E j \in DOMAIN log : log[j].loop = s[i]
<1> DEFINE waiting == {l \in Loops : InState(log, l, "queued")}
<1>1. s \in [1..Cardinality(waiting) -> waiting]
  BY DEF PendingOrders
<1>2. s[i] \in waiting
  <2> HIDE DEF waiting
  <2>1. QED
    BY <1>1
<1>3. QED
  BY <1>2 DEF InState, InStateAt

\* A loop that is over stays over.
LEMMA LeftStays == IInv /\ [Next]_vars => Left \subseteq Left'
<1> SUFFICES ASSUME IInv, [Next]_vars, NEW l \in Left
             PROVE  l \in Left'
  OBVIOUS
<1>0. Shape /\ Busy
  BY DEF IInv, TypeOK, Shape
<1> USE ParallelLoopsAssumption DEF Left, Shape, Busy, Procs, Goto
<1>1. ASSUME NEW r \in Loops, Start(r)
      PROVE  l \in Left'
  BY <1>0, <1>1 DEF Start
<1>2. ASSUME NEW u \in Users, UserBegins(u)
      PROVE  l \in Left'
  BY <1>0, <1>2 DEF UserBegins, UserProcess, UserRetry, UserMerge, UserMergeOrphan,
                    UserDiscard, ApiMerge, Begin
<1>3. ASSUME NEW r \in Loops, RunActs(r)
      PROVE  l \in Left'
  BY <1>0, <1>3 DEF RunActs, TakeLock, GoToWorktree, ParseFails, Preflight,
     PreflightFails, Completes, Stops, EnqueueSelf, LeaveForManualMerge, Land, GiveUp
<1>4. ASSUME NEW m \in Mergers, MergerActs(m)
      PROVE  l \in Left'
  BY <1>0, <1>4 DEF MergerActs, TakeLock, WaitForLock, ParseFails, Preflight,
     PreflightFails, MarkMerging, MarkMergingSkipped, MergesBranch, Completes, Stops,
     MarkMerged, MarkNeedsReview, OutcomeRefused
<1>5. ASSUME NEW u \in Users, UserActs(u)
      PROVE  l \in Left'
  BY <1>0, <1>5 DEF UserActs, EnqueueOrphan, DiscardEntry, DiscardWithoutEntry,
     DiscardRefused, RemoveTree, ApiMarkMerging, ApiMarkMerged, ApiRefused
<1>6. ASSUME NEW p \in Procs, SharedActs(p)
      PROVE  l \in Left'
  BY <1>0, <1>6 DEF SharedActs, ListPending, Spawn, SpawnFails, AllSpawned,
     AppendEvent, AfterAppend, AfterOutcome, Queue!AppendEvent, Exit
<1>7. ASSUME NEW p \in Procs, Die(p)
      PROVE  l \in Left'
  BY <1>0, <1>7 DEF Die
<1>8. CASE UNCHANGED vars
  BY <1>8 DEF vars
<1>9. QED
  BY <1>1, <1>2, <1>3, <1>4, <1>5, <1>6, <1>7, <1>8 DEF Next, Acts

(***************************************************************************)
(* The end of a queue operation: the event p has decided on is dropped, or *)
(* all of it is in the file, or what a crash leaves of it.                 *)
(***************************************************************************)
LEMMA OperationEnds ==
  ASSUME log \in Seq(Line), pend \in [Procs -> Queue!Pending \cup {Idle}],
         NEW p \in Procs,
         \/ Queue!AppendEvent(p)
         \/ Queue!CrashBeforeAppend(p)
         \/ Queue!CrashInAppend(p)
  PROVE  /\ pend[p] # Idle /\ pend' = [pend EXCEPT ![p] = Idle]
         /\ \/ log' = log
            \/ /\ log' \in Seq(Line) /\ Len(log') = Len(log) + 1
               /\ \A i \in 1..Len(log) : log'[i] = log[i]
               /\ \/ /\ log'[Len(log) + 1].loop = pend[p].loop
                     /\ log'[Len(log) + 1].kind = pend[p].kind
                  \/ log'[Len(log) + 1].loop = NoLoop
<1>1. pend[p] # Idle /\ pend' = [pend EXCEPT ![p] = Idle] /\ pend[p] \in Queue!Pending
  BY DEF Queue!AppendEvent, Queue!CrashBeforeAppend, Queue!CrashInAppend
<1>2. ASSUME NEW line \in Line, log' = Append(log, line),
             \/ line.loop = pend[p].loop /\ line.kind = pend[p].kind
             \/ line.loop = NoLoop
      PROVE  /\ log' \in Seq(Line) /\ Len(log') = Len(log) + 1
             /\ \A i \in 1..Len(log) : log'[i] = log[i]
             /\ \/ /\ log'[Len(log) + 1].loop = pend[p].loop
                   /\ log'[Len(log) + 1].kind = pend[p].kind
                \/ log'[Len(log) + 1].loop = NoLoop
  BY <1>2
<1>3. CASE Queue!AppendEvent(p)
  <2>1. pend[p] \in Line
    BY <1>1 DEF Queue!Pending, Queue!Kinds, Line, Kinds
  <2>2. QED
    BY <1>1, <1>2, <1>3, <2>1 DEF Queue!AppendEvent
<1>4. CASE Queue!CrashBeforeAppend(p)
  BY <1>1, <1>4 DEF Queue!CrashBeforeAppend
<1>5. CASE Queue!CrashInAppend(p)
  <2>1. PICK line \in Queue!Remains(pend[p]) : log' = Append(log, line)
    BY <1>5 DEF Queue!CrashInAppend
  <2> DEFINE cut == [pend[p] EXCEPT !.eol = FALSE]
             torn == [pend[p] EXCEPT !.eol = FALSE, !.loop = NoLoop, !.kind = "torn"]
  <2>2. line = cut \/ line = torn
    BY <2>1 DEF Queue!Remains
  <2>3. cut \in Line /\ cut.kind = pend[p].kind /\ cut.loop = pend[p].loop
    BY <1>1 DEF Queue!Pending, Queue!Kinds, Line, Kinds
  <2>4. torn \in Line /\ torn.loop = NoLoop
    BY <1>1 DEF Queue!Pending, Queue!Kinds, Line, Kinds
  <2> HIDE DEF cut, torn
  <2>5. QED
    BY <1>1, <1>2, <2>1, <2>2, <2>3, <2>4
<1>6. QED
  BY <1>3, <1>4, <1>5

(***************************************************************************)
(* What a step does to the queue: nothing; or a process ends an operation; *)
(* or it begins one: a run queues itself, an orphan is queued, or a loop   *)
(* that was found in a state is to leave it.                               *)
(***************************************************************************)
Decides(p, l, kind) ==
    /\ log' = log
    /\ pend' = [pend EXCEPT ![p] = Queue!Event(l, kind, Len(log))]

Ends(p) ==
    /\ Queue!AppendEvent(p) \/ Queue!CrashBeforeAppend(p) \/ Queue!CrashInAppend(p)
    /\ p \in Loops => p \in Left'

EnqueuesItself(r) ==
    /\ pc[r] = "completed"
    /\ holder # r
    /\ Decides(r, r, "queued")

EnqueuesOrphan(u) ==
    /\ pc[u] = "queueing"
    /\ job[u] \in Loops
    /\ Decides(u, job[u], "queued")

Checks(p, kind) ==
    /\ p \in Mergers => pc[p] \in {"marking", "completed", "stopped"}
    /\ p \in Users => pc[p] \in {"discarding", "reserving", "claiming"}
    /\ pend[p] = Idle /\ job[p] \in Loops
    /\ InStates(log, job[p], From(kind))
    /\ Decides(p, job[p], kind)

QueueMoves ==
    \/ UNCHANGED queue
    \/ \E p \in Procs : Ends(p)
    \/ \E r \in Loops : EnqueuesItself(r)
    \/ \E u \in Users : EnqueuesOrphan(u)
    \/ \E p \in Mergers \cup Users, kind \in Checked : Checks(p, kind)

LEMMA StepMovesQueue == IInv /\ [Next]_vars => QueueMoves
<1> SUFFICES ASSUME IInv, [Next]_vars
             PROVE  QueueMoves
  OBVIOUS
<1>0. Shape /\ Busy /\ JobsNamed /\ log \in Seq(Line)
  BY LogIsLines DEF IInv, TypeOK, Shape
<1> USE ParallelLoopsAssumption DEF Procs
<1>1. ASSUME NEW p \in Mergers \cup Users, NEW kind \in Checked, job[p] \in Loops,
             p \in Mergers => pc[p] \in {"marking", "completed", "stopped"},
             p \in Users => pc[p] \in {"discarding", "reserving", "claiming"},
             Queue!Check(p, job[p], kind)
      PROVE  QueueMoves
  <2>1. Queue!From(kind) = From(kind)
    BY DEF Queue!From, From
  <2>2. Checks(p, kind)
    BY <1>0, <1>1, <2>1, FoundHasLine DEF Checks, Decides, Queue!Check
  <2>3. QED
    BY <2>2 DEF QueueMoves
<1>2. ASSUME NEW r \in Loops, RunActs(r)
      PROVE  QueueMoves
  <2>1. CASE EnqueueSelf(r)
    BY <2>1 DEF EnqueueSelf, Queue!Enqueue, QueueMoves, EnqueuesItself, Decides
  <2>2. CASE ~EnqueueSelf(r)
    BY <1>2, <2>2 DEF QueueMoves, RunActs, TakeLock, GoToWorktree, ParseFails, Preflight,
       PreflightFails, Completes, Stops, LeaveForManualMerge, Land, GiveUp
  <2>3. QED
    BY <2>1, <2>2
<1>3. ASSUME NEW m \in Mergers, MergerActs(m)
      PROVE  QueueMoves
  <2>1. pc[m] # "new" => job[m] \in Loops
    BY <1>0 DEF JobsNamed
  <2>2. CASE MarkMerging(m)
    BY <1>1, <2>1, <2>2 DEF MarkMerging, Queue!MarkMerging, Checked, Kinds
  <2>3. CASE MarkMerged(m)
    BY <1>1, <2>1, <2>3 DEF MarkMerged, Queue!MarkMerged, Checked, Kinds
  <2>4. CASE MarkNeedsReview(m)
    BY <1>1, <2>1, <2>4 DEF MarkNeedsReview, Queue!MarkNeedsReview, Checked, Kinds
  <2>5. CASE ~MarkMerging(m) /\ ~MarkMerged(m) /\ ~MarkNeedsReview(m)
    BY <1>3, <2>5 DEF QueueMoves, MergerActs, TakeLock, WaitForLock, ParseFails, Preflight,
       PreflightFails, MarkMergingSkipped, MergesBranch, Completes, Stops,
       OutcomeRefused
  <2>6. QED
    BY <2>2, <2>3, <2>4, <2>5
<1>4. ASSUME NEW u \in Users, UserActs(u)
      PROVE  QueueMoves
  <2>1. pc[u] \in {"discarding", "queueing", "reserving", "claiming"} => job[u] \in Loops
    BY <1>0 DEF JobsNamed
  <2>2. CASE EnqueueOrphan(u)
    BY <2>1, <2>2 DEF EnqueueOrphan, Queue!Enqueue, QueueMoves, EnqueuesOrphan, Decides
  <2>3. CASE DiscardEntry(u)
    BY <1>1, <2>1, <2>3 DEF DiscardEntry, Queue!Discard, Checked, Kinds
  <2>4. CASE ApiMarkMerging(u)
    BY <1>1, <2>1, <2>4 DEF ApiMarkMerging, Queue!MarkMerging, Checked, Kinds
  <2>5. CASE ApiMarkMerged(u)
    BY <1>1, <2>1, <2>5 DEF ApiMarkMerged, Queue!MarkMerged, Checked, Kinds
  <2>6. CASE DiscardWithoutEntry(u) \/ DiscardRefused(u) \/ RemoveTree(u) \/ ApiRefused(u)
    BY <2>6 DEF QueueMoves, DiscardWithoutEntry, DiscardRefused, RemoveTree, ApiRefused
  <2>7. QED
    BY <1>4, <2>2, <2>3, <2>4, <2>5, <2>6 DEF UserActs
<1>5. ASSUME NEW p \in Procs, SharedActs(p)
      PROVE  QueueMoves
  <2>1. CASE AppendEvent(p)
    <3>1. pc' = [pc EXCEPT ![p] = AfterAppend(p)] /\ Queue!AppendEvent(p)
      BY <2>1 DEF AppendEvent, Goto
    <3>2. p \in Loops => AfterAppend(p) = "exiting"
      BY <1>0, <3>1 DEF Busy, AfterAppend, AfterOutcome, Queue!AppendEvent
    <3>3. p \in Loops => p \in Left'
      BY <1>0, <3>1, <3>2 DEF Left, Shape
    <3>4. QED
      BY <3>1, <3>3 DEF QueueMoves, Ends
  <2>2. CASE ~AppendEvent(p)
    BY <1>5, <2>2 DEF QueueMoves, SharedActs, ListPending, Spawn, SpawnFails, AllSpawned, Exit
  <2>3. QED
    BY <2>1, <2>2
<1>6. ASSUME NEW p \in Procs, Die(p)
      PROVE  QueueMoves
  <2>1. p \in Loops => p \in Left'
    BY <1>0, <1>6 DEF Die, Goto, Left, Shape
  <2>2. QED
    BY <1>6, <2>1 DEF Die, QueueMoves, Ends
<1>7. ASSUME NEW r \in Loops, Start(r)
      PROVE  QueueMoves
  BY <1>7 DEF Start, QueueMoves
<1>8. ASSUME NEW u \in Users, UserBegins(u)
      PROVE  QueueMoves
  BY <1>8 DEF QueueMoves, UserBegins, UserProcess, UserRetry, UserMerge, UserMergeOrphan,
              UserDiscard, ApiMerge
<1>9. CASE UNCHANGED vars
  BY <1>9 DEF vars, queue, QueueMoves
<1>10. QED
  BY <1>2, <1>3, <1>4, <1>5, <1>6, <1>7, <1>8, <1>9 DEF Next, Acts

\* Lines, and events that are about to be lines, are of loops that are over.
LEMMA LoopsOverStep ==
  ASSUME "orphan" \notin Commands
  PROVE  IInv /\ LoopsOver /\ [Next]_vars => LoopsOver'
<1> SUFFICES ASSUME IInv, LoopsOver, [Next]_vars
             PROVE  LoopsOver'
  OBVIOUS
<1>0. /\ Shape /\ Busy /\ JobsNamed /\ log \in Seq(Line)
      /\ pend \in [Procs -> Queue!Pending \cup {Idle}]
  BY LogIsLines DEF IInv, TypeOK, Shape, Queue!TypeOK
<1>1. Left \subseteq Left'
  BY LeftStays
<1>2. \A kinds : \A l \in Loops : InStates(log, l, kinds) => l \in Left
  BY <1>0, FoundHasLine, NoLoopAssumption DEF LoopsOver
<1>3. QueueMoves
  BY StepMovesQueue
<1> USE ParallelLoopsAssumption, NoLoopAssumption DEF Procs
<1>4. /\ \A i \in DOMAIN log : log[i].loop # NoLoop => log[i].loop \in Loops
      /\ \A p \in Procs : pend[p] # Idle => pend[p].loop \in Loops
  <2>1. \A i \in DOMAIN log : log[i] \in Line
    BY <1>0
  <2>2. \A p \in Procs : pend[p] # Idle => pend[p] \in Queue!Pending
    BY <1>0
  <2>3. QED
    BY <2>1, <2>2 DEF Line, Queue!Pending
<1>5. /\ \A i \in DOMAIN log' : log'[i].loop # NoLoop => log'[i].loop \in Left'
      /\ \A p \in Procs : pend'[p] # Idle => pend'[p].loop \in Left' \/ p = pend'[p].loop
  <2> DEFINE Goal == /\ \A i \in DOMAIN log' : log'[i].loop # NoLoop => log'[i].loop \in Left'
                     /\ \A p \in Procs : pend'[p] # Idle => pend'[p].loop \in Left' \/ p = pend'[p].loop
  <2>1. CASE UNCHANGED queue
    BY <1>1, <1>4, <2>1 DEF LoopsOver, queue
  <2>2. ASSUME NEW p \in Procs, Ends(p)
        PROVE  Goal
    <3>1. pend[p] # Idle /\ pend' = [pend EXCEPT ![p] = Idle] /\ pend[p].loop \in Loops
      BY <1>0, <1>4, <2>2, OperationEnds DEF Ends
    <3>2. pend[p].loop \in Left'
      BY <1>1, <2>2, <3>1 DEF LoopsOver, Ends
    <3>3. \/ log' = log
          \/ /\ log' \in Seq(Line) /\ Len(log') = Len(log) + 1
             /\ \A i \in 1..Len(log) : log'[i] = log[i]
             /\ \/ log'[Len(log) + 1].loop = pend[p].loop
                \/ log'[Len(log) + 1].loop = NoLoop
      BY <1>0, <2>2, OperationEnds DEF Ends
    <3>4. \A i \in DOMAIN log : log[i].loop # NoLoop => log[i].loop \in Left'
      BY <1>1, <1>4 DEF LoopsOver
    <3>5. \A i \in DOMAIN log' : log'[i].loop # NoLoop => log'[i].loop \in Left'
      <4>1. CASE log' = log
        BY <3>4, <4>1
      <4>2. CASE log' # log
        <5>1. DOMAIN log' = 1..Len(log) + 1 /\ DOMAIN log = 1..Len(log) /\ Len(log) \in Nat
          BY <1>0, <3>3, <4>2
        <5>2. QED
          BY <3>2, <3>3, <3>4, <4>2, <5>1
      <4>3. QED
        BY <4>1, <4>2
    <3>6. QED
      BY <1>0, <1>1, <1>4, <3>1, <3>5 DEF LoopsOver
  <2>3. ASSUME NEW r \in Loops, EnqueuesItself(r)
        PROVE  Goal
    BY <1>0, <1>1, <1>4, <2>3 DEF LoopsOver, EnqueuesItself, Decides, Queue!Event
  <2>4. ASSUME NEW u \in Users, EnqueuesOrphan(u)
        PROVE  Goal
    BY <2>4 DEF LoopsOver, EnqueuesOrphan
  <2>5. ASSUME NEW p \in Mergers \cup Users, NEW kind \in Checked, Checks(p, kind)
        PROVE  Goal
    BY <1>0, <1>1, <1>2, <1>4, <2>5 DEF LoopsOver, Checks, Decides, Queue!Event
  <2>6. QED
    BY <1>3, <2>1, <2>2, <2>3, <2>4, <2>5 DEF QueueMoves
<1> DEFINE Rest == /\ \A p \in Procs : \A i \in DOMAIN todo'[p] : todo'[p][i] \in Left'
                   /\ \A m \in Mergers : pc'[m] # "new" => job'[m] \in Left'
                   /\ \A u \in Users : pc'[u] # "queueing"
<1>6. /\ \A p \in Procs : \A i \in DOMAIN todo[p] : todo[p][i] \in Left'
      /\ \A m \in Mergers : pc[m] # "new" => job[m] \in Left'
      /\ \A u \in Users : pc[u] # "queueing"
  <2>1. \A p \in Procs : todo[p] \in Seq(Loops)
    BY <1>0 DEF Shape
  <2>2. \A p \in Procs : \A i \in DOMAIN todo[p] : todo[p][i] \in Loops
    BY <2>1
  <2>3. QED
    BY <1>0, <1>1, <2>2 DEF LoopsOver, JobsNamed
<1>7. Rest
  <2> USE DEF Shape, Goto
  <2>1. ASSUME NEW r \in Loops, Start(r)
        PROVE  Rest
    BY <1>0, <1>6, <2>1 DEF Start
  <2>2. ASSUME NEW u \in Users, UserBegins(u)
        PROVE  Rest
    <3>1. ASSUME NEW l \in Loops, UserRetry(u, l) \/ UserMerge(u, l)
          PROVE  Rest
      <4>1. l \in Left'
        BY <1>1, <1>2, <3>1 DEF UserRetry, UserMerge, Reads
      <4>2. /\ todo' = [todo EXCEPT ![u] = <<l>>] /\ job' = [job EXCEPT ![u] = l]
            /\ pc' = [pc EXCEPT ![u] = "spawning"]
        BY <3>1 DEF UserRetry, UserMerge, Begin
      <4>3. \A i \in DOMAIN <<l>> : <<l>>[i] \in Left'
        BY <4>1
      <4>4. QED
        BY <1>0, <1>6, <4>2, <4>3
    <3>2. ASSUME NEW l \in Loops, UserDiscard(u, l) \/ ApiMerge(u, l)
          PROVE  Rest
      <4>1. CASE UserDiscard(u, l)
        BY <1>0, <1>6, <4>1 DEF UserDiscard, Begin
      <4>2. CASE ApiMerge(u, l)
        BY <1>0, <1>6, <4>2 DEF ApiMerge, Begin
      <4>3. QED
        BY <3>2, <4>1, <4>2
    <3>3. CASE UserProcess(u)
      BY <1>0, <1>6, <3>3 DEF UserProcess, Begin
    <3>4. \A l \in Loops : ~UserMergeOrphan(u, l)
      BY DEF UserMergeOrphan, Begin
    <3>5. QED
      BY <2>2, <3>1, <3>2, <3>3, <3>4 DEF UserBegins
  <2>3. ASSUME NEW r \in Loops, RunActs(r)
        PROVE  Rest
    BY <1>0, <1>6, <2>3 DEF RunActs, TakeLock, GoToWorktree, ParseFails, Preflight,
       PreflightFails, Completes, Stops, EnqueueSelf, LeaveForManualMerge, Land, GiveUp
  <2>4. ASSUME NEW m \in Mergers, MergerActs(m)
        PROVE  Rest
    BY <1>0, <1>6, <2>4 DEF MergerActs, TakeLock, WaitForLock, ParseFails, Preflight,
       PreflightFails, MarkMerging, MarkMergingSkipped, MergesBranch, Completes, Stops,
       MarkMerged, MarkNeedsReview, OutcomeRefused
  <2>5. ASSUME NEW u \in Users, UserActs(u)
        PROVE  Rest
    BY <1>0, <1>6, <2>5 DEF UserActs, EnqueueOrphan, DiscardEntry, DiscardWithoutEntry,
       DiscardRefused, RemoveTree, ApiMarkMerging, ApiMarkMerged, ApiRefused
  <2>6. ASSUME NEW p \in Procs, SharedActs(p)
        PROVE  Rest
    <3>1. CASE ListPending(p)
      <4>1. ASSUME NEW s \in PendingOrders
            PROVE  \A i \in DOMAIN s : s[i] \in Left'
        <5>1. \A i \in DOMAIN s : s[i] \in Loops /\ \E j \in DOMAIN log : log[j].loop = s[i]
          BY <1>0, PendingHaveLines
        <5>2. QED
          BY <1>1, <5>1 DEF LoopsOver
      <4>2. QED
        BY <1>0, <1>6, <3>1, <4>1 DEF ListPending
    <3>2. ASSUME NEW m \in Mergers, Spawn(p, m)
          PROVE  Rest
      <4>1. /\ todo[p] \in Seq(Loops) /\ todo[p] # <<>>
            /\ job' = [job EXCEPT ![m] = Head(todo[p])]
            /\ todo' = [todo EXCEPT ![p] = Tail(todo[p])]
            /\ pc' = [pc EXCEPT ![m] = "trying"]
        BY <1>0, <3>2 DEF Spawn
      <4>2. /\ Head(todo[p]) \in Left'
            /\ \A i \in DOMAIN Tail(todo[p]) : Tail(todo[p])[i] \in Left'
        BY <1>6, <4>1
      <4>3. QED
        BY <1>0, <1>6, <4>1, <4>2
    <3>3. CASE SpawnFails(p)
      <4>1. /\ todo[p] \in Seq(Loops) /\ todo[p] # <<>> /\ pc' = pc /\ job' = job
            /\ todo' = [todo EXCEPT ![p] = Tail(todo[p])]
        BY <1>0, <3>3 DEF SpawnFails
      <4>2. \A i \in DOMAIN Tail(todo[p]) : Tail(todo[p])[i] \in Left'
        BY <1>6, <4>1
      <4>3. QED
        BY <1>0, <1>6, <4>1, <4>2
    <3>4. CASE AppendEvent(p)
      BY <1>0, <1>6, <3>4 DEF AppendEvent, AfterAppend, AfterOutcome, Queue!AppendEvent, Busy
    <3>5. CASE AllSpawned(p) \/ Exit(p)
      BY <1>0, <1>6, <3>5 DEF AllSpawned, Exit
    <3>6. QED
      BY <2>6, <3>1, <3>2, <3>3, <3>4, <3>5 DEF SharedActs
  <2>7. ASSUME NEW p \in Procs, Die(p)
        PROVE  Rest
    BY <1>0, <1>6, <2>7 DEF Die
  <2>8. CASE UNCHANGED vars
    BY <1>6, <2>8 DEF vars
  <2>9. QED
    BY <2>1, <2>2, <2>3, <2>4, <2>5, <2>6, <2>7, <2>8 DEF Next, Acts
<1>8. QED
  BY <1>5, <1>7 DEF LoopsOver

\* LoopsOver holds of every reachable state.
LEMMA LoopsAreOver ==
  ASSUME "orphan" \notin Commands
  PROVE  Spec => []LoopsOver
<1>1. Init => LoopsOver
  BY DEF Init, Queue!Init, LoopsOver, Procs
<1>2. IInv /\ LoopsOver /\ [Next]_vars => LoopsOver'
  BY LoopsOverStep
<1>3. QED
  BY <1>1, <1>2, InvariantHolds, PTL DEF Spec

(***************************************************************************)
(* But for `ralph loops merge` of an orphan, a merger at work is about a   *)
(* loop that has left its event loop, whoever spawned it and whatever      *)
(* crashed.                                                                *)
(***************************************************************************)
THEOREM MergesOnlyEndedLoops ==
  ASSUME "orphan" \notin Commands
  PROVE  Spec => []MergesEndedLoops
<1>1. LoopsOver => MergesEndedLoops
  BY DEF LoopsOver, Left, MergesEndedLoops
<1>2. QED
  BY <1>1, LoopsAreOver, PTL

-----------------------------------------------------------------------------
(***************************************************************************)
(* Work is kept, but for orphans and discards.  A worktree is there from   *)
(* before its loop is set up; it goes when preflight fails, and the loop   *)
(* never queues itself, or when a merger has landed the branch.            *)
(***************************************************************************)
Saved == trees \cup landed

Keeping ==
    /\ \A i \in DOMAIN log : log[i].loop # NoLoop => log[i].loop \in Saved
    /\ \A p \in Procs : pend[p] # Idle => pend[p].loop \in Saved
    /\ \A r \in Loops : pc[r] = "setup" => r \in trees
    /\ \A r \in Loops : pc[r] \in {"looping", "completed"} => holder = r \/ r \in Saved
    /\ \A u \in Users : pc[u] \notin {"discarding", "removing"}

\* The work of a loop that is past its preflight stays.
LEMMA SavedStays ==
  IInv /\ Keeping /\ [Next]_vars => \A l \in Loops : pc[l] # "setup" /\ l \in Saved => l \in Saved'
<1> SUFFICES ASSUME IInv, Keeping, [Next]_vars,
                    NEW l \in Loops, pc[l] # "setup", l \in Saved
             PROVE  l \in Saved'
  OBVIOUS
<1> USE ParallelLoopsAssumption DEF Saved, Procs, files
<1>1. CASE \E r \in Loops : Start(r)
  BY <1>1 DEF Start
<1>2. ASSUME NEW u \in Users, UserBegins(u)
      PROVE  l \in Saved'
  BY <1>2 DEF UserBegins, UserProcess, UserRetry, UserMerge, UserMergeOrphan,
              UserDiscard, ApiMerge
<1>3. ASSUME NEW r \in Loops, RunActs(r)
      PROVE  l \in Saved'
  BY <1>3 DEF RunActs, TakeLock, GoToWorktree, ParseFails, Preflight,
     PreflightFails, Completes, Stops, EnqueueSelf, LeaveForManualMerge, Land, GiveUp
<1>4. ASSUME NEW m \in Mergers, MergerActs(m)
      PROVE  l \in Saved'
  BY <1>4 DEF MergerActs, TakeLock, WaitForLock, ParseFails, Preflight,
     PreflightFails, MarkMerging, MarkMergingSkipped, MergesBranch, Completes, Stops,
     MarkMerged, MarkNeedsReview, OutcomeRefused
<1>5. ASSUME NEW u \in Users, UserActs(u)
      PROVE  l \in Saved'
  BY <1>5 DEF Keeping, UserActs, EnqueueOrphan, DiscardEntry, DiscardWithoutEntry,
     DiscardRefused, RemoveTree, ApiMarkMerging, ApiMarkMerged, ApiRefused
<1>6. ASSUME NEW p \in Procs, SharedActs(p)
      PROVE  l \in Saved'
  BY <1>6 DEF SharedActs, ListPending, Spawn, SpawnFails, AllSpawned, AppendEvent, Exit
<1>7. ASSUME NEW p \in Procs, Die(p)
      PROVE  l \in Saved'
  BY <1>7 DEF Die
<1>8. CASE UNCHANGED vars
  BY <1>8 DEF vars
<1>9. QED
  BY <1>1, <1>2, <1>3, <1>4, <1>5, <1>6, <1>7, <1>8 DEF Next, Acts

\* Every loop in the queue, or about to be, has its work kept.
LEMMA KeepingStep ==
  ASSUME "orphan" \notin Commands, "discard" \notin Commands
  PROVE  IInv /\ LoopsOver /\ Keeping /\ [Next]_vars => Keeping'
<1> SUFFICES ASSUME IInv, LoopsOver, Keeping, [Next]_vars
             PROVE  Keeping'
  OBVIOUS
<1>0. /\ Shape /\ Busy /\ JobsNamed /\ LockHeld /\ log \in Seq(Line)
      /\ pend \in [Procs -> Queue!Pending \cup {Idle}]
  BY LogIsLines DEF IInv, TypeOK, Shape, Queue!TypeOK
<1>1. \A l \in Loops : pc[l] # "setup" /\ l \in Saved => l \in Saved'
  BY SavedStays
<1>2. \A kinds : \A l \in Loops : InStates(log, l, kinds) => l \in Left /\ l \in Saved
  BY <1>0, FoundHasLine, NoLoopAssumption DEF LoopsOver, Keeping
<1>3. QueueMoves
  BY StepMovesQueue
<1> USE ParallelLoopsAssumption, NoLoopAssumption DEF Procs
<1>4. /\ \A i \in DOMAIN log : log[i].loop # NoLoop => log[i].loop \in Saved'
      /\ \A p \in Procs : pend[p] # Idle => pend[p].loop \in Saved'
  <2>1. \A i \in DOMAIN log : log[i] \in Line
    BY <1>0
  <2>2. \A i \in DOMAIN log : log[i].loop # NoLoop => log[i].loop \in Loops /\ log[i].loop \in Left
    BY <2>1 DEF Line, LoopsOver
  <2>3. \A p \in Procs : pend[p] # Idle => pend[p] \in Queue!Pending
    BY <1>0
  <2>4. \A p \in Procs : pend[p] # Idle =>
          /\ pend[p].loop \in Loops
          /\ pend[p].loop \in Left \/ pc[pend[p].loop] = "completed"
    BY <1>0, <2>3 DEF Queue!Pending, LoopsOver, Busy
  <2>5. QED
    BY <1>1, <2>2, <2>4 DEF Keeping, Left
<1>5. /\ \A i \in DOMAIN log' : log'[i].loop # NoLoop => log'[i].loop \in Saved'
      /\ \A p \in Procs : pend'[p] # Idle => pend'[p].loop \in Saved'
  <2> DEFINE Goal == /\ \A i \in DOMAIN log' : log'[i].loop # NoLoop => log'[i].loop \in Saved'
                     /\ \A p \in Procs : pend'[p] # Idle => pend'[p].loop \in Saved'
  <2>1. CASE UNCHANGED queue
    BY <1>4, <2>1 DEF queue
  <2>2. ASSUME NEW p \in Procs, Ends(p)
        PROVE  Goal
    <3>1. pend[p] # Idle /\ pend' = [pend EXCEPT ![p] = Idle]
      BY <1>0, <2>2, OperationEnds DEF Ends
    <3>2. \/ log' = log
          \/ /\ log' \in Seq(Line) /\ Len(log') = Len(log) + 1
             /\ \A i \in 1..Len(log) : log'[i] = log[i]
             /\ \/ log'[Len(log) + 1].loop = pend[p].loop
                \/ log'[Len(log) + 1].loop = NoLoop
      BY <1>0, <2>2, OperationEnds DEF Ends
    <3>3. \A i \in DOMAIN log' : log'[i].loop # NoLoop => log'[i].loop \in Saved'
      <4>1. CASE log' = log
        BY <1>4, <4>1
      <4>2. CASE log' # log
        <5>1. DOMAIN log' = 1..Len(log) + 1 /\ DOMAIN log = 1..Len(log) /\ Len(log) \in Nat
          BY <1>0, <3>2, <4>2
        <5>2. QED
          BY <1>4, <3>1, <3>2, <4>2, <5>1
      <4>3. QED
        BY <4>1, <4>2
    <3>4. QED
      BY <1>0, <1>4, <3>1, <3>3
  <2>3. ASSUME NEW r \in Loops, EnqueuesItself(r)
        PROVE  Goal
    <3>1. r \in Saved'
      BY <1>1, <2>3 DEF Keeping, EnqueuesItself
    <3>2. QED
      BY <1>0, <1>4, <2>3, <3>1 DEF EnqueuesItself, Decides, Queue!Event
  <2>4. ASSUME NEW u \in Users, EnqueuesOrphan(u)
        PROVE  Goal
    BY <2>4 DEF LoopsOver, EnqueuesOrphan
  <2>5. ASSUME NEW p \in Mergers \cup Users, NEW kind \in Checked, Checks(p, kind)
        PROVE  Goal
    <3>1. job[p] \in Saved'
      BY <1>1, <1>2, <2>5 DEF Checks, Left
    <3>2. QED
      BY <1>0, <1>4, <2>5, <3>1 DEF Checks, Decides, Queue!Event
  <2>6. QED
    BY <1>3, <2>1, <2>2, <2>3, <2>4, <2>5 DEF QueueMoves
<1> DEFINE Rest == /\ \A r \in Loops : pc'[r] = "setup" => r \in trees'
                   /\ \A r \in Loops : pc'[r] \in {"looping", "completed"} =>
                                        holder' = r \/ r \in Saved'
                   /\ \A u \in Users : pc'[u] \notin {"discarding", "removing"}
<1>6. Rest
  <2> USE <1>0 DEF Keeping, Saved, Shape, Goto, files
  <2>1. ASSUME NEW r \in Loops, Start(r)
        PROVE  Rest
    BY <2>1 DEF Start
  <2>2. ASSUME NEW u \in Users, UserBegins(u)
        PROVE  Rest
    BY <2>2 DEF UserBegins, UserProcess, UserRetry, UserMerge, UserMergeOrphan,
                UserDiscard, ApiMerge, Begin
  <2>3. ASSUME NEW r \in Loops, RunActs(r)
        PROVE  Rest
    <3>1. CASE TakeLock(r) \/ GoToWorktree(r) \/ ParseFails(r)
      BY <3>1 DEF TakeLock, GoToWorktree, ParseFails
    <3>2. CASE Preflight(r) \/ PreflightFails(r)
      BY <3>2 DEF Preflight, PreflightFails, LockHeld
    <3>3. CASE ~TakeLock(r) /\ ~GoToWorktree(r) /\ ~ParseFails(r) /\ ~Preflight(r) /\ ~PreflightFails(r)
      BY <2>3, <3>3 DEF RunActs, Completes, Stops, EnqueueSelf, LeaveForManualMerge,
         Land, GiveUp
    <3>4. QED
      BY <3>1, <3>2, <3>3
  <2>4. ASSUME NEW m \in Mergers, MergerActs(m)
        PROVE  Rest
    <3>1. CASE TakeLock(m) \/ WaitForLock(m) \/ ParseFails(m)
      BY <3>1 DEF TakeLock, WaitForLock, ParseFails
    <3>2. CASE Preflight(m) \/ PreflightFails(m)
      BY <3>2 DEF Preflight, PreflightFails, LockHeld, MergerPhases, AtWork, Ended
    <3>3. CASE MergesBranch(m)
      <4>1. job[m] \in Left
        BY <3>3 DEF MergesBranch, LoopsOver
      <4>2. QED
        BY <3>3, <4>1 DEF MergesBranch, Left
    <3>4. CASE ~TakeLock(m) /\ ~WaitForLock(m) /\ ~ParseFails(m) /\ ~Preflight(m)
               /\ ~PreflightFails(m) /\ ~MergesBranch(m)
      BY <2>4, <3>4 DEF MergerActs, MarkMerging, MarkMergingSkipped, Completes, Stops,
         MarkMerged, MarkNeedsReview, OutcomeRefused
    <3>5. QED
      BY <3>1, <3>2, <3>3, <3>4
  <2>5. ASSUME NEW u \in Users, UserActs(u)
        PROVE  Rest
    BY <2>5 DEF UserActs, EnqueueOrphan, DiscardEntry, DiscardWithoutEntry,
       DiscardRefused, RemoveTree, ApiMarkMerging, ApiMarkMerged, ApiRefused
  <2>6. ASSUME NEW p \in Procs, SharedActs(p)
        PROVE  Rest
    BY <2>6 DEF SharedActs, ListPending, Spawn, SpawnFails, AllSpawned, Exit,
       AppendEvent, AfterAppend, AfterOutcome, Queue!AppendEvent, Busy
  <2>7. ASSUME NEW p \in Procs, Die(p)
        PROVE  Rest
    BY <2>7 DEF Die
  <2>8. CASE UNCHANGED vars
    BY <2>8 DEF vars
  <2>9. QED
    BY <2>1, <2>2, <2>3, <2>4, <2>5, <2>6, <2>7, <2>8 DEF Next, Acts
<1>7. QED
  BY <1>5, <1>6 DEF Keeping

(***************************************************************************)
(* But for orphans and discards, the work of a loop that waits to be       *)
(* merged, is being merged or needs review is in its worktree or in the    *)
(* main branch.                                                            *)
(***************************************************************************)
THEOREM WorkIsAlwaysKept ==
  ASSUME "orphan" \notin Commands, "discard" \notin Commands
  PROVE  Spec => []WorkIsKept
<1>1. Init => Keeping
  BY DEF Init, Queue!Init, Keeping, Procs
<1>2. IInv /\ LoopsOver /\ Keeping /\ [Next]_vars => Keeping'
  BY KeepingStep
<1>3. TypeOK /\ Keeping => WorkIsKept
  BY LogIsLines, FoundHasLine, NoLoopAssumption DEF Keeping, Saved, WorkIsKept
<1>4. IInv => TypeOK
  BY DEF IInv
<1>5. QED
  BY <1>1, <1>2, <1>3, <1>4, InvariantHolds, LoopsAreOver, PTL DEF Spec

-----------------------------------------------------------------------------
(***************************************************************************)
(* Where no command but process, retry and merge runs, the queue goes      *)
(* through its lifecycle as if its operations were atomic.  What a merger  *)
(* has checked stays true until it appends: of the mergers it alone has    *)
(* the lock, and the loop it is about has queued itself before.            *)
(***************************************************************************)
Serial ==
    /\ \A m \in Mergers : pend[m] # Idle =>
        /\ pend[m].kind \in Checked
        /\ InStates(log, pend[m].loop, From(pend[m].kind))
    /\ \A r \in Loops : pend[r] # Idle => pend[r].loop = r /\ pend[r].kind = "queued"
    /\ \A u \in Users :
        /\ pend[u] = Idle
        /\ pc[u] \notin {"discarding", "removing", "queueing", "reserving", "claiming"}

\* The states a file gives the loops.
StatusIn(f) == [l \in Loops |-> IF Absent(f, l) THEN "absent"
                                ELSE CHOOSE k \in Kinds : InState(f, l, k)]

\* A loop is in one state.
LEMMA OneState ==
  ASSUME NEW f \in Seq(Line), NEW l \in Loops, NEW k \in Kinds, InState(f, l, k)
  PROVE  StatusIn(f)[l] = k
<1>1. Len(f) \in Nat /\ DOMAIN f = 1..Len(f)
  OBVIOUS
<1>2. ~Absent(f, l)
  BY <1>1 DEF Absent, InState, InStateAt
<1>3. \A kind \in Kinds : InState(f, l, kind) => kind = k
  BY <1>1 DEF InState, InStateAt
<1>4. k = CHOOSE kind \in Kinds : InState(f, l, kind)
  BY <1>3
<1>5. QED
  BY <1>2, <1>4 DEF StatusIn

\* A line decides the state of its loop and of no other.
LEMMA LineDecides ==
  ASSUME NEW f \in Seq(Line), NEW g \in Seq(Line), Len(g) = Len(f) + 1,
         \A i \in 1..Len(f) : g[i] = f[i], NEW l \in Loops
  PROVE  /\ g[Len(f) + 1].loop # l =>
              /\ StatusIn(g)[l] = StatusIn(f)[l]
              /\ \A kinds : InStates(g, l, kinds) <=> InStates(f, l, kinds)
         /\ g[Len(f) + 1].loop = l /\ g[Len(f) + 1].kind \in Kinds =>
              StatusIn(g)[l] = g[Len(f) + 1].kind
<1>1. /\ Len(f) \in Nat /\ DOMAIN f = 1..Len(f) /\ DOMAIN g = 1..Len(f) + 1
  OBVIOUS
<1>2. CASE g[Len(f) + 1].loop # l
  <2>1. Absent(g, l) <=> Absent(f, l)
    BY <1>1, <1>2 DEF Absent
  <2>2. \A k : InState(g, l, k) <=> InState(f, l, k)
    <3>1. ASSUME NEW k, InState(g, l, k)
          PROVE  InState(f, l, k)
      BY <1>1, <1>2, <3>1 DEF InState, InStateAt
    <3>2. ASSUME NEW k, InState(f, l, k)
          PROVE  InState(g, l, k)
      BY <1>1, <1>2, <3>2 DEF InState, InStateAt
    <3>3. QED
      BY <3>1, <3>2
  <2>3. \A kinds : InStates(g, l, kinds) <=> InStates(f, l, kinds)
    BY <2>2 DEF InStates
  <2> DEFINE last(h) == CHOOSE k \in Kinds : InState(h, l, k)
  <2>4. last(g) = last(f)
    BY <2>2, Zenon
  <2>5. StatusIn(g)[l] = StatusIn(f)[l]
    <3>1. \A h : StatusIn(h)[l] = IF Absent(h, l) THEN "absent" ELSE last(h)
      BY DEF StatusIn
    <3> HIDE DEF last
    <3>2. QED
      BY <2>1, <2>4, <3>1
  <2>6. QED
    BY <1>2, <2>3, <2>5
<1>3. CASE g[Len(f) + 1].loop = l /\ g[Len(f) + 1].kind \in Kinds
  <2>1. InState(g, l, g[Len(f) + 1].kind)
    BY <1>1, <1>3 DEF InState, InStateAt
  <2>2. QED
    BY <1>3, <2>1, OneState
<1>4. QED
  BY <1>2, <1>3

\* Two mergers are not between the two halves of an operation at once, and a
\* run is there only for a loop that no merger is about.
LEMMA OthersDecide ==
  ASSUME IInv, LoopsOver, Serial, NEW m \in Mergers, NEW p \in Procs,
         pend[m] # Idle, pend[p] # Idle, p # m
  PROVE  pend[p].loop # pend[m].loop
<1>1. pend \in [Procs -> Queue!Pending \cup {Idle}] /\ Busy /\ LockHeld
  BY DEF IInv, TypeOK, Queue!TypeOK
<1> USE ParallelLoopsAssumption DEF Procs
<1>2. p \notin Users
  BY DEF Serial
<1>3. p \notin Mergers
  BY <1>1 DEF Busy, LockHeld, MergersHaveTheLock, AtWork
<1>4. p \in Loops /\ pend[p].loop = p /\ pc[p] = "completed"
  BY <1>1, <1>2, <1>3 DEF Serial, Busy
<1>5. pend[m].loop \in Left
  BY <1>1 DEF LoopsOver, Queue!Pending
<1>6. QED
  BY <1>4, <1>5 DEF Left

\* The queue's part of what is serial is kept.
LEMMA SerialQueueStep ==
  ASSUME IInv, LoopsOver, Serial, QueueMoves
  PROVE  /\ \A m \in Mergers : pend'[m] # Idle =>
              /\ pend'[m].kind \in Checked
              /\ InStates(log', pend'[m].loop, From(pend'[m].kind))
         /\ \A r \in Loops : pend'[r] # Idle => pend'[r].loop = r /\ pend'[r].kind = "queued"
         /\ \A u \in Users : pend'[u] = Idle
<1> DEFINE Goal == /\ \A m \in Mergers : pend'[m] # Idle =>
                        /\ pend'[m].kind \in Checked
                        /\ InStates(log', pend'[m].loop, From(pend'[m].kind))
                   /\ \A r \in Loops : pend'[r] # Idle => pend'[r].loop = r /\ pend'[r].kind = "queued"
                   /\ \A u \in Users : pend'[u] = Idle
<1>0. /\ Busy /\ log \in Seq(Line)
      /\ pend \in [Procs -> Queue!Pending \cup {Idle}]
  BY LogIsLines DEF IInv, TypeOK, Queue!TypeOK
<1> USE ParallelLoopsAssumption DEF Procs
<1>1. CASE UNCHANGED queue
  BY <1>1 DEF Serial, queue
<1>2. ASSUME NEW p \in Procs, Ends(p)
      PROVE  Goal
  <2>1. pend[p] # Idle /\ pend' = [pend EXCEPT ![p] = Idle]
    BY <1>0, <1>2, OperationEnds DEF Ends
  <2>2. ASSUME NEW m \in Mergers, pend'[m] # Idle
        PROVE  /\ pend'[m].kind \in Checked
               /\ InStates(log', pend'[m].loop, From(pend'[m].kind))
    <3>1. pend'[m] = pend[m] /\ m # p /\ pend[m] \in Queue!Pending
      BY <1>0, <2>1, <2>2
    <3>2. pend[p].loop # pend[m].loop /\ pend[m].loop \in Loops
      BY <2>1, <2>2, <3>1, OthersDecide DEF Queue!Pending
    <3>3. \A kinds : InStates(log', pend[m].loop, kinds) <=> InStates(log, pend[m].loop, kinds)
      <4>1. CASE log' = log
        BY <4>1
      <4>2. CASE log' # log
        <5>1. /\ log' \in Seq(Line) /\ Len(log') = Len(log) + 1
              /\ \A i \in 1..Len(log) : log'[i] = log[i]
              /\ log'[Len(log) + 1].loop \in {pend[p].loop, NoLoop}
          BY <1>0, <1>2, <4>2, OperationEnds DEF Ends
        <5>2. log'[Len(log) + 1].loop # pend[m].loop
          BY <3>2, <5>1, NoLoopAssumption
        <5>3. QED
          BY <1>0, <3>2, <5>1, <5>2, LineDecides
      <4>3. QED
        BY <4>1, <4>2
    <3>4. QED
      BY <2>2, <3>1, <3>3 DEF Serial
  <2>3. QED
    BY <1>0, <2>1, <2>2 DEF Serial
<1>3. ASSUME NEW r \in Loops, EnqueuesItself(r)
      PROVE  Goal
  BY <1>0, <1>3 DEF Serial, EnqueuesItself, Decides, Queue!Event
<1>4. ASSUME NEW u \in Users, EnqueuesOrphan(u)
      PROVE  Goal
  BY <1>4 DEF Serial, EnqueuesOrphan
<1>5. ASSUME NEW p \in Mergers \cup Users, NEW kind \in Checked, Checks(p, kind)
      PROVE  Goal
  <2>1. p \in Mergers /\ p \notin Users /\ p \notin Loops
    BY <1>5 DEF Serial, Checks
  <2>2. log' = log /\ pend' = [pend EXCEPT ![p] = Queue!Event(job[p], kind, Len(log))]
    BY <1>5 DEF Checks, Decides
  <2>3. InStates(log, job[p], From(kind))
    BY <1>5 DEF Checks
  <2>4. QED
    BY <1>0, <2>1, <2>2, <2>3 DEF Serial, Queue!Event
<1>6. QED
  BY <1>1, <1>2, <1>3, <1>4, <1>5 DEF QueueMoves

\* Users run none of the commands that write to the queue.
LEMMA SerialStep ==
  ASSUME Commands \subseteq {"process", "retry", "merge"}
  PROVE  IInv /\ LoopsOver /\ Serial /\ [Next]_vars => Serial'
<1> SUFFICES ASSUME IInv, LoopsOver, Serial, [Next]_vars
             PROVE  Serial'
  OBVIOUS
<1>0. Shape /\ Busy /\ QueueMoves
  BY StepMovesQueue DEF IInv, TypeOK, Shape
<1> DEFINE Quiet == {"discarding", "removing", "queueing", "reserving", "claiming"}
           Rest == \A u \in Users : pc'[u] \notin Quiet
<1>1. Rest
  <2> USE <1>0, ParallelLoopsAssumption DEF Serial, Shape, Goto, Procs
  <2>1. ASSUME NEW r \in Loops, Start(r)
        PROVE  Rest
    BY <2>1 DEF Start
  <2>2. ASSUME NEW u \in Users, UserBegins(u)
        PROVE  Rest
    BY <2>2 DEF UserBegins, UserProcess, UserRetry, UserMerge, UserMergeOrphan,
                UserDiscard, ApiMerge, Begin
  <2>3. ASSUME NEW r \in Loops, RunActs(r)
        PROVE  Rest
    BY <2>3 DEF RunActs, TakeLock, GoToWorktree, ParseFails, Preflight,
       PreflightFails, Completes, Stops, EnqueueSelf, LeaveForManualMerge, Land, GiveUp
  <2>4. ASSUME NEW m \in Mergers, MergerActs(m)
        PROVE  Rest
    BY <2>4 DEF MergerActs, TakeLock, WaitForLock, ParseFails, Preflight,
       PreflightFails, MarkMerging, MarkMergingSkipped, MergesBranch, Completes, Stops,
       MarkMerged, MarkNeedsReview, OutcomeRefused, AfterOutcome
  <2>5. ASSUME NEW u \in Users, UserActs(u)
        PROVE  Rest
    BY <2>5 DEF UserActs, EnqueueOrphan, DiscardEntry, DiscardWithoutEntry,
       DiscardRefused, RemoveTree, ApiMarkMerging, ApiMarkMerged, ApiRefused
  <2>6. ASSUME NEW p \in Procs, SharedActs(p)
        PROVE  Rest
    BY <2>6 DEF SharedActs, ListPending, Spawn, SpawnFails, AllSpawned, Exit,
       AppendEvent, Queue!AppendEvent
  <2>7. ASSUME NEW p \in Procs, Die(p)
        PROVE  Rest
    BY <2>7 DEF Die
  <2>8. CASE UNCHANGED vars
    BY <2>8 DEF vars
  <2>9. QED
    BY <2>1, <2>2, <2>3, <2>4, <2>5, <2>6, <2>7, <2>8 DEF Next, Acts
<1>2. QED
  BY <1>0, <1>1, SerialQueueStep DEF Serial

\* The states of MergeQueue are those its file gives the loops.
LEMMA StatusIsInLog == Queue!Status = StatusIn(log)
BY DEF Queue!Status, StatusIn, Queue!Absent, Absent, Queue!InState, InState,
       Queue!InStateAt, InStateAt, Queue!Kinds, Kinds

\* Every step is a step of the lifecycle of one loop, or none: an append makes
\* the move its writer checked for, and a torn line makes none.
LEMMA LifecycleStep ==
  IInv /\ LoopsOver /\ Serial /\ [Next]_vars => [Queue!Lifecycle!Next]_(Queue!Status)
<1> SUFFICES ASSUME IInv, LoopsOver, Serial, [Next]_vars
             PROVE  [Queue!Lifecycle!Next]_(Queue!Status)
  OBVIOUS
<1>0. /\ QueueMoves /\ log \in Seq(Line)
      /\ pend \in [Procs -> Queue!Pending \cup {Idle}]
  BY StepMovesQueue, LogIsLines DEF IInv, TypeOK, Queue!TypeOK
<1>1. Queue!Status = StatusIn(log) /\ Queue!Status' = StatusIn(log')
  <2>1. (Queue!Status = StatusIn(log))'
    BY StatusIsInLog, PTL
  <2>2. QED
    BY <2>1, StatusIsInLog
<1>2. CASE log' = log
  BY <1>1, <1>2
<1>3. CASE log' # log
  <2>1. PICK p \in Procs : Ends(p)
    BY <1>0, <1>3 DEF QueueMoves, EnqueuesItself, EnqueuesOrphan, Checks, Decides, queue
  <2> DEFINE n == Len(log)
             l == pend[p].loop
             k == pend[p].kind
  <2>2. /\ pend[p] \in Queue!Pending /\ log' \in Seq(Line) /\ Len(log') = n + 1
        /\ \A i \in 1..n : log'[i] = log[i]
        /\ \/ log'[n + 1].loop = l /\ log'[n + 1].kind = k
           \/ log'[n + 1].loop = NoLoop
    BY <1>0, <1>3, <2>1, OperationEnds DEF Ends
  <2>3. l \in Loops /\ k \in Kinds
    BY <2>2 DEF Queue!Pending, Queue!Kinds, Kinds
  <2>4. CASE log'[n + 1].loop = NoLoop
    <3>1. \A g \in Loops : StatusIn(log')[g] = StatusIn(log)[g]
      BY <1>0, <2>2, <2>4, LineDecides, NoLoopAssumption
    <3>2. StatusIn(log') = StatusIn(log)
      BY <3>1 DEF StatusIn
    <3>3. QED
      BY <1>1, <3>2
  <2>5. CASE log'[n + 1].loop = l /\ log'[n + 1].kind = k
    <3>1. \A g \in Loops : StatusIn(log')[g] = IF g = l THEN k ELSE StatusIn(log)[g]
      BY <1>0, <2>2, <2>3, <2>5, LineDecides
    <3>2. StatusIn(log') = [StatusIn(log) EXCEPT ![l] = k]
      <4>1. \A f : StatusIn(f) = [g \in Loops |-> StatusIn(f)[g]]
        BY DEF StatusIn
      <4>2. QED
        BY <2>3, <3>1, <4>1
    <3>3. CASE k = "queued"
      BY <1>1, <2>3, <3>2, <3>3 DEF Queue!Lifecycle!Next, Queue!Lifecycle!Enqueue
    <3>4. CASE k # "queued"
      <4>1. p \in Mergers /\ pend[p] # Idle
        BY <1>0, <2>1, <3>4, OperationEnds DEF Serial, Ends, Procs
      <4>2. k \in Checked /\ InStates(log, l, From(k))
        BY <4>1 DEF Serial
      <4>3. From(k) \subseteq Kinds
        BY <4>2 DEF From, Checked, Kinds
      <4>4. StatusIn(log)[l] \in From(k)
        BY <1>0, <2>3, <4>2, <4>3, OneState DEF InStates
      <4>5. Queue!Lifecycle!Move(l, From(k), k)
        BY <1>1, <3>2, <4>4 DEF Queue!Lifecycle!Move
      <4>6. QED
        BY <2>3, <4>2, <4>5
           DEF Queue!Lifecycle!Next, Queue!Lifecycle!StartMerge, Queue!Lifecycle!Succeed,
               Queue!Lifecycle!NeedReview, Queue!Lifecycle!Abandon, Checked, Kinds, From
    <3>5. QED
      BY <3>3, <3>4
  <2>6. QED
    BY <2>2, <2>4, <2>5
<1>4. QED
  BY <1>2, <1>3

(***************************************************************************)
(* Runs, mergers and the commands that spawn them implement the lifecycle, *)
(* each operation atomic: what no lock of the queue does, the loop lock    *)
(* and the order of a run's steps do.                                      *)
(***************************************************************************)
THEOREM ImplementsLifecycle ==
  ASSUME Commands \subseteq {"process", "retry", "merge"}
  PROVE  Spec => LifecycleSpec
<1>1. Init => Queue!Lifecycle!Init
  <2> SUFFICES ASSUME Init
               PROVE  Queue!Lifecycle!Init
    OBVIOUS
  <2>1. log = <<>>
    BY DEF Init, Queue!Init
  <2>2. StatusIn(log) = [l \in Loops |-> "absent"]
    BY <2>1 DEF StatusIn, Absent
  <2>3. QED
    BY <2>2, StatusIsInLog DEF Queue!Lifecycle!Init
<1>2. Init => Serial
  BY DEF Init, Queue!Init, Serial, Procs
<1>3. IInv /\ LoopsOver /\ Serial /\ [Next]_vars => Serial'
  BY SerialStep
<1>4. IInv /\ LoopsOver /\ Serial /\ [Next]_vars => [Queue!Lifecycle!Next]_(Queue!Status)
  BY LifecycleStep
<1>5. Spec => []LoopsOver
  BY LoopsAreOver
<1>6. QED
  BY <1>1, <1>2, <1>3, <1>4, <1>5, InvariantHolds, PTL
     DEF Spec, LifecycleSpec, Queue!LifecycleSpec, Queue!Lifecycle!Spec

=============================================================================
